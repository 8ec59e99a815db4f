------------------------------ MODULE Dashboard -----------------------------
(***************************************************************************)
(* The page web/app.js over the server of EventLog: it  loads the list of  *)
(* requests once over REST, then opens an EventSource and applies every    *)
(* event to its cards; opening a card fetches its detail.                  *)
(*                                                                         *)
(* The URL of the EventSource carries last_event_id=0 (state.lastEventId   *)
(* when connectSse runs), so each connection replays the whole buffer on   *)
(* top of what the page knows, and the server, asked from 0, never sends   *)
(* replay-gap: the page's handler of it is dead code and is not modelled.  *)
(* The feed between table and page is taken in order, as EventStream shows *)
(* it is.  A GET is served on the idle event loop and its answer travels.  *)
(***************************************************************************)
EXTENDS EventLog

CONSTANTS MaxBreaks,   \* bound on broken connections, failed loads and reloads
          MaxOnTheWay  \* bound on what was asked for an open card and is not there

ASSUME PageAssumption == MaxBreaks \in Nat /\ MaxOnTheWay \in Nat
ASSUME UndefinedAssumption == \A s \in SUBSET Answers : s # None  \* a list is something

VARIABLES page,      \* loading, live or offline
          reply,     \* the answer to GET /api/requests on its way, or None
          cards,     \* state.cardsById
          modal,     \* modalState.id
          asked,     \* the requests whose detail was asked for
          details,   \* the details on their way
          tallies,   \* the answers to the page's own votes on their way
          conn,      \* the EventSource has a connection
          read,      \* the last row the connection's stream has read
          inflight,  \* the events read and not yet dispatched
          unheard,   \* ghost: events that the cards may lack
          raced,     \* ghost: requests whose card was taken back behind an
                     \* event that this connection has dispatched already
          breaks     \* how often something broke

feed     == <<conn, read, inflight>>
fetching == <<modal, asked, details, tallies, raced>>
browser  == <<page, reply, cards, fetching, feed, unheard, breaks>>
allVars  == <<logVars, browser>>

NewCard == [status |-> "open", accepted |-> None, count |-> 0, top |-> 0,
            answers |-> None]  \* undefined until its modal shows some

PageInit == /\ LogInit
            /\ page = "loading" /\ reply = None
            /\ cards = << >>
            /\ modal = None /\ asked = {} /\ details = {} /\ tallies = {} /\ raced = {}
            /\ conn = FALSE /\ read = 0 /\ inflight = {}
            /\ unheard = {} /\ breaks = 0

-----------------------------------------------------------------------------
(* The answers of the server.                                              *)

TopVotes(r) == Greatest({0} \cup {VoteCount(a) : a \in AnswersTo(r)})

Summary(r) == [status |-> requests[r].status, accepted |-> requests[r].accepted,
               count |-> Cardinality(AnswersTo(r)), top |-> TopVotes(r),
               answers |-> None]

Detail(r) == [request |-> r, status |-> requests[r].status,
              accepted |-> requests[r].accepted, answers |-> AnswersTo(r), at |-> seq]

-----------------------------------------------------------------------------
(* The listeners of connectSse, as functions of the cards.                 *)

(* Variant: the payload of request.created does not reset the count.       *)
OnCreatedKept(c, r) ==
  Put(c, r, IF r \in DOMAIN c THEN [c[r] EXCEPT !.status = "open"] ELSE NewCard)

(* upsertCard merges the payload, answer_count 0 included, into the card.  *)
OnCreated(c, r) ==
  Put(c, r, IF r \in DOMAIN c THEN [c[r] EXCEPT !.status = "open", !.count = 0]
            ELSE NewCard)

(* bumpAnswerCount: an answer the card has from a detail is not counted.   *)
OnAnswered(c, r, a) ==
  LET has == c[r].answers # None
      now == IF has THEN c[r].answers \cup {a} ELSE IF modal = r THEN {a} ELSE None
  IN  IF has /\ a \in c[r].answers THEN c
      ELSE [c EXCEPT ![r] = [c[r] EXCEPT !.count = @ + 1, !.answers = now]]

OnVoted(c, r, n) == [c EXCEPT ![r].top = Greatest({@, n})]

OnEvent(c, e) ==
  IF e.kind = "request.created" THEN OnCreated(c, e.request)
  ELSE IF e.request \notin DOMAIN c THEN c
  ELSE CASE e.kind = "answer.created"   -> OnAnswered(c, e.request, e.answer)
         [] e.kind = "request.closed"   -> [c EXCEPT ![e.request].status = "closed"]
         [] e.kind = "request.deleted"  -> Only(c, DOMAIN c \ {e.request})
         [] e.kind = "request.accepted" -> [c EXCEPT ![e.request].accepted = e.answer]
         [] e.kind = "answer.vote"      -> OnVoted(c, e.request, e.votes)

-----------------------------------------------------------------------------
(* A step of the server; a kill takes the connection along.                *)
ServerStep ==
  /\ LogNext
  /\ unheard' = unheard \cup (seq + 1)..seq'
  /\ IF up' THEN UNCHANGED feed
     ELSE conn' = FALSE /\ inflight' = {} /\ UNCHANGED read
  /\ UNCHANGED <<page, reply, cards, fetching, breaks>>

-----------------------------------------------------------------------------
(* Loading.                                                                *)

ServeList ==
  /\ page = "loading" /\ reply = None
  /\ Serving
  /\ reply' = [rows |-> [r \in DOMAIN requests |-> Summary(r)], at |-> seq]
  /\ UNCHANGED <<logVars, page, cards, fetching, feed, unheard, breaks>>

(* The cards are shown and connectSse is called.                           *)
ListArrives ==
  /\ page = "loading" /\ reply # None
  /\ cards' = reply.rows
  /\ unheard' = {i \in unheard : i > reply.at}
  /\ page' = "live" /\ reply' = None
  /\ UNCHANGED <<logVars, fetching, feed, breaks>>

Breaking == breaks < MaxBreaks /\ breaks' = breaks + 1

(* "Dashboard init failed": nothing tries again.                           *)
ListFails ==
  /\ Breaking
  /\ page = "loading"
  /\ page' = "offline" /\ reply' = None
  /\ UNCHANGED <<logVars, cards, fetching, feed, unheard>>

(* The user reloads the page; the module state starts afresh.              *)
Reload ==
  /\ Breaking
  /\ page # "loading"
  /\ page' = "loading" /\ reply' = None
  /\ cards' = << >>
  /\ modal' = None /\ asked' = {} /\ details' = {} /\ tallies' = {} /\ raced' = {}
  /\ conn' = FALSE /\ read' = 0 /\ inflight' = {}
  /\ unheard' = 1..seq
  /\ UNCHANGED logVars

-----------------------------------------------------------------------------
(* Events.                                                                 *)

(* Variant: a connection starts at the end of the table.                   *)
ConnectLive ==
  /\ page = "live" /\ ~conn
  /\ Serving
  /\ conn' = TRUE /\ read' = seq
  /\ UNCHANGED <<logVars, page, reply, cards, fetching, inflight, unheard, breaks>>

(* The first connection and every reconnection use the same URL, and hear  *)
(* everything in the buffer again.                                         *)
Connect ==
  /\ page = "live" /\ ~conn
  /\ Serving
  /\ conn' = TRUE /\ read' = 0 /\ raced' = {}
  /\ UNCHANGED <<logVars, page, reply, cards, modal, asked, details, tallies, inflight,
                 unheard, breaks>>

Unread == RowsAfter(table, read, Batch)

ReadRows ==
  /\ conn /\ Serving
  /\ Unread # {}
  /\ inflight' = inflight \cup Unread
  /\ read' = Greatest(Unread)
  /\ UNCHANGED <<logVars, page, reply, cards, fetching, conn, unheard, breaks>>

(* An event takes the card of its request back to its own moment, so what  *)
(* came after it has to be heard once more.                                *)
Dispatch ==
  /\ inflight # {}
  /\ LET id == Least(inflight)
         r  == log[id].request
     IN  /\ cards' = OnEvent(cards, log[id])
         /\ inflight' = inflight \ {id}
         /\ unheard' = (unheard \ {id}) \cup {j \in About(r) : j > id}
  /\ UNCHANGED <<logVars, page, reply, fetching, conn, read, breaks>>

(* Variant: events of the broken connection are still dispatched.          *)
BreakLate ==
  /\ Breaking
  /\ conn
  /\ conn' = FALSE
  /\ UNCHANGED <<logVars, page, reply, cards, fetching, read, inflight, unheard>>

Break ==
  /\ Breaking
  /\ conn
  /\ conn' = FALSE /\ inflight' = {}
  /\ UNCHANGED <<logVars, page, reply, cards, fetching, read, unheard>>

-----------------------------------------------------------------------------
(* Details.                                                                *)

Room ==
  Cardinality(asked) + Cardinality(details) + Cardinality(tallies) < MaxOnTheWay

OpenModal(r) ==
  /\ r \in DOMAIN cards
  /\ Room
  /\ modal' = r /\ asked' = asked \cup {r}
  /\ UNCHANGED <<logVars, page, reply, cards, details, tallies, raced, feed, unheard, breaks>>

(* After an answer or an upload of the page's own, which is a handler of   *)
(* the server like any other's, the detail is fetched again.               *)
Refetch(r) ==
  /\ r \in DOMAIN cards
  /\ Room
  /\ asked' = asked \cup {r}
  /\ UNCHANGED <<logVars, page, reply, cards, modal, details, tallies, raced, feed,
                 unheard, breaks>>

CloseModal ==
  /\ modal # None
  /\ modal' = None
  /\ UNCHANGED <<logVars, page, reply, cards, asked, details, tallies, raced, feed,
                 unheard, breaks>>

(* A 404 only logs a warning.                                              *)
ServeDetail(r) ==
  /\ r \in asked
  /\ Serving
  /\ asked' = asked \ {r}
  /\ details' = IF r \in DOMAIN requests THEN details \cup {Detail(r)} ELSE details
  /\ UNCHANGED <<logVars, page, reply, cards, modal, tallies, raced, feed, unheard, breaks>>

(* Merged into the card if its modal is (again) the open one: it takes the *)
(* card back to the moment it was served at, and what the connection has   *)
(* dispatched of the events since does not come again.                     *)
DetailArrives(d) ==
  LET r      == d.request
      merged == modal = r /\ r \in DOMAIN cards
      since  == {i \in About(r) : i > d.at}
  IN  /\ details' = details \ {d}
      /\ cards' = IF merged
                  THEN [cards EXCEPT ![r] =
                         [cards[r] EXCEPT !.status = d.status, !.accepted = d.accepted,
                                          !.answers = d.answers]]
                  ELSE cards
      /\ unheard' = IF merged THEN unheard \cup since ELSE unheard
      /\ raced' = IF merged /\ \E i \in since : i <= read /\ i \notin inflight
                  THEN raced \cup {r} ELSE raced
      /\ UNCHANGED <<logVars, page, reply, modal, asked, tallies, feed, breaks>>

(* A vote of the page's own: the response brings the count, too.           *)
OwnVote(a, v) ==
  /\ ToggleVote(a, v)
  /\ modal = answers[a].request
  /\ Room
  /\ tallies' = tallies \cup {[request |-> modal, votes |-> VoteCount(a)']}
  /\ UNCHANGED <<log, page, reply, cards, modal, asked, details, raced, feed, unheard,
                 breaks>>

TallyArrives(t) ==
  /\ tallies' = tallies \ {t}
  /\ cards' = IF t.request \in DOMAIN cards THEN OnVoted(cards, t.request, t.votes)
              ELSE cards
  /\ UNCHANGED <<logVars, page, reply, modal, asked, details, raced, feed, unheard, breaks>>

-----------------------------------------------------------------------------
PageNext ==
  \/ ServerStep
  \/ ServeList \/ ListArrives \/ ListFails \/ Reload
  \/ Connect \/ ReadRows \/ Dispatch \/ Break
  \/ CloseModal
  \/ \E r \in Requests : OpenModal(r) \/ Refetch(r) \/ ServeDetail(r)
  \/ \E a \in Answers, v \in Clients : OwnVote(a, v)
  \/ \E t \in tallies : TallyArrives(t)
  \/ \E d \in details : DetailArrives(d)

PageSpec == PageInit /\ [][PageNext]_allVars

-----------------------------------------------------------------------------
CardRecord == [status : {"open", "closed"}, accepted : Answers \cup {None},
               count : Nat, top : Nat, answers : (SUBSET Answers) \cup {None}]

PageOK ==
  /\ Len(log) = seq /\ unheard \subseteq 1..seq
  /\ page \in {"loading", "live", "offline"}
  /\ page # "loading" => reply = None
  /\ page # "live" => cards = << >> /\ ~conn
  /\ ~conn => inflight = {}
  /\ \A r \in DOMAIN cards : r \in Requests /\ cards[r] \in CardRecord
  /\ modal \in Requests \cup {None}
  /\ raced \cup asked \subseteq Requests
  /\ inflight \subseteq 1..read /\ read <= seq

(* The page has nothing left to hear.                                      *)
CaughtUp == conn /\ job = Idle /\ Unread = {} /\ inflight = {}

(* A page that is caught up shows every request there is, and none that    *)
(* was deleted, each with its status and its accepted answer, and no fewer *)
(* top votes than it has - through snapshot, replays, reconnections and    *)
(* details, although every replay and every late detail takes the cards    *)
(* back to their past.  Exempt are a request an event of which was trimmed *)
(* before the page heard it, for the first time or once more after its     *)
(* card was taken back; until the next connection, one whose detail was    *)
(* overtaken by an event; and what retention prunes (app.js:505-511,       *)
(* 800-805, 866-925).                                                      *)
CardsTell ==
  CaughtUp =>
    \A r \in Requests \ (raced \cup torn) :
      About(r) \cap unheard \subseteq table =>
        /\ r \in DOMAIN requests =>
             /\ r \in DOMAIN cards
             /\ cards[r].status = requests[r].status
             /\ cards[r].accepted = requests[r].accepted
             /\ cards[r].top >= TopVotes(r)
        /\ r \in DOMAIN cards => r \in DOMAIN requests \/ Retention

(* ... and the right number of answers, as long as the buffer holds the    *)
(* request's whole story and its card has no answers of its own, as it has *)
(* once its modal was open: then each replay starts from the count in      *)
(* request.created and counts every answer once (app.js:446-486).          *)
CountsRight ==
  CaughtUp =>
    \A r \in (DOMAIN cards \cap DOMAIN requests) \ torn :
      About(r) \subseteq table /\ cards[r].answers = None =>
        cards[r].count = Cardinality(AnswersTo(r))

(* "Reload page: state restored from REST + SSE resumes": a page that is   *)
(* caught up shows the number of answers (web/tests/MANUAL.md:13, 18).     *)
StateRestored ==
  CaughtUp => \A r \in DOMAIN cards \cap DOMAIN requests :
                cards[r].count = Cardinality(AnswersTo(r))
=============================================================================
