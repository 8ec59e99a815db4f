----------------------------- MODULE EventStream ----------------------------
(***************************************************************************)
(* The event feed end to end: handlers append to the events table and trim *)
(* it, one _stream generator per connection polls the table and yields     *)
(* frames, the connection carries them to an EventSource, and the          *)
(* EventSource reconnects.  The server may be killed at any point.         *)
(*                                                                         *)
(* The server is one event loop.  A handler runs from its first statement  *)
(* to its response without suspending, so between its append_event and its *)
(* trim_events (two transactions) no generator runs, but a kill can fall.  *)
(* A generator suspends at every yield and at its sleep.                   *)
(***************************************************************************)
EXTENDS EventTable, Sequences

CONSTANTS Clients,     \* the subscribers
          Pinned,      \* those whose URL carries last_event_id=0 (web/app.js)
          EventBuffer, \* settings.event_buffer
          Batch,       \* the limit of list_events_after
          MaxEvents,   \* bound on the events published
          MaxFailures  \* bound on kills, broken and finished connections

ASSUME PinnedAssumption == Pinned \subseteq Clients
ASSUME BufferAssumption == EventBuffer \in Nat
ASSUME BatchAssumption  == Batch \in Nat \ {0}
ASSUME BoundAssumption  == MaxEvents \in Nat /\ MaxFailures \in Nat

VARIABLES seq,       \* the AUTOINCREMENT counter: the id of the last insert
          table,     \* the ids of the rows of the events table
          trimming,  \* a handler has appended its event and not trimmed yet
          up,        \* the server process runs
          stream,    \* for every client, its generator: where it is suspended,
                     \* its last_id, and the rows fetched but not yielded
          wire,      \* for every client, the frames on their way
          cursor,    \* the EventSource's last event id
          heard,     \* ghost: the frames dispatched to the page, in order
          missed,    \* ghost: rows trimmed while the client's stream was open
                     \* and had not fetched them
          failures   \* how often something broke

server == <<seq, table, trimming, up>>
client == <<cursor, heard>>
vars   == <<seq, table, trimming, up, stream, wire, cursor, heard, missed, failures>>

Gap == 0  \* the frame of event: replay-gap, which carries no id

Closed == [at |-> "closed", last |-> 0, rows |-> {}]

Init == /\ seq = 0
        /\ table = {}
        /\ trimming = FALSE
        /\ up = TRUE
        /\ stream = [c \in Clients |-> Closed]
        /\ wire = [c \in Clients |-> << >>]
        /\ cursor = [c \in Clients |-> 0]
        /\ heard = [c \in Clients |-> << >>]
        /\ missed = [c \in Clients |-> {}]
        /\ failures = 0

-----------------------------------------------------------------------------
(* Handlers.                                                               *)

(* store.append_event in the handler of a write.                           *)
AppendEvent ==
  /\ up /\ ~trimming
  /\ seq < MaxEvents
  /\ seq' = seq + 1
  /\ table' = table \cup {seq + 1}
  /\ trimming' = TRUE
  /\ UNCHANGED <<up, stream, wire, client, missed, failures>>

(* The rows a stream has not fetched when they are deleted.                *)
MissedBy(c, gone) ==
  IF stream[c].at = "closed" THEN {}
  ELSE {i \in gone : i > stream[c].last /\ i \notin stream[c].rows}

(* store.trim_events(keep=settings.event_buffer), the handler's next step. *)
TrimEvents ==
  /\ up /\ trimming
  /\ table' = Trimmed(table, EventBuffer)
  /\ trimming' = FALSE
  /\ missed' = [c \in Clients |-> missed[c] \cup MissedBy(c, table \ table')]
  /\ UNCHANGED <<seq, up, stream, wire, client, failures>>

-----------------------------------------------------------------------------
(* The generator behind GET /events.                                       *)

Running(c, place) == up /\ ~trimming /\ stream[c].at = place

(* qp.get("last_event_id") or headers.get("last-event-id") or "0": the     *)
(* query parameter wins, and the string "0" counts as given.               *)
InitialLastId(c) == IF c \in Pinned THEN 0 ELSE cursor[c]

(* Variant: the boundary of the gap check is off by one.                   *)
GapBeforeLate(last) ==
  LET min == MinEventId(table) IN last > 0 /\ min > 0 /\ last < min - 2

(* Variant: ... and on the other side.                                     *)
GapBeforeEarly(last) ==
  LET min == MinEventId(table) IN last > 0 /\ min > 0 /\ last < min

GapBefore(last) ==
  LET min == MinEventId(table) IN last > 0 /\ min > 0 /\ last < min - 1

(* A connection: the events route, and _stream up to its first suspension. *)
Open(c) ==
  /\ Running(c, "closed")
  /\ wire[c] = << >>
  /\ stream' = [stream EXCEPT ![c] =
                  [at |-> "poll", last |-> InitialLastId(c), rows |-> {}]]
  /\ wire' = [wire EXCEPT ![c] =
                IF GapBefore(InitialLastId(c)) THEN <<Gap>> ELSE << >>]
  /\ UNCHANGED <<server, client, missed, failures>>

(* A round of the loop that finds rows; a round that finds none sleeps.    *)
Poll(c) ==
  /\ Running(c, "poll")
  /\ RowsAfter(table, stream[c].last, Batch) # {}
  /\ stream' = [stream EXCEPT ![c] =
                  [at |-> "send", last |-> stream[c].last,
                   rows |-> RowsAfter(table, stream[c].last, Batch)]]
  /\ UNCHANGED <<server, wire, client, missed, failures>>

(* Variant: the place in the loop is not reset after the last row.         *)
SendRowStuck(c, id) ==
  /\ wire' = [wire EXCEPT ![c] = Append(@, id)]
  /\ stream' = [stream EXCEPT ![c].last = id, ![c].rows = @ \ {id}]
  /\ UNCHANGED <<server, client, missed, failures>>

(* One yield of the for loop, in ORDER BY id ASC, and `last_id = row["id"]`. *)
SendRow(c, id) ==
  LET rest == stream[c].rows \ {id}
  IN  /\ wire' = [wire EXCEPT ![c] = Append(@, id)]
      /\ stream' = [stream EXCEPT ![c] =
                      [at |-> IF rest = {} THEN "poll" ELSE "send",
                       last |-> id, rows |-> rest]]
      /\ UNCHANGED <<server, client, missed, failures>>

(* Variant: rows are yielded newest first.                                 *)
SendNewestFirst(c) ==
  Running(c, "send") /\ \E id \in stream[c].rows :
    (\A j \in stream[c].rows : j <= id) /\ SendRow(c, id)

Send(c) == Running(c, "send") /\ SendRow(c, Least(stream[c].rows))

-----------------------------------------------------------------------------
(* The EventSource.                                                        *)

(* A frame is dispatched; one with an id becomes the last event id.        *)
Dispatch(c) ==
  /\ wire[c] # << >>
  /\ wire' = [wire EXCEPT ![c] = Tail(@)]
  /\ heard' = [heard EXCEPT ![c] = Append(@, Head(wire[c]))]
  /\ cursor' = IF Head(wire[c]) = Gap THEN cursor
               ELSE [cursor EXCEPT ![c] = Head(wire[c])]
  /\ UNCHANGED <<server, stream, missed, failures>>

-----------------------------------------------------------------------------
(* Failures.                                                               *)

Fail == failures < MaxFailures /\ failures' = failures + 1

(* The connection breaks; what was on the wire is lost.                    *)
Drop(c) ==
  /\ Fail
  /\ stream[c].at # "closed" \/ wire[c] # << >>
  /\ stream' = [stream EXCEPT ![c] = Closed]
  /\ wire' = [wire EXCEPT ![c] = << >>]
  /\ UNCHANGED <<server, client, missed>>

(* max_seconds have passed at the end of a round: the response ends, what  *)
(* was sent still arrives.                                                 *)
Finish(c) ==
  /\ Fail
  /\ Running(c, "poll")
  /\ stream' = [stream EXCEPT ![c] = Closed]
  /\ UNCHANGED <<server, wire, client, missed>>

(* SIGKILL; committed transactions survive it.                             *)
Kill ==
  /\ Fail
  /\ up
  /\ up' = FALSE
  /\ trimming' = FALSE
  /\ stream' = [c \in Clients |-> Closed]
  /\ UNCHANGED <<seq, table, wire, client, missed>>

Boot ==
  /\ ~up
  /\ up' = TRUE
  /\ UNCHANGED <<seq, table, trimming, stream, wire, client, missed, failures>>

-----------------------------------------------------------------------------
Next == \/ AppendEvent \/ TrimEvents \/ Kill \/ Boot
        \/ \E c \in Clients : \/ Open(c) \/ Poll(c) \/ Send(c)
                              \/ Dispatch(c) \/ Drop(c) \/ Finish(c)

Spec == Init /\ [][Next]_vars

(* A handler that started finishes, the container restarts the server      *)
(* (restart: unless-stopped), the event loop runs every generator that can *)
(* go on, the network delivers, and an EventSource reconnects by itself.   *)
Fairness ==
  /\ WF_vars(TrimEvents) /\ WF_vars(Boot)
  /\ \A c \in Clients : /\ WF_vars(Open(c)) /\ WF_vars(Poll(c))
                        /\ WF_vars(Send(c)) /\ WF_vars(Dispatch(c))

FairSpec == Spec /\ Fairness

-----------------------------------------------------------------------------
StreamTypeOK(s) == /\ s.at \in {"closed", "poll", "send"}
                   /\ s.last \in 0..seq
                   /\ s.rows \subseteq (s.last + 1)..seq
                   /\ s.rows # {} <=> s.at = "send"

TypeOK == /\ seq \in Nat
          /\ table \subseteq 1..seq
          /\ trimming \in BOOLEAN
          /\ up \in BOOLEAN
          /\ DOMAIN stream = Clients
          /\ \A c \in Clients : StreamTypeOK(stream[c])
          /\ wire \in [Clients -> Seq(0..seq)]
          /\ cursor \in [Clients -> 0..seq]
          /\ heard \in [Clients -> Seq(0..seq)]
          /\ missed \in [Clients -> SUBSET (1..seq)]
          /\ failures \in 0..MaxFailures

(* The buffer never gives up one of the last EventBuffer events, whatever  *)
(* kills fell between an append and its trim (db.py:276-282).              *)
RetainsLatest == \A i \in 1..seq : i > seq - EventBuffer => i \in table

(* The buffer has no holes: it lost the oldest events and no other.  The   *)
(* gap check of sse.py:64-65, which looks at the least id alone, relies on *)
(* this.                                                                   *)
Contiguous == \E lo \in 1..(seq + 1) : table = lo..seq

Resuming == Clients \ Pinned

(* The events between two frames that the page got one after the other.    *)
SilentlySkipped(c) ==
  {i \in 1..seq : \E n \in 1..(Len(heard[c]) - 1) :
      /\ heard[c][n] # Gap /\ heard[c][n + 1] # Gap
      /\ heard[c][n] < i /\ i < heard[c][n + 1]}

(* A client that resumes is never led over missing events without a        *)
(* replay-gap frame, except over those trimmed while its own stream was    *)
(* open: the check of sse.py:63-69 has no blind spot across disconnects,   *)
(* kills and half-done trims.                                              *)
GapsTold == EventBuffer > 0 =>
              \A c \in Resuming : SilentlySkipped(c) \subseteq missed[c]

(* Nor is it told of a gap where there is none: whenever a replay-gap      *)
(* frame arrives, the event right after the last one the client has had is *)
(* gone for good (sse.py:65).                                              *)
GapsTrue ==
  \A c \in Resuming : \A n \in DOMAIN heard[c] :
    heard[c][n] = Gap =>
      \E m \in 1..(n - 1) : /\ heard[c][m] # Gap
                             /\ \A k \in (m + 1)..n : heard[c][k] = Gap
                             /\ heard[c][m] + 1 \in (1..seq) \ table

(* The claim without the exception: "emits replay-gap when buffer trimmed  *)
(* beyond client cursor".                                                  *)
NoSilentGap == \A c \in Resuming : SilentlySkipped(c) = {}

(* "the client reconnects automatically, Last-Event-ID continues": no      *)
(* reconnection takes a page back to events it has had.                    *)
ResumesWhereItLeft ==
  \A c \in Clients : \A m, n \in DOMAIN heard[c] :
    m < n /\ heard[c][m] # Gap /\ heard[c][n] # Gap => heard[c][m] < heard[c][n]

(* The whole path implements the feed: in order, at most once, skipping    *)
(* nothing that is still in the buffer (sse.py:71-88).                     *)
Feed == INSTANCE EventFeed WITH
          Clients   <- Resuming,
          published <- seq,
          expired   <- (1..seq) \ table,
          position  <- [c \in Resuming |-> cursor[c]]
FeedSpec == Feed!Spec

(* Every event reaches every subscriber or leaves the buffer: no row is    *)
(* stranded behind a last_id, a batch limit or a reconnection.             *)
EventuallyHeard ==
  \A c \in Clients : \A i \in 1..MaxEvents :
    seq >= i ~> ((\E n \in DOMAIN heard[c] : heard[c][n] = i) \/ i \notin table)
=============================================================================
