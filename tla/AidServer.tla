------------------------------ MODULE AidServer -----------------------------
(***************************************************************************)
(* The server's write path: the tables of db.py and the handlers of        *)
(* routes/ that change them.                                               *)
(*                                                                         *)
(* A handler is an async def without an await (uploads excepted), so no    *)
(* other handler runs before it responds.  But it is several transactions: *)
(* first the change itself, then append_event, then trim_events and, after *)
(* an ask, the retention prune.  A kill can fall between any two, so each  *)
(* is an action and `job` says what the running handler has yet to do.     *)
(* The answers 404, 409, 403 and 429 change nothing and are no actions;    *)
(* whether an ask passes the rate limiter is SlidingWindow's matter.       *)
(***************************************************************************)
EXTENDS EventTable

CONSTANTS Requests, Answers, Files,  \* the uuids the server may draw
          Clients,      \* client ids, as askers, solvers and voters
          None,         \* SQL NULL
          EventBuffer,  \* settings.event_buffer
          MaxPerOwner,  \* settings.max_attachments_per_owner
          Retention,    \* settings.retention_days > 0
          Spooled,      \* settings.max_attachment_kb lets a body of more than
                        \* 1 MB through, which the server keeps in a file
          MaxEvents,    \* bound on the events, hence on the writes
          MaxKills      \* bound on the kills

ASSUME IdAssumption == /\ Requests \cap Answers = {}
                       /\ Files \cap (Requests \cup Answers) = {}
                       /\ None \notin Requests \cup Answers
ASSUME BufferAssumption == EventBuffer \in Nat
ASSUME FlagAssumption == Retention \in BOOLEAN /\ Spooled \in BOOLEAN
ASSUME LimitAssumption == MaxPerOwner \in Nat /\ MaxEvents \in Nat /\ MaxKills \in Nat

VARIABLES requests,     \* the rows of requests, by id
          answers,      \* the rows of answers, by id
          votes,        \* the rows of answer_votes
          attachments,  \* the rows of attachments, by id: the owner's id
          old,          \* the closed requests past the retention time
          seq, table,   \* the events table, see EventTable
          job,          \* the rest of the running handler
          uploads,      \* the uploads suspended in `await file.read()`
          up,           \* the server process runs
          drawn,        \* the uuids drawn so far
          mirror,       \* ghost: the requests as the events alone tell them
          torn,         \* ghost: the requests a kill robbed of an event
          untrimmed,    \* ghost: the appends since the last trim which a kill
                        \* cut off from theirs
          kills         \* how often the server was killed

tables == <<requests, answers, votes, attachments, old>>
events == <<seq, table, mirror>>
ghosts == <<torn, untrimmed, kills>>
vars   == <<tables, events, job, uploads, up, drawn, ghosts>>

Idle == [at |-> "idle", event |-> None]

Absent == [status |-> "absent", accepted |-> None, tally |-> << >>]

Init == /\ requests = << >> /\ answers = << >> /\ votes = {}
        /\ attachments = << >> /\ old = {}
        /\ seq = 0 /\ table = {}
        /\ job = Idle /\ uploads = {} /\ up = TRUE /\ drawn = {}
        /\ mirror = [r \in Requests |-> Absent]
        /\ torn = {} /\ untrimmed = 0 /\ kills = 0

Put(f, x, v) == [y \in DOMAIN f \cup {x} |-> IF y = x THEN v ELSE f[y]]
Only(f, S) == [y \in DOMAIN f \cap S |-> f[y]]

AnswersTo(r) == {a \in DOMAIN answers : answers[a].request = r}
VoteCount(a) == Cardinality({v \in votes : v[1] = a})
Owners == DOMAIN requests \cup DOMAIN answers
FilesOf(o) == {f \in DOMAIN attachments : attachments[f] = o}

-----------------------------------------------------------------------------
(* The payloads of events.py, by what they identify.                       *)
Created(r, c)     == [kind |-> "request.created", request |-> r, client |-> c]
Answered(r, a)    == [kind |-> "answer.created", request |-> r, answer |-> a]
ClosedEvent(r)    == [kind |-> "request.closed", request |-> r]
Deleted(r)        == [kind |-> "request.deleted", request |-> r]
Accepted(r, a)    == [kind |-> "request.accepted", request |-> r, answer |-> a]
Voted(r, a, n)    == [kind |-> "answer.vote", request |-> r, answer |-> a, votes |-> n]

(* What a listener that has m for the event's request makes of the event.  *)
Applied(m, e) ==
  CASE e.kind = "request.created"  -> [Absent EXCEPT !.status = "open"]
    [] e.kind = "answer.created"   -> [m EXCEPT !.tally = Put(@, e.answer, 0)]
    [] e.kind = "request.closed"   -> [m EXCEPT !.status = "closed"]
    [] e.kind = "request.deleted"  -> Absent
    [] e.kind = "request.accepted" -> [m EXCEPT !.accepted = e.answer]
    [] e.kind = "answer.vote"      -> [m EXCEPT !.tally = Put(@, e.answer, e.votes)]

-----------------------------------------------------------------------------
(* Handlers.  Each starts on an idle event loop and leaves its event to    *)
(* append; seq < MaxEvents only bounds the model.                          *)

Start(e) == /\ up /\ job = Idle
            /\ seq < MaxEvents
            /\ job' = [at |-> "append", event |-> e]
            /\ UNCHANGED <<events, uploads, up, ghosts>>

Draw(id) == id \notin drawn /\ drawn' = drawn \cup {id}

(* The Store's part of each handler, one transaction; then the route.      *)

InsertRequest(r, c) ==
  /\ Draw(r)
  /\ requests' = Put(requests, r, [client |-> c, status |-> "open", accepted |-> None])
  /\ UNCHANGED <<answers, votes, attachments, old>>

CreateRequest(r, c) == Start(Created(r, c)) /\ InsertRequest(r, c)

InsertAnswer(r, a, c) ==
  /\ Draw(a)
  /\ answers' = Put(answers, a, [request |-> r, solver |-> c])
  /\ UNCHANGED <<requests, votes, attachments, old>>

(* Variant: the status is not looked at.                                   *)
CreateLateAnswer(r, a, c) ==
  /\ Start(Answered(r, a))
  /\ r \in DOMAIN requests
  /\ requests[r].client # c
  /\ InsertAnswer(r, a, c)

(* Variant: the asker may answer herself.                                  *)
CreateOwnAnswer(r, a, c) ==
  /\ Start(Answered(r, a))
  /\ r \in DOMAIN requests
  /\ requests[r].status = "open"
  /\ InsertAnswer(r, a, c)

CreateAnswer(r, a, c) ==
  /\ Start(Answered(r, a))
  /\ r \in DOMAIN requests
  /\ requests[r].status = "open"
  /\ requests[r].client # c
  /\ InsertAnswer(r, a, c)

(* UPDATE ... WHERE status='open'; no row, no change and no event.         *)
MarkClosed(r) ==
  /\ requests[r].status = "open"
  /\ requests' = [requests EXCEPT ![r].status = "closed"]
  /\ UNCHANGED <<answers, votes, attachments, old, drawn>>

CloseRequest(r) ==
  /\ Start(ClosedEvent(r))
  /\ r \in DOMAIN requests
  /\ MarkClosed(r)

(* Variant: the answer's request is not compared.                          *)
SetAnyAccepted(r, a, c) ==
  /\ r \in DOMAIN requests
  /\ a \in DOMAIN answers
  /\ requests[r].client = c
  /\ requests' = [requests EXCEPT ![r].accepted = a]
  /\ UNCHANGED <<answers, votes, attachments, old, drawn>>

(* The asker may accept, and overwrite, at any time, closed or not.        *)
SetAccepted(r, a, c) ==
  /\ r \in DOMAIN requests
  /\ a \in DOMAIN answers
  /\ answers[a].request = r
  /\ requests[r].client = c
  /\ requests' = [requests EXCEPT ![r].accepted = a]
  /\ UNCHANGED <<answers, votes, attachments, old, drawn>>

AcceptAnswer(r, a, c) == Start(Accepted(r, a)) /\ SetAccepted(r, a, c)

Toggle(a, v) ==
  /\ a \in DOMAIN answers
  /\ votes' = IF <<a, v>> \in votes THEN votes \ {<<a, v>>} ELSE votes \cup {<<a, v>>}
  /\ UNCHANGED <<requests, answers, attachments, old, drawn>>

(* Variant: the event carries the count from before the toggle.            *)
ToggleVoteStale(a, v) ==
  /\ Toggle(a, v)
  /\ Start(Voted(answers[a].request, a, VoteCount(a)))

(* The event carries the count after the toggle.                           *)
ToggleVote(a, v) ==
  /\ Toggle(a, v)
  /\ Start(Voted(answers[a].request, a, VoteCount(a)'))

(* Variant: without the foreign keys.                                      *)
DeleteRowsAlone(R) == /\ requests' = Only(requests, DOMAIN requests \ R)
                      /\ old' = old \ R
                      /\ UNCHANGED <<answers, votes>>

(* DELETE FROM requests for the rows in R, as the foreign keys complete it: *)
(* ON DELETE CASCADE for answers and votes, SET NULL for accepted_answer_id. *)
DeleteRows(R) ==
  LET dead == {a \in DOMAIN answers : answers[a].request \in R}
  IN  /\ requests' = [r \in DOMAIN requests \ R |->
                        IF requests[r].accepted \in dead
                        THEN [requests[r] EXCEPT !.accepted = None] ELSE requests[r]]
      /\ answers' = Only(answers, DOMAIN answers \ dead)
      /\ votes' = {v \in votes : v[1] \notin dead}
      /\ old' = old \ R

(* Variant: without the attachments of answers.                            *)
DeleteOnly(r) ==
  /\ DeleteRows({r})
  /\ attachments' = Only(attachments, {f \in DOMAIN attachments : attachments[f] # r})
  /\ UNCHANGED drawn

(* Variant: the row is only marked.                                        *)
DeleteSoft(r) ==
  /\ requests' = [requests EXCEPT ![r].status = "deleted"]
  /\ UNCHANGED <<answers, votes, attachments, old, drawn>>

DeleteWithFiles(r) ==
  /\ DeleteRows({r})
  /\ attachments' = Only(attachments,
       {f \in DOMAIN attachments : attachments[f] \notin {r} \cup AnswersTo(r)})
  /\ UNCHANGED drawn

DeleteRequest(r) ==
  /\ Start(Deleted(r))
  /\ r \in DOMAIN requests
  /\ DeleteWithFiles(r)

-----------------------------------------------------------------------------
(* What the handlers do after their change.                                *)

AppendEvent ==
  /\ up /\ job.at = "append"
  /\ seq' = seq + 1
  /\ table' = table \cup {seq + 1}
  /\ mirror' = [mirror EXCEPT ![job.event.request] = Applied(@, job.event)]
  /\ job' = [job EXCEPT !.at = "trim"]
  /\ UNCHANGED <<tables, uploads, up, drawn, ghosts>>

(* Variant: only an ask trims.                                             *)
TrimAfterAsk ==
  /\ up /\ job.at = "trim"
  /\ table' = IF job.event.kind = "request.created" THEN Trimmed(table, EventBuffer) ELSE table
  /\ job' = IF Retention /\ job.event.kind = "request.created"
            THEN [job EXCEPT !.at = "prune"] ELSE Idle
  /\ untrimmed' = 0
  /\ UNCHANGED <<tables, seq, mirror, uploads, up, drawn, torn, kills>>

TrimEvents ==
  /\ up /\ job.at = "trim"
  /\ table' = Trimmed(table, EventBuffer)
  /\ job' = IF Retention /\ job.event.kind = "request.created"
            THEN [job EXCEPT !.at = "prune"] ELSE Idle
  /\ untrimmed' = 0
  /\ UNCHANGED <<tables, seq, mirror, uploads, up, drawn, torn, kills>>

(* prune_old_closed(days): the closed rows with closed_at before the cutoff. *)
(* Variant: without the cutoff.                                            *)
PruneClosed ==
  DeleteRows({r \in DOMAIN requests : requests[r].status = "closed"})
    /\ UNCHANGED attachments

PruneOldClosed ==
  DeleteRows({r \in old : r \in DOMAIN requests /\ requests[r].status = "closed"})
    /\ UNCHANGED attachments

Prune == /\ up /\ job.at = "prune"
         /\ PruneOldClosed
         /\ job' = Idle
         /\ UNCHANGED <<events, uploads, up, drawn, ghosts>>

-----------------------------------------------------------------------------
(* Uploads.  The checks come before `await file.read()`, the insert after  *)
(* it.  Reading a body held in memory does not suspend; reading one that   *)
(* was spooled to a file does, and other handlers run meanwhile.           *)

(* Variant: the cap is off by one.                                         *)
UploadChecksOneMore(o) == /\ o \in Owners
                          /\ Cardinality(FilesOf(o)) <= MaxPerOwner

UploadChecks(o) == /\ o \in Owners
                   /\ Cardinality(FilesOf(o)) < MaxPerOwner

AddAttachment(f, o) == /\ Draw(f)
                       /\ attachments' = Put(attachments, f, o)
                       /\ UNCHANGED <<requests, answers, votes, old>>

Upload(f, o) ==
  /\ up /\ job = Idle
  /\ UploadChecks(o)
  /\ AddAttachment(f, o)
  /\ UNCHANGED <<events, job, uploads, up, ghosts>>

BeginUpload(f, o) ==
  /\ Spooled
  /\ up /\ job = Idle
  /\ f \notin drawn /\ \A u \in uploads : u.file # f
  /\ UploadChecks(o)
  /\ uploads' = uploads \cup {[file |-> f, owner |-> o]}
  /\ UNCHANGED <<tables, events, job, up, drawn, ghosts>>

EndUpload(u) ==
  /\ up /\ job = Idle
  /\ AddAttachment(u.file, u.owner)
  /\ uploads' = uploads \ {u}
  /\ UNCHANGED <<events, job, up, ghosts>>

(* The body turns out larger than max_attachment_kb.                       *)
RefuseUpload(u) ==
  /\ up /\ job = Idle
  /\ uploads' = uploads \ {u}
  /\ UNCHANGED <<tables, events, job, up, drawn, ghosts>>

-----------------------------------------------------------------------------
(* Time, kills and restarts.                                               *)

GrowOld(r) ==
  /\ Retention
  /\ r \in DOMAIN requests \ old
  /\ requests[r].status = "closed"
  /\ old' = old \cup {r}
  /\ UNCHANGED <<requests, answers, votes, attachments, events, job, uploads, up,
                 drawn, ghosts>>

Kill ==
  /\ up /\ kills < MaxKills
  /\ kills' = kills + 1
  /\ up' = FALSE
  /\ torn' = IF job.at = "append" THEN torn \cup {job.event.request} ELSE torn
  /\ untrimmed' = IF job.at = "trim" THEN untrimmed + 1 ELSE untrimmed
  /\ job' = Idle
  /\ uploads' = {}
  /\ UNCHANGED <<tables, events, drawn>>

(* create_app, with its prune at start-up.                                 *)
Boot ==
  /\ ~up
  /\ up' = TRUE
  /\ IF Retention THEN PruneOldClosed ELSE UNCHANGED tables
  /\ UNCHANGED <<events, job, uploads, drawn, ghosts>>

-----------------------------------------------------------------------------
Next ==
  \/ \E r \in Requests, c \in Clients : CreateRequest(r, c)
  \/ \E r \in Requests, a \in Answers, c \in Clients :
        CreateAnswer(r, a, c) \/ AcceptAnswer(r, a, c)
  \/ \E r \in Requests : CloseRequest(r) \/ DeleteRequest(r) \/ GrowOld(r)
  \/ \E a \in Answers, v \in Clients : ToggleVote(a, v)
  \/ \E f \in Files, o \in Requests \cup Answers : Upload(f, o) \/ BeginUpload(f, o)
  \/ \E u \in uploads : EndUpload(u) \/ RefuseUpload(u)
  \/ AppendEvent \/ TrimEvents \/ Prune \/ Kill \/ Boot

Spec == Init /\ [][Next]_vars

-----------------------------------------------------------------------------
RequestRow == [client : Clients, status : {"open", "closed"},
               accepted : Answers \cup {None}]
AnswerRow == [request : Requests, solver : Clients]

TypeOK ==
  /\ DOMAIN requests \subseteq drawn \cap Requests
  /\ requests \in [DOMAIN requests -> RequestRow]
  /\ DOMAIN answers \subseteq drawn \cap Answers
  /\ answers \in [DOMAIN answers -> AnswerRow]
  /\ votes \subseteq Answers \X Clients
  /\ DOMAIN attachments \subseteq drawn \cap Files
  /\ attachments \in [DOMAIN attachments -> Requests \cup Answers]
  /\ old \subseteq Requests
  /\ drawn \subseteq Requests \cup Answers \cup Files
  /\ seq \in 0..MaxEvents /\ table \subseteq 1..seq
  /\ job.at \in {"idle", "append", "trim", "prune"}
  /\ job.at = "idle" <=> job = Idle
  /\ job # Idle => up /\ job.event.request \in Requests
  /\ uploads \subseteq [file : Files, owner : Requests \cup Answers]
  /\ up \in BOOLEAN /\ torn \subseteq Requests
  /\ kills \in 0..MaxKills /\ untrimmed \in 0..kills

(* No row outlives what it refers to, through deletes, prunes and kills:   *)
(* answers belong to live requests, votes to live answers, and a request's *)
(* accepted answer is one of its own (migrations/001 and 002, db.py:147).  *)
ReferentialIntegrity ==
  /\ \A a \in DOMAIN answers : answers[a].request \in DOMAIN requests
  /\ \A v \in votes : v[1] \in DOMAIN answers
  /\ \A r \in DOMAIN requests :
        requests[r].accepted # None => requests[r].accepted \in AnswersTo(r)

(* Every attachment belongs to a live request or answer ("Cascade delete   *)
(* attachments", db.py:77), although no foreign key says so.               *)
NoOrphanAttachment == \A f \in DOMAIN attachments : attachments[f] \in Owners

(* ... and with every setting, attachments lose their owner in no other    *)
(* way than by the prune of their request, or by an upload whose body was  *)
(* still being read when the owner was deleted: a deletion takes along     *)
(* whatever is there, and no order of handlers, kills and restarts leaves  *)
(* more behind (db.py:75-95, routes/attachments.py:48-82).                 *)
OrphanedRightly ==
  [][\A f \in DOMAIN attachments' : attachments'[f] \notin Owners' =>
       \/ f \in DOMAIN attachments /\ attachments[f] \notin Owners
       \/ \E u \in uploads : u.file = f
       \/ /\ job.at = "prune" \/ ~up
          /\ \E r \in old : attachments[f] \in {r} \cup AnswersTo(r)]_vars

(* "Per-owner count cap: settings.max_attachments_per_owner"               *)
(* (routes/attachments.py:11).                                             *)
CapHolds == \A o \in Requests \cup Answers : Cardinality(FilesOf(o)) <= MaxPerOwner

(* Request r as the tables tell it.                                        *)
View(r) ==
  IF r \notin DOMAIN requests THEN Absent
  ELSE [status |-> requests[r].status, accepted |-> requests[r].accepted,
        tally |-> [a \in AnswersTo(r) |-> VoteCount(a)]]

(* ... and as a listener to every event tells it, once the running handler *)
(* has appended its own.                                                   *)
Told(r) == IF job.at = "append" /\ job.event.request = r
           THEN Applied(mirror[r], job.event) ELSE mirror[r]

(* The events alone tell the whole story: whoever applies them all in      *)
(* order holds what the tables hold, vote counts, acceptance and deletion  *)
(* included - except for a request whose event died with the process       *)
(* between the commit of a change and append_event.                        *)
EventsTellAll == \A r \in Requests \ torn : Told(r) = View(r)

(* The same for the requests that still exist, which the prune, the one    *)
(* change without an event, leaves alone.                                  *)
EventsTellTheLiving == \A r \in DOMAIN requests \ torn : Told(r) = View(r)

(* A closed request is final: while it exists it stays closed and receives *)
(* no further answer, by any order of handlers and restarts.               *)
ClosedIsFinal ==
  [][\A r \in DOMAIN requests \cap DOMAIN requests' :
       requests[r].status = "closed" =>
         requests'[r].status = "closed" /\ AnswersTo(r)' = AnswersTo(r)]_vars

(* A request vanishes by its own deletion, or by retention once it has     *)
(* been closed for long enough: neither an open request nor a recently     *)
(* closed one is ever swept away (db.py:473-480).                          *)
VanishesRightly ==
  [][\A r \in DOMAIN requests \ DOMAIN requests' :
       r \in old \/ (job' # Idle /\ job'.event = Deleted(r))]_vars

-----------------------------------------------------------------------------
Slot(r) ==
  IF r \in DOMAIN requests
  THEN [life |-> requests[r].status, asker |-> requests[r].client,
        answers |-> {<<a, answers[a].solver>> : a \in AnswersTo(r)},
        accepted |-> requests[r].accepted]
  ELSE [life |-> IF r \in drawn THEN "gone" ELSE "new", asker |-> None,
        answers |-> {}, accepted |-> None]

(* Between any two transactions, kills and restarts included, the tables   *)
(* show what a board of requests and answers should: no handler or prune,  *)
(* with what the foreign keys add, makes more than one legal move on it    *)
(* (db.py:23-213, 473-480).                                                *)
Board == INSTANCE HelpBoard WITH
           board <- [r \in Requests |-> Slot(r)],
           spent <- drawn \cap Answers
BoardSpec == Board!Spec

(* Of the events table the handlers make what EventStream's streams and    *)
(* EventSources were checked on: one event at a time is appended and then  *)
(* trimmed, with nothing in between but a kill, and nothing else touches   *)
(* the table (db.py:251-292).                                              *)
Stream == INSTANCE EventStream WITH
            Clients <- {}, Pinned <- {}, Batch <- 1, MaxFailures <- MaxKills,
            trimming <- job.at = "trim", failures <- kills,
            stream <- [c \in {} |-> None], wire <- [c \in {} |-> None],
            cursor <- [c \in {} |-> None], heard <- [c \in {} |-> None],
            missed <- [c \in {} |-> None]
StreamSpec == Stream!Spec
=============================================================================
