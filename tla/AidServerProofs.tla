--------------------------- MODULE AidServerProofs --------------------------
(***************************************************************************)
(* For every set of ids and clients, buffer size and setting: the tables   *)
(* stay consistent, a closed request is final, nothing vanishes but by     *)
(* deletion or old age, and the events tell what the tables hold.          *)
(***************************************************************************)
EXTENDS AidServer, FiniteSetTheorems, TLAPS

(* The types of the rows; TypeOK without the control state.                *)
RowsOK ==
  /\ DOMAIN requests \subseteq drawn \cap Requests
  /\ requests \in [DOMAIN requests -> RequestRow]
  /\ DOMAIN answers \subseteq drawn \cap Answers
  /\ answers \in [DOMAIN answers -> AnswerRow]
  /\ votes \subseteq Answers \X Clients /\ IsFiniteSet(votes)
  /\ DOMAIN attachments \subseteq drawn \cap Files
  /\ attachments \in [DOMAIN attachments -> Requests \cup Answers]
  /\ old \subseteq Requests
  /\ drawn \subseteq Requests \cup Answers \cup Files

Consistent == RowsOK /\ ReferentialIntegrity

-----------------------------------------------------------------------------
(* The transactions of the Store keep the tables consistent.               *)

LEMMA InsertRequestOK ==
  ASSUME Consistent, NEW r \in Requests, NEW c \in Clients, InsertRequest(r, c)
  PROVE  Consistent'
<1>1. /\ r \notin drawn /\ drawn' = drawn \cup {r}
      /\ DOMAIN requests' = DOMAIN requests \cup {r}
      /\ requests'[r] = [client |-> c, status |-> "open", accepted |-> None]
      /\ \A q \in DOMAIN requests : q # r => requests'[q] = requests[q]
      /\ requests' = [q \in DOMAIN requests' |-> requests'[q]]
      /\ UNCHANGED <<answers, votes, attachments, old>>
  <2>. DEFINE row == [client |-> c, status |-> "open", accepted |-> None]
  <2>1. requests' = Put(requests, r, row)
    BY DEF InsertRequest
  <2>. HIDE DEF row
  <2>2. /\ DOMAIN requests' = DOMAIN requests \cup {r}
        /\ requests'[r] = row
        /\ \A q \in DOMAIN requests : q # r => requests'[q] = requests[q]
        /\ requests' = [q \in DOMAIN requests' |-> requests'[q]]
    BY <2>1 DEF Put
  <2>. QED
    BY <2>2 DEF InsertRequest, Draw, row
<1>2. r \notin DOMAIN requests
  BY <1>1 DEF Consistent, RowsOK
<1>3. requests'[r] \in RequestRow
  BY <1>1 DEF RequestRow
<1>4. requests' \in [DOMAIN requests' -> RequestRow]
  <2>1. \A q \in DOMAIN requests' : requests'[q] \in RequestRow
    BY <1>1, <1>2, <1>3 DEF Consistent, RowsOK
  <2>. QED
    BY <1>1, <2>1
<1>5. RowsOK'
  BY <1>1, <1>4 DEF Consistent, RowsOK
<1>6. ReferentialIntegrity'
  BY <1>1, <1>2 DEF Consistent, ReferentialIntegrity, AnswersTo
<1>. QED
  BY <1>5, <1>6 DEF Consistent

LEMMA InsertAnswerOK ==
  ASSUME Consistent, NEW r \in DOMAIN requests, NEW a \in Answers, NEW c \in Clients,
         InsertAnswer(r, a, c)
  PROVE  Consistent'
<1>1. /\ a \notin drawn /\ drawn' = drawn \cup {a}
      /\ DOMAIN answers' = DOMAIN answers \cup {a}
      /\ answers'[a] = [request |-> r, solver |-> c]
      /\ \A b \in DOMAIN answers : b # a => answers'[b] = answers[b]
      /\ answers' = [b \in DOMAIN answers' |-> answers'[b]]
      /\ UNCHANGED <<requests, votes, attachments, old>>
  <2>. DEFINE row == [request |-> r, solver |-> c]
  <2>1. answers' = Put(answers, a, row)
    BY DEF InsertAnswer
  <2>. HIDE DEF row
  <2>2. /\ DOMAIN answers' = DOMAIN answers \cup {a}
        /\ answers'[a] = row
        /\ \A b \in DOMAIN answers : b # a => answers'[b] = answers[b]
        /\ answers' = [b \in DOMAIN answers' |-> answers'[b]]
    BY <2>1 DEF Put
  <2>. QED
    BY <2>2 DEF InsertAnswer, Draw, row
<1>2. a \notin DOMAIN answers /\ r \in Requests
  BY <1>1 DEF Consistent, RowsOK
<1>3. answers' \in [DOMAIN answers' -> AnswerRow]
  <2>1. answers'[a] \in AnswerRow
    BY <1>1, <1>2 DEF AnswerRow
  <2>2. \A b \in DOMAIN answers' : answers'[b] \in AnswerRow
    BY <1>1, <1>2, <2>1 DEF Consistent, RowsOK
  <2>. QED
    BY <1>1, <2>2
<1>4. RowsOK'
  BY <1>1, <1>3 DEF Consistent, RowsOK
<1>5. ReferentialIntegrity'
  BY <1>1, <1>2 DEF Consistent, ReferentialIntegrity, AnswersTo
<1>. QED
  BY <1>4, <1>5 DEF Consistent

(* An UPDATE of one request that leaves its acceptance or accepts an answer *)
(* of its own.                                                             *)
LEMMA UpdateOK ==
  ASSUME Consistent, NEW r \in DOMAIN requests, NEW row \in RequestRow,
         row.accepted \in {requests[r].accepted} \cup AnswersTo(r),
         requests' = [requests EXCEPT ![r] = row],
         UNCHANGED <<answers, votes, attachments, old, drawn>>
  PROVE  Consistent'
<1>1. /\ DOMAIN requests' = DOMAIN requests
      /\ requests'[r] = row
      /\ \A q \in DOMAIN requests : q # r => requests'[q] = requests[q]
  OBVIOUS
<1>2. requests' \in [DOMAIN requests' -> RequestRow]
  BY DEF Consistent, RowsOK
<1>3. RowsOK'
  BY <1>1, <1>2 DEF Consistent, RowsOK
<1>4. ReferentialIntegrity'
  BY <1>1 DEF Consistent, ReferentialIntegrity, AnswersTo
<1>. QED
  BY <1>3, <1>4 DEF Consistent

LEMMA MarkClosedOK ==
  ASSUME Consistent, NEW r \in DOMAIN requests, MarkClosed(r)
  PROVE  Consistent'
<1>. DEFINE row == [requests[r] EXCEPT !.status = "closed"]
<1>1. requests[r] \in RequestRow
  BY DEF Consistent, RowsOK
<1>2. row \in RequestRow /\ row.accepted = requests[r].accepted
  BY <1>1 DEF RequestRow
<1>3. requests' = [requests EXCEPT ![r] = row]
  BY DEF MarkClosed
<1>. HIDE DEF row
<1>. QED
  BY <1>2, <1>3, UpdateOK DEF MarkClosed

LEMMA SetAcceptedOK ==
  ASSUME Consistent, NEW r, NEW a, NEW c, SetAccepted(r, a, c)
  PROVE  Consistent'
<1>. DEFINE row == [requests[r] EXCEPT !.accepted = a]
<1>1. /\ r \in DOMAIN requests /\ requests[r] \in RequestRow
      /\ a \in Answers /\ a \in AnswersTo(r)
  BY DEF Consistent, RowsOK, SetAccepted, AnswersTo
<1>2. row \in RequestRow /\ row.accepted = a
  BY <1>1 DEF RequestRow
<1>3. requests' = [requests EXCEPT ![r] = row]
  BY DEF SetAccepted
<1>. HIDE DEF row
<1>. QED
  BY <1>1, <1>2, <1>3, UpdateOK DEF SetAccepted

LEMMA ToggleOK ==
  ASSUME Consistent, NEW a, NEW v \in Clients, Toggle(a, v)
  PROVE  Consistent'
<1>1. a \in DOMAIN answers /\ a \in Answers
  BY DEF Toggle, Consistent, RowsOK
<1>2. votes' \subseteq votes \cup {<<a, v>>} /\ IsFiniteSet(votes')
  <2>1. votes' = votes \ {<<a, v>>} \/ votes' = votes \cup {<<a, v>>}
    BY DEF Toggle
  <2>2. IsFiniteSet(votes)
    BY DEF Consistent, RowsOK
  <2>3. IsFiniteSet(votes \ {<<a, v>>}) /\ IsFiniteSet(votes \cup {<<a, v>>})
    BY <2>2, FS_AddElement, FS_RemoveElement
  <2>. QED
    BY <2>1, <2>3
<1>3. RowsOK'
  BY <1>1, <1>2 DEF Toggle, Consistent, RowsOK
<1>4. ReferentialIntegrity'
  BY <1>1, <1>2 DEF Toggle, Consistent, ReferentialIntegrity, AnswersTo
<1>. QED
  BY <1>3, <1>4 DEF Consistent

(* What is left after the rows in R, and what the foreign keys attach to   *)
(* them, are gone.                                                         *)
LEMMA DeleteRowsLeaves ==
  ASSUME Consistent, NEW R, DeleteRows(R)
  PROVE  /\ DOMAIN requests' = DOMAIN requests \ R
         /\ \A r \in DOMAIN requests' : requests'[r] = requests[r]
         /\ requests' = [r \in DOMAIN requests' |-> requests'[r]]
         /\ DOMAIN answers' = {a \in DOMAIN answers : answers[a].request \notin R}
         /\ \A a \in DOMAIN answers' : answers'[a] = answers[a]
         /\ answers' = [a \in DOMAIN answers' |-> answers'[a]]
         /\ votes' = {v \in votes : v[1] \in DOMAIN answers'}
         /\ old' = old \ R
<1>. DEFINE dead == {a \in DOMAIN answers : answers[a].request \in R}
<1>1. /\ requests' = [r \in DOMAIN requests \ R |->
                        IF requests[r].accepted \in dead
                        THEN [requests[r] EXCEPT !.accepted = None] ELSE requests[r]]
      /\ answers' = Only(answers, DOMAIN answers \ dead)
      /\ votes' = {v \in votes : v[1] \notin dead}
      /\ old' = old \ R
  BY DEF DeleteRows
<1>2. \A r \in DOMAIN requests \ R : requests[r].accepted \notin dead
  <2>. SUFFICES ASSUME NEW r \in DOMAIN requests \ R, requests[r].accepted \in dead
                PROVE  FALSE
    OBVIOUS
  <2>1. requests[r].accepted \in Answers
    BY DEF Consistent, RowsOK
  <2>2. requests[r].accepted # None
    BY <2>1, IdAssumption
  <2>3. requests[r].accepted \in AnswersTo(r)
    BY <2>2 DEF Consistent, ReferentialIntegrity
  <2>. QED
    BY <2>3 DEF AnswersTo
<1>3. /\ DOMAIN answers' = DOMAIN answers \ dead
      /\ \A a \in DOMAIN answers' : answers'[a] = answers[a]
      /\ answers' = [a \in DOMAIN answers' |-> answers'[a]]
  <2>1. /\ DOMAIN Only(answers, DOMAIN answers \ dead) = DOMAIN answers \ dead
        /\ \A y \in DOMAIN answers \ dead : Only(answers, DOMAIN answers \ dead)[y] = answers[y]
    BY DEF Only
  <2>2. answers' = [a \in DOMAIN answers \ dead |-> answers[a]]
    BY <1>1 DEF Only
  <2>. QED
    BY <1>1, <2>1, <2>2
<1>4. \A v \in votes : v[1] \in DOMAIN answers
  BY DEF Consistent, ReferentialIntegrity
<1>5. votes' = {v \in votes : v[1] \in DOMAIN answers'}
  BY <1>1, <1>3, <1>4
<1>6. requests' = [r \in DOMAIN requests \ R |-> requests[r]]
  BY <1>1, <1>2
<1>. QED
  BY <1>1, <1>3, <1>5, <1>6

LEMMA DeleteRowsOK ==
  ASSUME Consistent, NEW R, DeleteRows(R), UNCHANGED drawn,
         DOMAIN attachments' \subseteq DOMAIN attachments,
         attachments' \in [DOMAIN attachments' -> Requests \cup Answers]
  PROVE  Consistent'
<1>1. /\ DOMAIN requests' = DOMAIN requests \ R
      /\ \A r \in DOMAIN requests' : requests'[r] = requests[r]
      /\ requests' = [r \in DOMAIN requests' |-> requests'[r]]
      /\ DOMAIN answers' = {a \in DOMAIN answers : answers[a].request \notin R}
      /\ \A a \in DOMAIN answers' : answers'[a] = answers[a]
      /\ answers' = [a \in DOMAIN answers' |-> answers'[a]]
      /\ votes' = {v \in votes : v[1] \in DOMAIN answers'}
      /\ old' = old \ R
  BY DeleteRowsLeaves
<1>2. requests' \in [DOMAIN requests' -> RequestRow]
  <2>1. \A r \in DOMAIN requests' : requests'[r] \in RequestRow
    BY <1>1 DEF Consistent, RowsOK
  <2>. QED
    BY <1>1, <2>1
<1>3. answers' \in [DOMAIN answers' -> AnswerRow]
  <2>1. \A a \in DOMAIN answers' : answers'[a] \in AnswerRow
    BY <1>1 DEF Consistent, RowsOK
  <2>. QED
    BY <1>1, <2>1
<1>4. RowsOK'
  <2>1. IsFiniteSet(votes')
    BY <1>1, FS_Subset DEF Consistent, RowsOK
  <2>. QED
    BY <1>1, <1>2, <1>3, <2>1 DEF Consistent, RowsOK
<1>5. ReferentialIntegrity'
  <2>1. \A a \in DOMAIN answers' : answers'[a].request \in DOMAIN requests'
    BY <1>1 DEF Consistent, ReferentialIntegrity
  <2>2. \A v \in votes' : v[1] \in DOMAIN answers'
    BY <1>1
  <2>3. ASSUME NEW r \in DOMAIN requests', requests'[r].accepted # None
        PROVE  requests'[r].accepted \in AnswersTo(r)'
    <3>1. requests[r].accepted \in AnswersTo(r) /\ r \notin R
      BY <1>1, <2>3 DEF Consistent, ReferentialIntegrity
    <3>. QED
      BY <1>1, <3>1 DEF AnswersTo
  <2>. QED
    BY <2>1, <2>2, <2>3 DEF ReferentialIntegrity
<1>. QED
  BY <1>4, <1>5 DEF Consistent

LEMMA DeleteWithFilesOK ==
  ASSUME Consistent, NEW r, DeleteWithFiles(r)
  PROVE  Consistent'
<1>1. attachments' = Only(attachments,
        {f \in DOMAIN attachments : attachments[f] \notin {r} \cup AnswersTo(r)})
  BY DEF DeleteWithFiles
<1>2. /\ DOMAIN attachments' \subseteq DOMAIN attachments
      /\ attachments' \in [DOMAIN attachments' -> Requests \cup Answers]
  BY <1>1 DEF Only, Consistent, RowsOK
<1>. QED
  BY <1>2, DeleteRowsOK DEF DeleteWithFiles

LEMMA PruneOK ==
  ASSUME Consistent, PruneOldClosed, UNCHANGED drawn
  PROVE  Consistent'
<1>1. /\ DOMAIN attachments' \subseteq DOMAIN attachments
      /\ attachments' \in [DOMAIN attachments' -> Requests \cup Answers]
  BY DEF PruneOldClosed, Consistent, RowsOK
<1>. QED
  BY <1>1, DeleteRowsOK DEF PruneOldClosed

LEMMA AddAttachmentOK ==
  ASSUME Consistent, NEW f \in Files, NEW o \in Requests \cup Answers, AddAttachment(f, o)
  PROVE  Consistent'
<1>1. /\ drawn' = drawn \cup {f}
      /\ DOMAIN attachments' = DOMAIN attachments \cup {f}
      /\ attachments' \in [DOMAIN attachments' -> Requests \cup Answers]
      /\ UNCHANGED <<requests, answers, votes, old>>
  BY DEF AddAttachment, Draw, Put, Consistent, RowsOK
<1>2. RowsOK'
  BY <1>1 DEF Consistent, RowsOK
<1>3. ReferentialIntegrity'
  BY <1>1 DEF Consistent, ReferentialIntegrity, AnswersTo
<1>. QED
  BY <1>2, <1>3 DEF Consistent

-----------------------------------------------------------------------------
(* The running handler and the rest of the control state.                  *)

Events ==
  {Created(r, c) : r \in Requests, c \in Clients}
    \cup {Answered(r, a) : r \in Requests, a \in Answers}
    \cup {ClosedEvent(r) : r \in Requests} \cup {Deleted(r) : r \in Requests}
    \cup {Accepted(r, a) : r \in Requests, a \in Answers}
    \cup {Voted(r, a, n) : r \in Requests, a \in Answers, n \in Nat}

JobOK ==
  \/ job = Idle
  \/ /\ \E at \in {"append", "trim", "prune"}, e \in Events : job = [at |-> at, event |-> e]
     /\ up
     /\ job.at = "append" => seq < MaxEvents

ControlOK ==
  /\ JobOK
  /\ seq \in 0..MaxEvents /\ table \subseteq 1..seq
  /\ uploads \subseteq [file : Files, owner : Requests \cup Answers]
  /\ up \in BOOLEAN /\ torn \subseteq Requests
  /\ kills \in 0..MaxKills /\ untrimmed \in 0..kills

LEMMA EventRequest ==
  ASSUME NEW e \in Events
  PROVE  e.request \in Requests
BY DEF Events, Created, Answered, ClosedEvent, Deleted, Accepted, Voted

LEMMA TypesSuffice ==
  ASSUME Consistent, ControlOK
  PROVE  TypeOK
<1>1. CASE job = Idle
  BY <1>1 DEF Consistent, RowsOK, ControlOK, TypeOK, Idle
<1>2. CASE job # Idle
  <2>1. PICK at \in {"append", "trim", "prune"}, e \in Events : job = [at |-> at, event |-> e]
    BY <1>2 DEF ControlOK, JobOK
  <2>2. job.at = at /\ job.event.request \in Requests /\ up
    BY <1>2, <2>1, EventRequest DEF ControlOK, JobOK
  <2>. QED
    BY <1>2, <2>1, <2>2 DEF Consistent, RowsOK, ControlOK, TypeOK, Idle
<1>. QED
  BY <1>1, <1>2

-----------------------------------------------------------------------------
(* Each action keeps both.                                                 *)

LEMMA ConsistentStep ==
  ASSUME Consistent, ControlOK, [Next]_vars
  PROVE  Consistent'
<1>. USE DEF tables, events, ghosts
<1>1. ASSUME NEW r \in Requests, NEW c \in Clients, CreateRequest(r, c)
      PROVE  Consistent'
  BY <1>1, InsertRequestOK DEF CreateRequest
<1>2. ASSUME NEW r \in Requests, NEW a \in Answers, NEW c \in Clients, CreateAnswer(r, a, c)
      PROVE  Consistent'
  BY <1>2, InsertAnswerOK DEF CreateAnswer
<1>3. ASSUME NEW r \in Requests, NEW a \in Answers, NEW c \in Clients, AcceptAnswer(r, a, c)
      PROVE  Consistent'
  BY <1>3, SetAcceptedOK DEF AcceptAnswer
<1>4. ASSUME NEW r \in Requests, CloseRequest(r)  PROVE Consistent'
  BY <1>4, MarkClosedOK DEF CloseRequest
<1>5. ASSUME NEW r \in Requests, DeleteRequest(r)  PROVE Consistent'
  BY <1>5, DeleteWithFilesOK DEF DeleteRequest
<1>6. ASSUME NEW r \in Requests, GrowOld(r)  PROVE Consistent'
  BY <1>6 DEF GrowOld, Consistent, RowsOK, ReferentialIntegrity, AnswersTo
<1>7. ASSUME NEW a \in Answers, NEW v \in Clients, ToggleVote(a, v)  PROVE Consistent'
  BY <1>7, ToggleOK DEF ToggleVote
<1>8. ASSUME NEW f \in Files, NEW o \in Requests \cup Answers, Upload(f, o)
      PROVE  Consistent'
  BY <1>8, AddAttachmentOK DEF Upload
<1>9. ASSUME NEW u \in uploads, EndUpload(u)  PROVE Consistent'
  <2>1. u.file \in Files /\ u.owner \in Requests \cup Answers
    BY DEF ControlOK
  <2>. QED
    BY <1>9, <2>1, AddAttachmentOK DEF EndUpload
<1>10. CASE Prune
  BY <1>10, PruneOK DEF Prune
<1>11. CASE Boot
  <2>1. CASE Retention
    BY <1>11, <2>1, PruneOK DEF Boot
  <2>2. CASE ~Retention
    BY <1>11, <2>2 DEF Boot, Consistent, RowsOK, ReferentialIntegrity, AnswersTo
  <2>. QED
    BY <2>1, <2>2
<1>12. ASSUME UNCHANGED <<tables, drawn>>  PROVE Consistent'
  BY <1>12 DEF Consistent, RowsOK, ReferentialIntegrity, AnswersTo
<1>13. ASSUME NEW f \in Files, NEW o \in Requests \cup Answers, BeginUpload(f, o)
       PROVE  UNCHANGED <<tables, drawn>>
  BY <1>13 DEF BeginUpload
<1>14. ASSUME NEW u \in uploads, RefuseUpload(u)  PROVE UNCHANGED <<tables, drawn>>
  BY <1>14 DEF RefuseUpload
<1>15. CASE AppendEvent \/ TrimEvents \/ Kill \/ UNCHANGED vars
  BY <1>12, <1>15 DEF AppendEvent, TrimEvents, Kill, vars
<1>. QED
  BY <1>1, <1>2, <1>3, <1>4, <1>5, <1>6, <1>7, <1>8, <1>9, <1>10, <1>11, <1>12, <1>13,
     <1>14, <1>15 DEF Next

LEMMA StartOK ==
  ASSUME ControlOK, NEW e \in Events, Start(e)
  PROVE  ControlOK'
<1>1. JobOK'
  BY DEF Start, ControlOK, JobOK, events, ghosts
<1>. QED
  BY <1>1 DEF Start, ControlOK, events, ghosts

LEMMA ControlStep ==
  ASSUME Consistent, ControlOK, [Next]_vars
  PROVE  ControlOK'
<1>. USE DEF tables, events, ghosts
<1>1. ASSUME NEW r \in Requests, NEW c \in Clients, CreateRequest(r, c)
      PROVE  ControlOK'
  <2>1. Created(r, c) \in Events
    BY DEF Events
  <2>. QED
    BY <1>1, <2>1, StartOK DEF CreateRequest
<1>2. ASSUME NEW r \in Requests, NEW a \in Answers, NEW c \in Clients, CreateAnswer(r, a, c)
      PROVE  ControlOK'
  <2>1. Answered(r, a) \in Events
    BY DEF Events
  <2>. QED
    BY <1>2, <2>1, StartOK DEF CreateAnswer
<1>3. ASSUME NEW r \in Requests, NEW a \in Answers, NEW c \in Clients, AcceptAnswer(r, a, c)
      PROVE  ControlOK'
  <2>1. Accepted(r, a) \in Events
    BY DEF Events
  <2>. QED
    BY <1>3, <2>1, StartOK DEF AcceptAnswer
<1>4. ASSUME NEW r \in Requests, CloseRequest(r)  PROVE ControlOK'
  <2>1. ClosedEvent(r) \in Events
    BY DEF Events
  <2>. QED
    BY <1>4, <2>1, StartOK DEF CloseRequest
<1>5. ASSUME NEW r \in Requests, DeleteRequest(r)  PROVE ControlOK'
  <2>1. Deleted(r) \in Events
    BY DEF Events
  <2>. QED
    BY <1>5, <2>1, StartOK DEF DeleteRequest
<1>6. ASSUME NEW a \in Answers, NEW v \in Clients, ToggleVote(a, v)  PROVE ControlOK'
  <2>. DEFINE r == answers[a].request
  <2>1. r \in Requests
    BY <1>6 DEF ToggleVote, Toggle, Consistent, RowsOK, AnswerRow
  <2>2. VoteCount(a)' \in Nat
    <3>1. Consistent'
      BY <1>6, ToggleOK DEF ToggleVote
    <3>2. IsFiniteSet({v2 \in votes' : v2[1] = a})
      BY <3>1, FS_Subset DEF Consistent, RowsOK
    <3>. QED
      BY <3>2, FS_CardinalityType DEF VoteCount
  <2>3. Voted(r, a, VoteCount(a)') \in Events
    BY <2>1, <2>2 DEF Events
  <2>4. Start(Voted(r, a, VoteCount(a)'))
    BY <1>6 DEF ToggleVote
  <2>. QED
    BY <2>3, <2>4, StartOK
<1>7. ASSUME UNCHANGED <<seq, table, job, up, torn, untrimmed, kills>>,
             uploads' \subseteq uploads \cup [file : Files, owner : Requests \cup Answers]
      PROVE  ControlOK'
  BY <1>7 DEF ControlOK, JobOK
<1>8. ASSUME NEW r \in Requests, GrowOld(r)  PROVE ControlOK'
  BY <1>7, <1>8 DEF GrowOld
<1>9. ASSUME NEW f \in Files, NEW o \in Requests \cup Answers,
             Upload(f, o) \/ BeginUpload(f, o)
      PROVE  ControlOK'
  BY <1>7, <1>9 DEF Upload, BeginUpload
<1>10. ASSUME NEW u \in uploads, EndUpload(u) \/ RefuseUpload(u)  PROVE ControlOK'
  BY <1>7, <1>10 DEF EndUpload, RefuseUpload
<1>11. CASE AppendEvent
  <2>1. /\ job.at = "append" /\ up /\ seq' = seq + 1 /\ table' = table \cup {seq + 1}
        /\ job' = [job EXCEPT !.at = "trim"]
        /\ UNCHANGED <<uploads, up, torn, untrimmed, kills>>
    BY <1>11 DEF AppendEvent
  <2>2. PICK at \in {"append", "trim", "prune"}, e \in Events : job = [at |-> at, event |-> e]
    BY <2>1 DEF ControlOK, JobOK, Idle
  <2>3. job' = [at |-> "trim", event |-> e] /\ seq < MaxEvents
    BY <2>1, <2>2 DEF ControlOK, JobOK, Idle
  <2>4. JobOK'
    BY <2>1, <2>3 DEF JobOK
  <2>5. seq' \in 0..MaxEvents /\ table' \subseteq 1..seq'
    BY <2>1, <2>3, LimitAssumption DEF ControlOK
  <2>. QED
    BY <2>1, <2>4, <2>5 DEF ControlOK
<1>12. CASE TrimEvents
  <2>1. /\ job.at = "trim" /\ up /\ table' = Trimmed(table, EventBuffer)
        /\ job' = Idle \/ job' = [job EXCEPT !.at = "prune"]
        /\ UNCHANGED <<seq, uploads, up, torn, kills>> /\ untrimmed' = 0
    BY <1>12 DEF TrimEvents
  <2>2. PICK at \in {"append", "trim", "prune"}, e \in Events : job = [at |-> at, event |-> e]
    BY <2>1 DEF ControlOK, JobOK, Idle
  <2>3. job' = Idle \/ job' = [at |-> "prune", event |-> e]
    BY <2>1, <2>2
  <2>4. JobOK'
    BY <2>1, <2>3 DEF JobOK
  <2>5. table' \subseteq table
    BY <2>1 DEF Trimmed
  <2>. QED
    BY <2>1, <2>4, <2>5 DEF ControlOK
<1>13. CASE Prune
  BY <1>13 DEF Prune, ControlOK, JobOK
<1>14. CASE Kill
  <2>1. torn' \subseteq Requests
    <3>1. CASE job.at = "append"
      <4>1. job.event.request \in Requests
        BY <3>1, EventRequest DEF ControlOK, JobOK, Idle
      <4>. QED
        BY <1>14, <4>1 DEF Kill, ControlOK
    <3>2. CASE job.at # "append"
      BY <1>14, <3>2 DEF Kill, ControlOK
    <3>. QED
      BY <3>1, <3>2
  <2>2. JobOK'
    BY <1>14 DEF Kill, JobOK
  <2>3. kills' \in 0..MaxKills /\ untrimmed' \in 0..kills'
    BY <1>14, LimitAssumption DEF Kill, ControlOK
  <2>. QED
    BY <1>14, <2>1, <2>2, <2>3 DEF Kill, ControlOK
<1>15. CASE Boot
  BY <1>15 DEF Boot, ControlOK, JobOK, Idle
<1>16. CASE UNCHANGED vars
  BY <1>7, <1>16 DEF vars
<1>. QED
  BY <1>1, <1>2, <1>3, <1>4, <1>5, <1>6, <1>8, <1>9, <1>10, <1>11, <1>12, <1>13,
     <1>14, <1>15, <1>16 DEF Next

-----------------------------------------------------------------------------
(* What a request looks like, as one record.                               *)

Card(s, x, t) == [status |-> s, accepted |-> x, tally |-> t]

Tally(r) == [a \in AnswersTo(r) |-> VoteCount(a)]

LEMMA AppliedAnswered ==
  ASSUME NEW s, NEW x, NEW t, NEW r, NEW a
  PROVE  Applied(Card(s, x, t), Answered(r, a)) = Card(s, x, Put(t, a, 0))
BY DEF Applied, Card, Answered

LEMMA AppliedClosed ==
  ASSUME NEW s, NEW x, NEW t, NEW r
  PROVE  Applied(Card(s, x, t), ClosedEvent(r)) = Card("closed", x, t)
BY DEF Applied, Card, ClosedEvent

LEMMA AppliedAccepted ==
  ASSUME NEW s, NEW x, NEW t, NEW r, NEW a
  PROVE  Applied(Card(s, x, t), Accepted(r, a)) = Card(s, a, t)
BY DEF Applied, Card, Accepted

LEMMA AppliedVoted ==
  ASSUME NEW s, NEW x, NEW t, NEW r, NEW a, NEW n
  PROVE  Applied(Card(s, x, t), Voted(r, a, n)) = Card(s, x, Put(t, a, n))
BY DEF Applied, Card, Voted

LEMMA ViewCard ==
  ASSUME NEW r \in DOMAIN requests
  PROVE  View(r) = Card(requests[r].status, requests[r].accepted, Tally(r))
BY DEF View, Card, Tally

LEMMA ViewCardNext ==
  ASSUME NEW r, r \in DOMAIN requests'
  PROVE  View(r)' = Card(requests'[r].status, requests'[r].accepted, Tally(r)')
BY DEF View, Card, Tally

(* A request none of whose rows changes looks the same.                    *)
LEMMA ViewSame ==
  ASSUME NEW r,
         r \in DOMAIN requests <=> r \in DOMAIN requests',
         r \in DOMAIN requests => requests'[r] = requests[r],
         r \in DOMAIN requests => Tally(r)' = Tally(r)
  PROVE  View(r)' = View(r)
<1>1. CASE r \in DOMAIN requests
  BY <1>1, ViewCard, ViewCardNext
<1>2. CASE r \notin DOMAIN requests
  BY <1>2 DEF View
<1>. QED
  BY <1>1, <1>2

LEMMA TallySame ==
  ASSUME NEW r, AnswersTo(r)' = AnswersTo(r), \A a \in AnswersTo(r) : VoteCount(a)' = VoteCount(a)
  PROVE  Tally(r)' = Tally(r)
BY DEF Tally

(* The transactions, as the requests they are about and others show them.  *)

LEMMA CreatedView ==
  ASSUME Consistent, NEW r \in Requests, NEW c, InsertRequest(r, c)
  PROVE  /\ View(r)' = Card("open", None, << >>)
         /\ \A q : q # r => View(q)' = View(q)
<1>1. /\ DOMAIN requests' = DOMAIN requests \cup {r}
      /\ requests'[r] = [client |-> c, status |-> "open", accepted |-> None]
      /\ \A q \in DOMAIN requests : q # r => requests'[q] = requests[q]
      /\ UNCHANGED <<answers, votes>>
  <2>. DEFINE row == [client |-> c, status |-> "open", accepted |-> None]
  <2>1. requests' = Put(requests, r, row)
    BY DEF InsertRequest
  <2>. HIDE DEF row
  <2>2. /\ DOMAIN requests' = DOMAIN requests \cup {r}
        /\ requests'[r] = row
        /\ \A q \in DOMAIN requests : q # r => requests'[q] = requests[q]
    BY <2>1 DEF Put
  <2>. QED
    BY <2>2 DEF InsertRequest, row
<1>2. r \notin DOMAIN requests
  BY DEF Consistent, RowsOK, InsertRequest, Draw
<1>3. AnswersTo(r)' = {}
  BY <1>1, <1>2 DEF AnswersTo, Consistent, ReferentialIntegrity
<1>4. Tally(r)' = << >>
  BY <1>3 DEF Tally
<1>5. \A q : Tally(q)' = Tally(q)
  BY <1>1 DEF Tally, AnswersTo, VoteCount
<1>6. \A q : q # r => View(q)' = View(q)
  BY <1>1, <1>5, ViewSame
<1>. QED
  BY <1>1, <1>4, <1>6, ViewCardNext

LEMMA AnsweredView ==
  ASSUME Consistent, NEW r \in DOMAIN requests, NEW a \in Answers, NEW c, InsertAnswer(r, a, c)
  PROVE  /\ View(r)' = Card(requests[r].status, requests[r].accepted, Put(Tally(r), a, 0))
         /\ \A q : q # r => View(q)' = View(q)
<1>1. /\ DOMAIN answers' = DOMAIN answers \cup {a}
      /\ answers'[a].request = r
      /\ \A b \in DOMAIN answers : b # a => answers'[b] = answers[b]
      /\ UNCHANGED <<requests, votes>>
  <2>. DEFINE row == [request |-> r, solver |-> c]
  <2>1. answers' = Put(answers, a, row)
    BY DEF InsertAnswer
  <2>2. row.request = r
    OBVIOUS
  <2>. HIDE DEF row
  <2>3. /\ DOMAIN answers' = DOMAIN answers \cup {a}
        /\ answers'[a] = row
        /\ \A b \in DOMAIN answers : b # a => answers'[b] = answers[b]
    BY <2>1 DEF Put
  <2>. QED
    BY <2>2, <2>3 DEF InsertAnswer
<1>2. a \notin DOMAIN answers
  BY DEF Consistent, RowsOK, InsertAnswer, Draw
<1>3. AnswersTo(r)' = AnswersTo(r) \cup {a} /\ a \notin AnswersTo(r)
  BY <1>1, <1>2 DEF AnswersTo
<1>4. \A q : q # r => AnswersTo(q)' = AnswersTo(q)
  BY <1>1, <1>2 DEF AnswersTo
<1>5. \A b : VoteCount(b)' = VoteCount(b)
  BY <1>1 DEF VoteCount
<1>6. VoteCount(a) = 0
  <2>1. {v \in votes : v[1] = a} = {}
    BY <1>2 DEF Consistent, ReferentialIntegrity
  <2>. QED
    BY <2>1, FS_EmptySet DEF VoteCount
<1>7. Tally(r)' = Put(Tally(r), a, 0)
  BY <1>3, <1>5, <1>6 DEF Tally, Put
<1>8. \A q : q # r => Tally(q)' = Tally(q)
  BY <1>4, <1>5, TallySame
<1>9. \A q : q # r => View(q)' = View(q)
  BY <1>1, <1>8, ViewSame
<1>. QED
  BY <1>1, <1>7, <1>9, ViewCardNext

LEMMA UpdatedView ==
  ASSUME NEW r \in DOMAIN requests, NEW row, requests' = [requests EXCEPT ![r] = row],
         UNCHANGED <<answers, votes>>
  PROVE  /\ View(r)' = Card(row.status, row.accepted, Tally(r))
         /\ \A q : q # r => View(q)' = View(q)
<1>1. /\ DOMAIN requests' = DOMAIN requests
      /\ requests'[r] = row
      /\ \A q \in DOMAIN requests : q # r => requests'[q] = requests[q]
  OBVIOUS
<1>2. \A q : Tally(q)' = Tally(q)
  BY DEF Tally, AnswersTo, VoteCount
<1>3. \A q : q # r => View(q)' = View(q)
  BY <1>1, <1>2, ViewSame
<1>. QED
  BY <1>1, <1>2, <1>3, ViewCardNext

LEMMA ToggledView ==
  ASSUME Consistent, NEW r, NEW a \in AnswersTo(r), NEW v, Toggle(a, v)
  PROVE  /\ r \in DOMAIN requests
         /\ View(r)' = Card(requests[r].status, requests[r].accepted,
                            Put(Tally(r), a, VoteCount(a)'))
         /\ \A q : q # r => View(q)' = View(q)
<1>1. r \in DOMAIN requests /\ UNCHANGED <<requests, answers>>
  BY DEF Consistent, ReferentialIntegrity, Toggle, AnswersTo
<1>2. \A q : AnswersTo(q)' = AnswersTo(q)
  BY <1>1 DEF AnswersTo
<1>3. ASSUME NEW b, b # a  PROVE VoteCount(b)' = VoteCount(b)
  <2>1. votes' = votes \ {<<a, v>>} \/ votes' = votes \cup {<<a, v>>}
    BY DEF Toggle
  <2>2. <<a, v>>[1] # b
    BY <1>3
  <2>3. {w \in votes' : w[1] = b} = {w \in votes : w[1] = b}
    BY <2>1, <2>2
  <2>. QED
    BY <2>3 DEF VoteCount
<1>4. a \in AnswersTo(r) /\ \A q : q # r => a \notin AnswersTo(q)
  BY DEF AnswersTo
<1>5. Tally(r)' = Put(Tally(r), a, VoteCount(a)')
  <2>1. AnswersTo(r) \cup {a} = AnswersTo(r)
    BY <1>4
  <2>2. Tally(r)' = [b \in AnswersTo(r) |-> VoteCount(b)']
    BY <1>2 DEF Tally
  <2>3. Tally(r) = [b \in AnswersTo(r) |-> VoteCount(b)]
    BY DEF Tally
  <2>4. /\ DOMAIN Tally(r) = AnswersTo(r)
        /\ \A b \in AnswersTo(r) : b # a => Tally(r)[b] = VoteCount(b)'
    BY <1>3, <2>3
  <2>5. Put(Tally(r), a, VoteCount(a)') = [b \in AnswersTo(r) |-> VoteCount(b)']
    BY <1>4, <2>1, <2>4 DEF Put
  <2>. QED
    BY <2>2, <2>5
<1>6. \A q : q # r => Tally(q)' = Tally(q)
  BY <1>2, <1>3, <1>4, TallySame
<1>7. \A q : q # r => View(q)' = View(q)
  BY <1>1, <1>6, ViewSame
<1>8. View(r)' = Card(requests[r].status, requests[r].accepted, Put(Tally(r), a, VoteCount(a)'))
  BY <1>1, <1>5, ViewCardNext
<1>. QED
  BY <1>1, <1>7, <1>8

(* A deletion leaves the view of the requests that stay.                   *)
LEMMA DeletedView ==
  ASSUME Consistent, NEW R, DeleteRows(R)
  PROVE  /\ \A q : q \notin R => View(q)' = View(q)
         /\ \A q : q \in R => View(q)' = Absent
<1>1. /\ DOMAIN requests' = DOMAIN requests \ R
      /\ \A r \in DOMAIN requests' : requests'[r] = requests[r]
      /\ DOMAIN answers' = {a \in DOMAIN answers : answers[a].request \notin R}
      /\ \A a \in DOMAIN answers' : answers'[a] = answers[a]
      /\ votes' = {v \in votes : v[1] \in DOMAIN answers'}
  BY DeleteRowsLeaves
<1>2. ASSUME NEW q, q \notin R  PROVE View(q)' = View(q)
  <2>1. AnswersTo(q)' = AnswersTo(q)
    BY <1>1, <1>2 DEF AnswersTo
  <2>2. ASSUME NEW a \in AnswersTo(q)  PROVE VoteCount(a)' = VoteCount(a)
    <3>1. a \in DOMAIN answers'
      BY <1>1, <1>2 DEF AnswersTo
    <3>2. {v \in votes' : v[1] = a} = {v \in votes : v[1] = a}
      BY <1>1, <3>1
    <3>. QED
      BY <3>2 DEF VoteCount
  <2>3. Tally(q)' = Tally(q)
    BY <2>1, <2>2, TallySame
  <2>. QED
    BY <1>1, <1>2, <2>3, ViewSame
<1>3. \A q : q \in R => View(q)' = Absent
  BY <1>1 DEF View
<1>. QED
  BY <1>2, <1>3

-----------------------------------------------------------------------------
(* The events tell of r what the tables hold.  With retention a request    *)
(* that is gone may have been pruned, of which no event tells.             *)
Matching ==
  /\ DOMAIN mirror = Requests
  /\ job.at = "prune" => Retention
  /\ \A r \in Requests \ torn :
       r \in DOMAIN requests \/ ~Retention => Told(r) = View(r)

Inv == Consistent /\ ControlOK /\ Matching

(* A handler's change of r0 matches the event it leaves in job.            *)
LEMMA StartMatches ==
  ASSUME Inv, NEW r0 \in Requests, NEW e \in Events, Start(e), e.request = r0,
         \A r \in Requests : r # r0 =>
           View(r)' = View(r) /\ (r \in DOMAIN requests' => r \in DOMAIN requests),
         r0 \notin torn /\ (r0 \in DOMAIN requests' \/ ~Retention) =>
           Applied(mirror[r0], e) = View(r0)'
  PROVE  Matching'
<1>1. /\ job = Idle /\ job' = [at |-> "append", event |-> e]
      /\ mirror' = mirror /\ torn' = torn
  BY DEF Start, events, ghosts
<1>2. \A r : Told(r) = mirror[r]
  BY <1>1 DEF Told, Idle
<1>3. ASSUME NEW r \in Requests \ torn, r \in DOMAIN requests' \/ ~Retention
      PROVE  Told(r)' = View(r)'
  <2>1. CASE r = r0
    BY <1>1, <1>3, <2>1 DEF Told
  <2>2. CASE r # r0
    <3>1. Told(r)' = mirror[r]
      BY <1>1, <2>2 DEF Told
    <3>2. Told(r) = View(r)
      BY <1>3, <2>2 DEF Inv, Matching
    <3>. QED
      BY <1>2, <2>2, <3>1, <3>2
  <2>. QED
    BY <2>1, <2>2
<1>. QED
  BY <1>1, <1>3 DEF Inv, Matching

(* Before a handler starts, the mirror of a living request is its card.    *)
LEMMA MirrorCard ==
  ASSUME Inv, job = Idle, NEW r \in DOMAIN requests, r \notin torn
  PROVE  mirror[r] = Card(requests[r].status, requests[r].accepted, Tally(r))
<1>1. r \in Requests
  BY DEF Inv, Consistent, RowsOK
<1>2. Told(r) = View(r)
  BY <1>1 DEF Inv, Matching
<1>3. Told(r) = mirror[r]
  BY DEF Told, Idle
<1>. QED
  BY <1>2, <1>3, ViewCard

(* Steps that leave the tables alone, or delete rows without an event.     *)
LEMMA OtherMatches ==
  ASSUME Inv, UNCHANGED <<mirror, torn>>,
         \A r \in Requests : Told(r)' = Told(r),
         job'.at = "prune" => Retention,
         \A r \in Requests : r \in DOMAIN requests' \/ ~Retention =>
           View(r)' = View(r) /\ (r \in DOMAIN requests' => r \in DOMAIN requests)
  PROVE  Matching'
<1>1. ASSUME NEW r \in Requests \ torn, r \in DOMAIN requests' \/ ~Retention
      PROVE  Told(r)' = View(r)'
  BY <1>1 DEF Inv, Matching
<1>. QED
  BY <1>1 DEF Inv, Matching

LEMMA MatchingStep ==
  ASSUME Inv, [Next]_vars
  PROVE  Matching'
<1>. USE DEF tables, events, ghosts
<1>0. Consistent
  BY DEF Inv
<1>1. ASSUME NEW r \in Requests, NEW c \in Clients, CreateRequest(r, c)
      PROVE  Matching'
  <2>1. Start(Created(r, c)) /\ InsertRequest(r, c)
    BY <1>1 DEF CreateRequest
  <2>2. Created(r, c) \in Events /\ Created(r, c).request = r
    BY DEF Events, Created
  <2>3. /\ View(r)' = Card("open", None, << >>)
        /\ \A q : q # r => View(q)' = View(q)
    BY <1>0, <2>1, CreatedView
  <2>4. DOMAIN requests' = DOMAIN requests \cup {r}
    BY <2>1 DEF InsertRequest, Put
  <2>5. Applied(mirror[r], Created(r, c)) = Card("open", None, << >>)
    BY DEF Applied, Created, Card, Absent
  <2>. QED
    BY <2>1, <2>2, <2>3, <2>4, <2>5, StartMatches
<1>2. ASSUME NEW r \in Requests, NEW a \in Answers, NEW c \in Clients, CreateAnswer(r, a, c)
      PROVE  Matching'
  <2>1. Start(Answered(r, a)) /\ r \in DOMAIN requests /\ InsertAnswer(r, a, c)
    BY <1>2 DEF CreateAnswer
  <2>2. Answered(r, a) \in Events /\ Answered(r, a).request = r
    BY DEF Events, Answered
  <2>3. /\ View(r)' = Card(requests[r].status, requests[r].accepted, Put(Tally(r), a, 0))
        /\ \A q : q # r => View(q)' = View(q)
    BY <1>0, <2>1, AnsweredView
  <2>4. requests' = requests /\ job = Idle
    BY <2>1 DEF InsertAnswer, Start
  <2>5. ASSUME r \notin torn  PROVE Applied(mirror[r], Answered(r, a)) = View(r)'
    <3>1. mirror[r] = Card(requests[r].status, requests[r].accepted, Tally(r))
      BY <2>1, <2>3, <2>4, <2>5, MirrorCard
    <3>2. Applied(Card(requests[r].status, requests[r].accepted, Tally(r)), Answered(r, a))
            = Card(requests[r].status, requests[r].accepted, Put(Tally(r), a, 0))
      BY AppliedAnswered
    <3>. QED
      BY <2>3, <3>1, <3>2
  <2>. QED
    BY <2>1, <2>2, <2>3, <2>4, <2>5, StartMatches
<1>3. ASSUME NEW r \in Requests, NEW a \in Answers, NEW c \in Clients, AcceptAnswer(r, a, c)
      PROVE  Matching'
  <2>. DEFINE row == [requests[r] EXCEPT !.accepted = a]
  <2>1. Start(Accepted(r, a)) /\ SetAccepted(r, a, c) /\ r \in DOMAIN requests /\ job = Idle
    BY <1>3 DEF AcceptAnswer, SetAccepted, Start
  <2>2. Accepted(r, a) \in Events /\ Accepted(r, a).request = r
    BY DEF Events, Accepted
  <2>3. row.status = requests[r].status /\ row.accepted = a
    BY <1>0, <2>1 DEF Consistent, RowsOK, RequestRow
  <2>4. requests' = [requests EXCEPT ![r] = row] /\ UNCHANGED <<answers, votes>>
    BY <2>1 DEF SetAccepted
  <2>. HIDE DEF row
  <2>5. DOMAIN requests' = DOMAIN requests
    BY <2>4
  <2>7. /\ View(r)' = Card(requests[r].status, a, Tally(r))
        /\ \A q : q # r => View(q)' = View(q)
    BY <2>1, <2>3, <2>4, UpdatedView
  <2>8. ASSUME r \notin torn  PROVE Applied(mirror[r], Accepted(r, a)) = View(r)'
    <3>1. mirror[r] = Card(requests[r].status, requests[r].accepted, Tally(r))
      BY <2>1, <2>7, <2>8, MirrorCard
    <3>2. Applied(Card(requests[r].status, requests[r].accepted, Tally(r)), Accepted(r, a))
            = Card(requests[r].status, a, Tally(r))
      BY AppliedAccepted
    <3>. QED
      BY <2>7, <3>1, <3>2
  <2>. QED
    BY <2>1, <2>2, <2>5, <2>7, <2>8, StartMatches
<1>4. ASSUME NEW r \in Requests, CloseRequest(r)  PROVE Matching'
  <2>. DEFINE row == [requests[r] EXCEPT !.status = "closed"]
  <2>1. Start(ClosedEvent(r)) /\ MarkClosed(r) /\ r \in DOMAIN requests /\ job = Idle
    BY <1>4 DEF CloseRequest, Start
  <2>2. ClosedEvent(r) \in Events /\ ClosedEvent(r).request = r
    BY DEF Events, ClosedEvent
  <2>3. row.status = "closed" /\ row.accepted = requests[r].accepted
    BY <1>0, <2>1 DEF Consistent, RowsOK, RequestRow
  <2>4. requests' = [requests EXCEPT ![r] = row] /\ UNCHANGED <<answers, votes>>
    BY <2>1 DEF MarkClosed
  <2>. HIDE DEF row
  <2>5. DOMAIN requests' = DOMAIN requests
    BY <2>4
  <2>7. /\ View(r)' = Card("closed", requests[r].accepted, Tally(r))
        /\ \A q : q # r => View(q)' = View(q)
    BY <2>1, <2>3, <2>4, UpdatedView
  <2>8. r \notin torn => Applied(mirror[r], ClosedEvent(r)) = View(r)'
    BY <2>1, <2>7, MirrorCard, AppliedClosed
  <2>. QED
    BY <2>1, <2>2, <2>5, <2>7, <2>8, StartMatches
<1>5. ASSUME NEW r \in Requests, DeleteRequest(r)  PROVE Matching'
  <2>1. Start(Deleted(r)) /\ DeleteRows({r}) /\ r \in DOMAIN requests /\ job = Idle
    BY <1>5 DEF DeleteRequest, DeleteWithFiles, Start
  <2>2. Deleted(r) \in Events /\ Deleted(r).request = r
    BY DEF Events, Deleted
  <2>3. /\ View(r)' = Absent
        /\ \A q : q # r => View(q)' = View(q)
    BY <1>0, <2>1, DeletedView
  <2>4. DOMAIN requests' = DOMAIN requests \ {r}
    BY <1>0, <2>1, DeleteRowsLeaves
  <2>5. Applied(mirror[r], Deleted(r)) = Absent
    BY DEF Applied, Deleted
  <2>. QED
    BY <2>1, <2>2, <2>3, <2>4, <2>5, StartMatches
<1>6. ASSUME NEW a \in Answers, NEW v \in Clients, ToggleVote(a, v)  PROVE Matching'
  <2>1. PICK r \in Requests : r = answers[a].request
    BY <1>0, <1>6 DEF ToggleVote, Toggle, Consistent, RowsOK, AnswerRow
  <2>2. Toggle(a, v) /\ a \in AnswersTo(r) /\ requests' = requests /\ job = Idle
    BY <1>6, <2>1 DEF ToggleVote, Toggle, AnswersTo, Start
  <2>3. PICK n \in Nat : n = VoteCount(a)'
    <3>1. Consistent'
      BY <1>0, <2>2, ToggleOK
    <3>2. IsFiniteSet({w \in votes' : w[1] = a})
      BY <3>1, FS_Subset DEF Consistent, RowsOK
    <3>. QED
      BY <3>2, FS_CardinalityType DEF VoteCount
  <2>4. Start(Voted(r, a, n))
    BY <1>6, <2>1, <2>3 DEF ToggleVote
  <2>5. Voted(r, a, n) \in Events /\ Voted(r, a, n).request = r
    BY DEF Events, Voted
  <2>6. /\ r \in DOMAIN requests
        /\ View(r)' = Card(requests[r].status, requests[r].accepted, Put(Tally(r), a, n))
        /\ \A q : q # r => View(q)' = View(q)
    BY <1>0, <2>2, <2>3, ToggledView
  <2>7. ASSUME r \notin torn  PROVE Applied(mirror[r], Voted(r, a, n)) = View(r)'
    <3>1. mirror[r] = Card(requests[r].status, requests[r].accepted, Tally(r))
      BY <2>2, <2>6, <2>7, MirrorCard
    <3>2. Applied(Card(requests[r].status, requests[r].accepted, Tally(r)), Voted(r, a, n))
            = Card(requests[r].status, requests[r].accepted, Put(Tally(r), a, n))
      BY AppliedVoted
    <3>. QED
      BY <2>6, <3>1, <3>2
  <2>. QED
    BY <2>2, <2>4, <2>5, <2>6, <2>7, StartMatches
<1>7. ASSUME UNCHANGED <<requests, answers, votes>>
      PROVE  \A r : View(r)' = View(r)
  BY <1>7 DEF View, AnswersTo, VoteCount
<1>8. ASSUME UNCHANGED <<requests, answers, votes, mirror, job, torn>>  PROVE Matching'
  <2>1. \A r : Told(r)' = Told(r) /\ View(r)' = View(r)
    BY <1>7, <1>8 DEF Told
  <2>. QED
    BY <1>8, <2>1 DEF Inv, Matching
<1>9. ASSUME NEW r \in Requests, GrowOld(r)  PROVE Matching'
  BY <1>8, <1>9 DEF GrowOld
<1>10. ASSUME NEW f \in Files, NEW o \in Requests \cup Answers,
              Upload(f, o) \/ BeginUpload(f, o)
       PROVE  Matching'
  BY <1>8, <1>10 DEF Upload, BeginUpload, AddAttachment
<1>11. ASSUME NEW u \in uploads, EndUpload(u) \/ RefuseUpload(u)  PROVE Matching'
  BY <1>8, <1>11 DEF EndUpload, RefuseUpload, AddAttachment
<1>12. CASE AppendEvent
  <2>1. /\ job.at = "append" /\ job' = [job EXCEPT !.at = "trim"] /\ torn' = torn
        /\ mirror' = [mirror EXCEPT ![job.event.request] = Applied(@, job.event)]
        /\ UNCHANGED <<requests, answers, votes>>
    BY <1>12 DEF AppendEvent
  <2>2. PICK e \in Events : job = [at |-> "append", event |-> e]
    BY <2>1 DEF Inv, ControlOK, JobOK, Idle
  <2>3. e.request \in Requests /\ DOMAIN mirror = Requests
    BY EventRequest DEF Inv, Matching
  <2>4. mirror' = [mirror EXCEPT ![e.request] = Applied(@, e)] /\ job'.at = "trim"
    BY <2>1, <2>2
  <2>5. ASSUME NEW r \in Requests  PROVE Told(r)' = Told(r)
    <3>1. Told(r)' = mirror'[r]
      BY <2>4 DEF Told
    <3>2. Told(r) = IF e.request = r THEN Applied(mirror[r], e) ELSE mirror[r]
      BY <2>2 DEF Told
    <3>. QED
      BY <2>3, <2>4, <3>1, <3>2
  <2>. QED
    BY <1>7, <2>1, <2>3, <2>4, <2>5 DEF Inv, Matching
<1>13. CASE TrimEvents
  <2>1. /\ job.at = "trim" /\ UNCHANGED <<requests, answers, votes, mirror, torn>>
        /\ job' = IF Retention /\ job.event.kind = "request.created"
                  THEN [job EXCEPT !.at = "prune"] ELSE Idle
    BY <1>13 DEF TrimEvents
  <2>2. job'.at # "append" /\ (job'.at = "prune" => Retention)
    <3>1. PICK at \in {"append", "trim", "prune"}, e \in Events :
                 job = [at |-> at, event |-> e]
      BY <2>1 DEF Inv, ControlOK, JobOK, Idle
    <3>. QED
      BY <2>1, <3>1 DEF Idle
  <2>3. \A r : Told(r)' = Told(r)
    BY <2>1, <2>2 DEF Told
  <2>. QED
    BY <1>7, <2>1, <2>2, <2>3, OtherMatches
<1>14. ASSUME PruneOldClosed, Retention, UNCHANGED <<mirror, torn>>,
              job.at # "append", job' = Idle
       PROVE  Matching'
  <2>1. PICK R : DeleteRows(R)
    BY <1>14 DEF PruneOldClosed
  <2>2. \A r : Told(r)' = Told(r)
    BY <1>14 DEF Told, Idle
  <2>3. \A r \in DOMAIN requests' : View(r)' = View(r) /\ r \in DOMAIN requests
    <3>1. DOMAIN requests' = DOMAIN requests \ R
      BY <1>0, <2>1, DeleteRowsLeaves
    <3>. QED
      BY <1>0, <2>1, <3>1, DeletedView
  <2>. QED
    BY <1>14, <2>2, <2>3, OtherMatches DEF Idle
<1>15. CASE Prune
  BY <1>14, <1>15 DEF Prune, Inv, Matching
<1>16. CASE Boot
  <2>1. job = Idle /\ job' = job /\ mirror' = mirror /\ torn' = torn
    BY <1>16 DEF Boot, Inv, ControlOK, JobOK
  <2>2. CASE Retention
    BY <1>14, <1>16, <2>1, <2>2 DEF Boot, Idle
  <2>3. CASE ~Retention
    BY <1>8, <1>16, <2>1, <2>3 DEF Boot
  <2>. QED
    BY <2>2, <2>3
<1>17. CASE Kill
  <2>1. /\ job' = Idle /\ UNCHANGED <<requests, answers, votes, mirror>>
        /\ torn' = IF job.at = "append" THEN torn \cup {job.event.request} ELSE torn
    BY <1>17 DEF Kill
  <2>2. ASSUME NEW r \in Requests \ torn'  PROVE r \in Requests \ torn /\ Told(r)' = Told(r)
    BY <2>1, <2>2 DEF Told, Idle
  <2>. QED
    BY <1>7, <2>1, <2>2 DEF Inv, Matching, Idle
<1>18. CASE UNCHANGED vars
  BY <1>8, <1>18 DEF vars
<1>. QED
  BY <1>1, <1>2, <1>3, <1>4, <1>5, <1>6, <1>9, <1>10, <1>11, <1>12, <1>13, <1>15,
     <1>16, <1>17, <1>18 DEF Next

LEMMA InvInit == Init => Inv
<1>. SUFFICES ASSUME Init  PROVE Inv
  OBVIOUS
<1>1. Consistent
  BY FS_EmptySet DEF Init, Consistent, RowsOK, ReferentialIntegrity, AnswersTo
<1>2. ControlOK
  BY LimitAssumption DEF Init, ControlOK, JobOK
<1>3. Matching
  BY DEF Init, Matching, Told, View, Idle
<1>. QED
  BY <1>1, <1>2, <1>3 DEF Inv

LEMMA InvStep == Inv /\ [Next]_vars => Inv'
BY ConsistentStep, ControlStep, MatchingStep DEF Inv

-----------------------------------------------------------------------------
(* What may not happen to a request that exists.                           *)

Stays == \A r \in DOMAIN requests \cap DOMAIN requests' :
           requests[r].status = "closed" =>
             requests'[r].status = "closed" /\ AnswersTo(r)' = AnswersTo(r)

Vanishes == \A r \in DOMAIN requests \ DOMAIN requests' :
              r \in old \/ (job' # Idle /\ job'.event = Deleted(r))

LEMMA DeletionStays ==
  ASSUME Consistent, NEW R, DeleteRows(R)
  PROVE  Stays
<1>1. /\ DOMAIN requests' = DOMAIN requests \ R
      /\ \A r \in DOMAIN requests' : requests'[r] = requests[r]
      /\ DOMAIN answers' = {a \in DOMAIN answers : answers[a].request \notin R}
      /\ \A a \in DOMAIN answers' : answers'[a] = answers[a]
  BY DeleteRowsLeaves
<1>2. \A r \in DOMAIN requests' : AnswersTo(r)' = AnswersTo(r)
  BY <1>1 DEF AnswersTo
<1>. QED
  BY <1>1, <1>2 DEF Stays

LEMMA PruneVanishes ==
  ASSUME Consistent, PruneOldClosed
  PROVE  Stays /\ Vanishes
<1>. DEFINE R == {r \in old : r \in DOMAIN requests /\ requests[r].status = "closed"}
<1>1. DeleteRows(R)
  BY DEF PruneOldClosed
<1>2. DOMAIN requests' = DOMAIN requests \ R
  BY <1>1, DeleteRowsLeaves
<1>3. Vanishes
  BY <1>2 DEF Vanishes
<1>. HIDE DEF R
<1>. QED
  BY <1>1, <1>3, DeletionStays

LEMMA StaysAndVanishes ==
  ASSUME Inv, [Next]_vars
  PROVE  Stays /\ Vanishes
<1>. USE DEF tables, events, ghosts
<1>0. Consistent
  BY DEF Inv
<1>1. ASSUME UNCHANGED <<requests, answers>>  PROVE Stays /\ Vanishes
  BY <1>1 DEF Stays, Vanishes, AnswersTo
<1>2. ASSUME NEW r \in Requests, NEW c \in Clients, CreateRequest(r, c)
      PROVE  Stays /\ Vanishes
  <2>1. /\ DOMAIN requests' = DOMAIN requests \cup {r}
        /\ \A q \in DOMAIN requests : q # r => requests'[q] = requests[q]
        /\ answers' = answers
    BY <1>2 DEF CreateRequest, InsertRequest, Put
  <2>2. r \notin DOMAIN requests
    BY <1>0, <1>2 DEF Consistent, RowsOK, CreateRequest, InsertRequest, Draw
  <2>. QED
    BY <2>1, <2>2 DEF Stays, Vanishes, AnswersTo
<1>3. ASSUME NEW r \in Requests, NEW a \in Answers, NEW c \in Clients, CreateAnswer(r, a, c)
      PROVE  Stays /\ Vanishes
  <2>. DEFINE row == [request |-> r, solver |-> c]
  <2>1. /\ requests' = requests /\ requests[r].status = "open" /\ r \in DOMAIN requests
        /\ answers' = Put(answers, a, row) /\ row.request = r /\ a \notin drawn
    BY <1>3 DEF CreateAnswer, InsertAnswer, Draw
  <2>. HIDE DEF row
  <2>2. /\ DOMAIN answers' = DOMAIN answers \cup {a} /\ answers'[a] = row
        /\ \A b \in DOMAIN answers : b # a => answers'[b] = answers[b]
    BY <2>1 DEF Put
  <2>3. a \notin DOMAIN answers
    BY <1>0, <2>1 DEF Consistent, RowsOK
  <2>4. \A q : q # r => AnswersTo(q)' = AnswersTo(q)
    BY <2>1, <2>2, <2>3 DEF AnswersTo
  <2>. QED
    BY <2>1, <2>4 DEF Stays, Vanishes
<1>4. ASSUME NEW r \in Requests, NEW a \in Answers, NEW c \in Clients, AcceptAnswer(r, a, c)
      PROVE  Stays /\ Vanishes
  <2>1. /\ r \in DOMAIN requests /\ requests[r] \in RequestRow /\ answers' = answers
        /\ requests' = [requests EXCEPT ![r].accepted = a]
    BY <1>0, <1>4 DEF AcceptAnswer, SetAccepted, Consistent, RowsOK
  <2>2. /\ DOMAIN requests' = DOMAIN requests
        /\ \A q \in DOMAIN requests : requests'[q].status = requests[q].status
    BY <2>1 DEF RequestRow
  <2>. QED
    BY <2>1, <2>2 DEF Stays, Vanishes, AnswersTo
<1>5. ASSUME NEW r \in Requests, CloseRequest(r)  PROVE Stays /\ Vanishes
  <2>1. /\ answers' = answers /\ requests[r].status = "open"
        /\ requests' = [requests EXCEPT ![r].status = "closed"]
    BY <1>5 DEF CloseRequest, MarkClosed
  <2>2. /\ DOMAIN requests' = DOMAIN requests
        /\ \A q \in DOMAIN requests : q # r => requests'[q] = requests[q]
    BY <2>1
  <2>. QED
    BY <2>1, <2>2 DEF Stays, Vanishes, AnswersTo
<1>6. ASSUME NEW r \in Requests, DeleteRequest(r)  PROVE Stays /\ Vanishes
  <2>1. DeleteRows({r}) /\ job' = [at |-> "append", event |-> Deleted(r)]
    BY <1>6 DEF DeleteRequest, DeleteWithFiles, Start
  <2>2. DOMAIN requests' = DOMAIN requests \ {r}
    BY <1>0, <2>1, DeleteRowsLeaves
  <2>3. job' # Idle /\ job'.event = Deleted(r)
    BY <2>1 DEF Idle
  <2>4. Vanishes
    BY <2>2, <2>3 DEF Vanishes
  <2>. QED
    BY <1>0, <2>1, <2>4, DeletionStays
<1>7. ASSUME NEW a \in Answers, NEW v \in Clients, ToggleVote(a, v)
      PROVE  Stays /\ Vanishes
  BY <1>1, <1>7 DEF ToggleVote, Toggle
<1>8. ASSUME NEW r \in Requests, GrowOld(r)  PROVE Stays /\ Vanishes
  BY <1>1, <1>8 DEF GrowOld
<1>9. ASSUME NEW f \in Files, NEW o \in Requests \cup Answers,
             Upload(f, o) \/ BeginUpload(f, o)
      PROVE  Stays /\ Vanishes
  BY <1>1, <1>9 DEF Upload, BeginUpload, AddAttachment
<1>10. ASSUME NEW u \in uploads, EndUpload(u) \/ RefuseUpload(u)
       PROVE  Stays /\ Vanishes
  BY <1>1, <1>10 DEF EndUpload, RefuseUpload, AddAttachment
<1>11. CASE Prune \/ Boot
  BY <1>0, <1>1, <1>11, PruneVanishes DEF Prune, Boot
<1>12. CASE AppendEvent \/ TrimEvents \/ Kill \/ UNCHANGED vars
  BY <1>1, <1>12 DEF AppendEvent, TrimEvents, Kill, vars
<1>. QED
  BY <1>2, <1>3, <1>4, <1>5, <1>6, <1>7, <1>8, <1>9, <1>10, <1>11, <1>12 DEF Next

-----------------------------------------------------------------------------
(* Whatever handlers, suspended uploads, prunes, kills and restarts follow *)
(* one another, the invariant holds.                                       *)
THEOREM InvAlways == Spec => []Inv
BY InvInit, InvStep, PTL DEF Spec

(* The state keeps its shape.                                              *)
THEOREM ServerTypeCorrect == Spec => []TypeOK
<1>1. Inv => TypeOK
  BY TypesSuffice DEF Inv
<1>. QED
  BY <1>1, InvAlways, PTL

(* No answer without its request, no vote without its answer, no accepted  *)
(* answer of another request (migrations/001 and 002, db.py:147).          *)
THEOREM ReferencesHold == Spec => []ReferentialIntegrity
<1>1. Inv => ReferentialIntegrity
  BY DEF Inv, Consistent
<1>. QED
  BY <1>1, InvAlways, PTL

(* The events tell all about the requests that exist: their status, their  *)
(* accepted answer, their answers and votes - but for a request whose      *)
(* event a kill has swallowed.                                             *)
THEOREM LivingAreTold == Spec => []EventsTellTheLiving
<1>1. Inv => EventsTellTheLiving
  BY DEF Inv, Matching, Consistent, RowsOK, EventsTellTheLiving
<1>. QED
  BY <1>1, InvAlways, PTL

(* ... and without retention also which requests no longer exist.          *)
THEOREM AllAreTold == ASSUME ~Retention  PROVE Spec => []EventsTellAll
<1>1. Inv => EventsTellAll
  BY DEF Inv, Matching, EventsTellAll
<1>. QED
  BY <1>1, InvAlways, PTL

(* A closed request stays closed and takes no further answer.              *)
THEOREM ClosedStaysClosed == Spec => ClosedIsFinal
<1>1. Inv /\ [Next]_vars => Stays
  BY StaysAndVanishes
<1>2. Inv /\ [Next]_vars => [Stays]_vars
  BY <1>1
<1>. QED
  BY <1>2, InvAlways, PTL DEF Spec, ClosedIsFinal, Stays

(* Only a deletion or old age makes a request vanish.                      *)
THEOREM NoneVanishesOtherwise == Spec => VanishesRightly
<1>1. Inv /\ [Next]_vars => [Vanishes]_vars
  BY StaysAndVanishes
<1>. QED
  BY <1>1, InvAlways, PTL DEF Spec, VanishesRightly, Vanishes

-----------------------------------------------------------------------------
(* Attachments with every setting.                                         *)

Orphaned ==
  \A f \in DOMAIN attachments' : attachments'[f] \notin Owners' =>
    \/ f \in DOMAIN attachments /\ attachments[f] \notin Owners
    \/ \E u \in uploads : u.file = f
    \/ /\ job.at = "prune" \/ ~up
       /\ \E r \in old : attachments[f] \in {r} \cup AnswersTo(r)

LEMMA PruneOrphans ==
  ASSUME Consistent, PruneOldClosed, job.at = "prune" \/ ~up
  PROVE  Orphaned
<1> DEFINE R == {r \in old : r \in DOMAIN requests /\ requests[r].status = "closed"}
<1>1. DeleteRows(R) /\ attachments' = attachments
  BY DEF PruneOldClosed
<1>2. /\ DOMAIN requests' = DOMAIN requests \ R
      /\ DOMAIN answers' = {a \in DOMAIN answers : answers[a].request \notin R}
  BY <1>1, DeleteRowsLeaves
<1>3. ASSUME NEW f \in DOMAIN attachments, attachments[f] \in Owners, attachments[f] \notin Owners'
      PROVE  \E r \in old : attachments[f] \in {r} \cup AnswersTo(r)
  BY <1>2, <1>3 DEF Owners, AnswersTo
<1>. QED
  BY <1>1, <1>3 DEF Orphaned

LEMMA OrphansStep ==
  ASSUME Inv, [Next]_vars
  PROVE  Orphaned
<1>. USE DEF tables, events, ghosts
<1>0. Consistent
  BY DEF Inv
<1>1. ASSUME UNCHANGED attachments,
             DOMAIN requests \subseteq DOMAIN requests', DOMAIN answers \subseteq DOMAIN answers'
      PROVE  Orphaned
  BY <1>1 DEF Orphaned, Owners
<1>2. ASSUME NEW r \in Requests, NEW c \in Clients, CreateRequest(r, c)  PROVE Orphaned
  BY <1>1, <1>2 DEF CreateRequest, InsertRequest, Start, Put
<1>3. ASSUME NEW r \in Requests, NEW a \in Answers, NEW c \in Clients, CreateAnswer(r, a, c)
      PROVE  Orphaned
  BY <1>1, <1>3 DEF CreateAnswer, InsertAnswer, Start, Put
<1>4. ASSUME NEW r \in Requests, NEW a \in Answers, NEW c \in Clients, AcceptAnswer(r, a, c)
      PROVE  Orphaned
  BY <1>1, <1>4 DEF AcceptAnswer, SetAccepted, Start
<1>5. ASSUME NEW r \in Requests, CloseRequest(r)  PROVE Orphaned
  BY <1>1, <1>5 DEF CloseRequest, MarkClosed, Start
<1>6. ASSUME NEW r \in Requests, DeleteRequest(r)  PROVE Orphaned
  <2>1. /\ DeleteRows({r})
        /\ attachments' = Only(attachments,
             {f \in DOMAIN attachments : attachments[f] \notin {r} \cup AnswersTo(r)})
    BY <1>6 DEF DeleteRequest, DeleteWithFiles, Start
  <2>2. /\ DOMAIN attachments' \subseteq DOMAIN attachments
        /\ \A f \in DOMAIN attachments' : /\ attachments'[f] = attachments[f]
                                          /\ attachments[f] \notin {r} \cup AnswersTo(r)
    BY <2>1 DEF Only
  <2>3. /\ DOMAIN requests' = DOMAIN requests \ {r}
        /\ DOMAIN answers' = {a \in DOMAIN answers : answers[a].request \notin {r}}
    BY <1>0, <2>1, DeleteRowsLeaves
  <2>. QED
    BY <2>2, <2>3 DEF Orphaned, Owners, AnswersTo
<1>7. ASSUME NEW a \in Answers, NEW v \in Clients, ToggleVote(a, v)  PROVE Orphaned
  BY <1>1, <1>7 DEF ToggleVote, Toggle, Start
<1>8. ASSUME NEW r \in Requests, GrowOld(r)  PROVE Orphaned
  BY <1>1, <1>8 DEF GrowOld
<1>9. ASSUME NEW f \in Files, NEW o \in Requests \cup Answers, Upload(f, o)  PROVE Orphaned
  BY <1>9 DEF Upload, UploadChecks, AddAttachment, Put, Orphaned, Owners
<1>10. ASSUME NEW f \in Files, NEW o \in Requests \cup Answers, BeginUpload(f, o)
       PROVE  Orphaned
  BY <1>1, <1>10 DEF BeginUpload
<1>11. ASSUME NEW u \in uploads, EndUpload(u)  PROVE Orphaned
  BY <1>11 DEF EndUpload, AddAttachment, Put, Orphaned, Owners
<1>12. ASSUME NEW u \in uploads, RefuseUpload(u)  PROVE Orphaned
  BY <1>1, <1>12 DEF RefuseUpload
<1>13. CASE Prune
  BY <1>0, <1>13, PruneOrphans DEF Prune
<1>14. CASE Kill
  BY <1>1, <1>14 DEF Kill
<1>15. CASE Boot
  BY <1>0, <1>1, <1>15, PruneOrphans DEF Boot
<1>16. CASE AppendEvent \/ TrimEvents \/ UNCHANGED vars
  BY <1>1, <1>16 DEF AppendEvent, TrimEvents, vars
<1>. QED
  BY <1>2, <1>3, <1>4, <1>5, <1>6, <1>7, <1>8, <1>9, <1>10, <1>11, <1>12, <1>13, <1>14,
     <1>15, <1>16 DEF Next

(* Whatever the settings, only the prune and a suspended upload leave an   *)
(* attachment without its owner (db.py:75-95, routes/attachments.py:72).   *)
THEOREM NoOtherOrphans == Spec => OrphanedRightly
<1>1. Inv /\ [Next]_vars => [Orphaned]_vars
  BY OrphansStep
<1>. QED
  BY <1>1, InvAlways, PTL DEF Spec, OrphanedRightly, Orphaned

-----------------------------------------------------------------------------
(* Attachments, with the settings the code comes with: no prune, which     *)
(* leaves them behind, and no upload that suspends after its checks.       *)

FilesKept == /\ uploads = {}
          /\ IsFiniteSet(DOMAIN attachments)
          /\ NoOrphanAttachment /\ CapHolds

LEMMA FilesStay ==
  ASSUME FilesKept, DOMAIN attachments' \subseteq DOMAIN attachments,
         \A f \in DOMAIN attachments' : attachments'[f] = attachments[f],
         \A f \in DOMAIN attachments' : attachments'[f] \in Owners',
         uploads' = {}
  PROVE  FilesKept'
<1>1. IsFiniteSet(DOMAIN attachments')
  BY FS_Subset DEF FilesKept
<1>2. NoOrphanAttachment'
  BY DEF NoOrphanAttachment
<1>3. ASSUME NEW o \in Requests \cup Answers
      PROVE  Cardinality(FilesOf(o)') <= MaxPerOwner
  <2>1. FilesOf(o)' \subseteq FilesOf(o)
    BY DEF FilesOf
  <2>2. IsFiniteSet(FilesOf(o))
    BY FS_Subset DEF FilesOf, FilesKept
  <2>3. Cardinality(FilesOf(o)') <= Cardinality(FilesOf(o))
    BY <2>1, <2>2, FS_Subset
  <2>4. Cardinality(FilesOf(o)') \in Nat /\ Cardinality(FilesOf(o)) \in Nat
    BY <2>1, <2>2, FS_Subset, FS_CardinalityType
  <2>5. Cardinality(FilesOf(o)) <= MaxPerOwner
    BY DEF FilesKept, CapHolds
  <2>. QED
    BY <2>3, <2>4, <2>5, LimitAssumption
<1>. QED
  BY <1>1, <1>2, <1>3 DEF FilesKept, CapHolds

LEMMA OneMoreFile ==
  ASSUME FilesKept, Inv, NEW f \in Files, NEW o \in Requests \cup Answers,
         UploadChecks(o), AddAttachment(f, o), uploads' = {}
  PROVE  FilesKept'
<1>1. /\ DOMAIN attachments' = DOMAIN attachments \cup {f}
      /\ f \notin DOMAIN attachments
      /\ \A g \in DOMAIN attachments : attachments'[g] = attachments[g]
      /\ attachments'[f] = o
      /\ UNCHANGED <<requests, answers>>
  <2>1. f \notin DOMAIN attachments
    BY DEF AddAttachment, Draw, Inv, Consistent, RowsOK
  <2>. QED
    BY <2>1 DEF AddAttachment, Put
<1>2. IsFiniteSet(DOMAIN attachments')
  BY <1>1, FS_AddElement DEF FilesKept
<1>3. NoOrphanAttachment'
  BY <1>1 DEF FilesKept, NoOrphanAttachment, UploadChecks, Owners
<1>4. ASSUME NEW p \in Requests \cup Answers
      PROVE  Cardinality(FilesOf(p)') <= MaxPerOwner
  <2>1. IsFiniteSet(FilesOf(p))
    BY FS_Subset DEF FilesOf, FilesKept
  <2>2. CASE p # o
    <3>1. FilesOf(p)' = FilesOf(p)
      BY <1>1, <2>2 DEF FilesOf
    <3>. QED
      BY <3>1 DEF FilesKept, CapHolds
  <2>3. CASE p = o
    <3>1. FilesOf(p)' = FilesOf(p) \cup {f} /\ f \notin FilesOf(p)
      BY <1>1, <2>3 DEF FilesOf
    <3>2. Cardinality(FilesOf(p)') = Cardinality(FilesOf(p)) + 1
      BY <2>1, <3>1, FS_AddElement
    <3>3. Cardinality(FilesOf(p)) \in Nat
      BY <2>1, FS_CardinalityType
    <3>4. Cardinality(FilesOf(p)) < MaxPerOwner
      BY <2>3 DEF UploadChecks
    <3>. QED
      BY <3>2, <3>3, <3>4, LimitAssumption
  <2>. QED
    BY <2>2, <2>3
<1>. QED
  BY <1>2, <1>3, <1>4 DEF FilesKept, CapHolds

LEMMA FilesStep ==
  ASSUME ~Retention, ~Spooled, Inv, FilesKept, [Next]_vars
  PROVE  FilesKept'
<1>. USE DEF tables, events, ghosts
<1>0. Consistent /\ uploads = {}
  BY DEF Inv, FilesKept
<1>1. ASSUME UNCHANGED <<attachments, uploads>>,
             DOMAIN requests \subseteq DOMAIN requests', DOMAIN answers \subseteq DOMAIN answers'
      PROVE  FilesKept'
  BY <1>0, <1>1, FilesStay DEF FilesKept, NoOrphanAttachment, Owners
<1>2. ASSUME NEW r \in Requests, NEW c \in Clients, CreateRequest(r, c)  PROVE FilesKept'
  BY <1>1, <1>2 DEF CreateRequest, InsertRequest, Start, Put
<1>3. ASSUME NEW r \in Requests, NEW a \in Answers, NEW c \in Clients, CreateAnswer(r, a, c)
      PROVE  FilesKept'
  BY <1>1, <1>3 DEF CreateAnswer, InsertAnswer, Start, Put
<1>4. ASSUME NEW r \in Requests, NEW a \in Answers, NEW c \in Clients, AcceptAnswer(r, a, c)
      PROVE  FilesKept'
  BY <1>1, <1>4 DEF AcceptAnswer, SetAccepted, Start
<1>5. ASSUME NEW r \in Requests, CloseRequest(r)  PROVE FilesKept'
  BY <1>1, <1>5 DEF CloseRequest, MarkClosed, Start
<1>6. ASSUME NEW r \in Requests, DeleteRequest(r)  PROVE FilesKept'
  <2>1. /\ DeleteRows({r}) /\ uploads' = uploads
        /\ attachments' = Only(attachments,
             {f \in DOMAIN attachments : attachments[f] \notin {r} \cup AnswersTo(r)})
    BY <1>6 DEF DeleteRequest, DeleteWithFiles, Start
  <2>2. /\ DOMAIN attachments' \subseteq DOMAIN attachments
        /\ \A f \in DOMAIN attachments' : /\ attachments'[f] = attachments[f]
                                          /\ attachments[f] \notin {r} \cup AnswersTo(r)
    BY <2>1 DEF Only
  <2>3. /\ DOMAIN requests' = DOMAIN requests \ {r}
        /\ DOMAIN answers' = {a \in DOMAIN answers : answers[a].request \notin {r}}
    BY <1>0, <2>1, DeleteRowsLeaves
  <2>4. \A f \in DOMAIN attachments' : attachments'[f] \in Owners'
    BY <2>2, <2>3 DEF FilesKept, NoOrphanAttachment, Owners, AnswersTo
  <2>. QED
    BY <1>0, <2>1, <2>2, <2>4, FilesStay
<1>7. ASSUME NEW a \in Answers, NEW v \in Clients, ToggleVote(a, v)  PROVE FilesKept'
  BY <1>1, <1>7 DEF ToggleVote, Toggle, Start
<1>8. ASSUME NEW r \in Requests, GrowOld(r)  PROVE FilesKept'
  BY <1>8 DEF GrowOld
<1>9. ASSUME NEW f \in Files, NEW o \in Requests \cup Answers, Upload(f, o)  PROVE FilesKept'
  BY <1>0, <1>9, OneMoreFile DEF Upload
<1>10. ASSUME NEW f \in Files, NEW o \in Requests \cup Answers, BeginUpload(f, o)
       PROVE  FilesKept'
  BY <1>10 DEF BeginUpload
<1>11. CASE Prune
  <2>1. job.at = "prune"
    BY <1>11 DEF Prune
  <2>. QED
    BY <2>1 DEF Inv, Matching
<1>12. CASE Kill
  BY <1>0, <1>1, <1>12 DEF Kill
<1>13. CASE AppendEvent \/ TrimEvents \/ Boot \/ UNCHANGED vars
  BY <1>1, <1>13 DEF AppendEvent, TrimEvents, Boot, vars
<1>. QED
  BY <1>0, <1>2, <1>3, <1>4, <1>5, <1>6, <1>7, <1>8, <1>9, <1>10, <1>11, <1>12, <1>13
     DEF Next

LEMMA FilesAlways == ASSUME ~Retention, ~Spooled  PROVE Spec => []FilesKept
<1>1. Init => FilesKept
  BY FS_EmptySet, LimitAssumption
     DEF Init, FilesKept, NoOrphanAttachment, CapHolds, FilesOf
<1>2. Inv /\ FilesKept /\ [Next]_vars => FilesKept'
  BY FilesStep
<1>. QED
  BY <1>1, <1>2, InvAlways, PTL DEF Spec

(* The cascade in code keeps pace with the foreign keys (db.py:75-95).     *)
THEOREM NoOrphans == ASSUME ~Retention, ~Spooled  PROVE Spec => []NoOrphanAttachment
<1>1. FilesKept => NoOrphanAttachment
  BY DEF FilesKept
<1>. QED
  BY <1>1, FilesAlways, PTL

(* No owner has more attachments than the settings allow                   *)
(* (routes/attachments.py:62-68).                                          *)
THEOREM CapKept == ASSUME ~Retention, ~Spooled  PROVE Spec => []CapHolds
<1>1. FilesKept => CapHolds
  BY DEF FilesKept
<1>. QED
  BY <1>1, FilesAlways, PTL

-----------------------------------------------------------------------------
(* The tables implement the board.                                         *)

Slots == [r \in Requests |-> Slot(r)]

LEMMA SlotsSame ==
  ASSUME UNCHANGED <<requests, answers, votes>>,
         drawn' \cap (Requests \cup Answers) = drawn \cap (Requests \cup Answers)
  PROVE  UNCHANGED Board!vars
<1>1. \A r \in Requests : Slot(r)' = Slot(r)
  <2>1. ASSUME NEW r \in Requests  PROVE Slot(r)' = Slot(r)
    BY DEF Slot, AnswersTo
  <2>. QED
    BY <2>1
<1>2. [r \in Requests |-> Slot(r)]' = [r \in Requests |-> Slot(r)]
  BY <1>1
<1>. QED
  BY <1>2 DEF Board!vars

(* What a request's slot shows.                                            *)
LEMMA SlotOfRow ==
  ASSUME Consistent, NEW r \in Requests
  PROVE  /\ r \in DOMAIN requests =>
              /\ Slot(r).life = requests[r].status
              /\ Slot(r).asker = requests[r].client
              /\ Board!Shown(r) = AnswersTo(r)
         /\ r \notin DOMAIN requests =>
              Slot(r) = IF r \in drawn THEN Board!Gone ELSE Board!Unasked
<1>1. ASSUME r \in DOMAIN requests
      PROVE  Board!Shown(r) = AnswersTo(r)
  <2>1. Slots[r].answers = {<<a, answers[a].solver>> : a \in AnswersTo(r)}
    BY <1>1 DEF Slot, Slots
  <2>2. Board!Shown(r) = {x[1] : x \in Slots[r].answers}
    BY DEF Board!Shown, Slots
  <2>3. ASSUME NEW a \in AnswersTo(r)  PROVE a \in Board!Shown(r)
    <3>1. <<a, answers[a].solver>> \in Slots[r].answers /\ <<a, answers[a].solver>>[1] = a
      BY <2>1
    <3>. QED
      BY <2>2, <3>1
  <2>4. ASSUME NEW a \in Board!Shown(r)  PROVE a \in AnswersTo(r)
    <3>1. PICK x \in Slots[r].answers : a = x[1]
      BY <2>2
    <3>2. PICK b \in AnswersTo(r) : x = <<b, answers[b].solver>>
      BY <2>1
    <3>. QED
      BY <3>1, <3>2
  <2>. QED
    BY <2>3, <2>4
<1>2. r \in DOMAIN requests => /\ Slot(r).life = requests[r].status
                               /\ Slot(r).asker = requests[r].client
  BY DEF Slot
<1>3. ASSUME r \notin DOMAIN requests
      PROVE  Slot(r) = IF r \in drawn THEN Board!Gone ELSE Board!Unasked
  BY <1>3 DEF Slot, Board!Gone, Board!Unasked
<1>. QED
  BY <1>1, <1>2, <1>3

LEMMA AskOnBoard ==
  ASSUME Consistent, NEW r \in Requests, NEW c \in Clients, InsertRequest(r, c)
  PROVE  Board!Ask(r, c)
<1>. DEFINE row == [client |-> c, status |-> "open", accepted |-> None]
<1>1. /\ requests' = Put(requests, r, row) /\ UNCHANGED <<answers, votes>>
      /\ r \notin drawn /\ drawn' = drawn \cup {r}
  BY DEF InsertRequest, Draw
<1>2. row.status = "open" /\ row.client = c /\ row.accepted = None
  OBVIOUS
<1>. HIDE DEF row
<1>3. /\ DOMAIN requests' = DOMAIN requests \cup {r} /\ requests'[r] = row
      /\ \A q \in DOMAIN requests : q # r => requests'[q] = requests[q]
  BY <1>1 DEF Put
<1>4. r \notin DOMAIN requests /\ r \notin Answers
  BY <1>1, IdAssumption DEF Consistent, RowsOK
<1>5. Slots[r] = Board!Unasked
  BY <1>1, <1>4, SlotOfRow DEF Slots
<1>6. Slot(r)' = Board!Asked(c)
  <2>1. AnswersTo(r)' = {}
    BY <1>1, <1>4 DEF AnswersTo, Consistent, ReferentialIntegrity
  <2>. DEFINE shown == {<<a, answers[a].solver>> : a \in AnswersTo(r)}
  <2>2. Slot(r)' = [life |-> row.status, asker |-> row.client,
                    answers |-> shown', accepted |-> row.accepted]
    BY <1>3 DEF Slot
  <2>3. shown' = {}
    BY <2>1
  <2>. HIDE DEF shown
  <2>. QED
    BY <1>2, <2>2, <2>3 DEF Board!Asked
<1>7. \A q \in Requests : q # r => Slot(q)' = Slot(q)
  <2>1. ASSUME NEW q \in Requests, q # r  PROVE Slot(q)' = Slot(q)
    BY <1>1, <1>3, <2>1 DEF Slot, AnswersTo
  <2>. QED
    BY <2>1
<1>8. Slots' = [Slots EXCEPT ![r] = Board!Asked(c)]
  BY <1>6, <1>7 DEF Slots
<1>9. (drawn \cap Answers)' = drawn \cap Answers
  BY <1>1, <1>4
<1>. QED
  BY <1>1, <1>5, <1>8, <1>9 DEF Board!Ask, Slots

LEMMA AnswerOnBoard ==
  ASSUME Consistent, NEW r \in Requests, NEW a \in Answers, NEW c \in Clients,
         r \in DOMAIN requests, requests[r].status = "open", requests[r].client # c,
         InsertAnswer(r, a, c)
  PROVE  Board!Answer(r, a, c)
<1>. DEFINE row == [request |-> r, solver |-> c]
<1>1. /\ answers' = Put(answers, a, row) /\ UNCHANGED <<requests, votes>>
      /\ a \notin drawn /\ drawn' = drawn \cup {a}
  BY DEF InsertAnswer, Draw
<1>2. row.request = r /\ row.solver = c
  OBVIOUS
<1>. HIDE DEF row
<1>3. /\ DOMAIN answers' = DOMAIN answers \cup {a} /\ answers'[a] = row
      /\ \A b \in DOMAIN answers : b # a => answers'[b] = answers[b]
  BY <1>1 DEF Put
<1>4. a \notin DOMAIN answers /\ a \notin Requests
  BY <1>1, IdAssumption DEF Consistent, RowsOK
<1>5. Slots[r].life = "open" /\ Slots[r].asker # c
  BY SlotOfRow DEF Slots
<1>6. AnswersTo(r)' = AnswersTo(r) \cup {a}
  BY <1>2, <1>3, <1>4 DEF AnswersTo
<1>7. {<<b, answers[b].solver>> : b \in AnswersTo(r)}'
        = {<<b, answers[b].solver>> : b \in AnswersTo(r)} \cup {<<a, c>>}
  <2>1. \A b \in AnswersTo(r) : answers'[b] = answers[b]
    BY <1>3, <1>4 DEF AnswersTo
  <2>. QED
    BY <1>2, <1>3, <1>6, <2>1
<1>8. Slot(r)' = [Slot(r) EXCEPT !.answers = @ \cup {<<a, c>>}]
  <2>. DEFINE was == {<<b, answers[b].solver>> : b \in AnswersTo(r)}
  <2>1. Slot(r) = [life |-> requests[r].status, asker |-> requests[r].client,
                   answers |-> was, accepted |-> requests[r].accepted]
    BY DEF Slot
  <2>2. Slot(r)' = [life |-> requests[r].status, asker |-> requests[r].client,
                    answers |-> was', accepted |-> requests[r].accepted]
    BY <1>1 DEF Slot
  <2>3. was' = was \cup {<<a, c>>}
    BY <1>7
  <2>. HIDE DEF was
  <2>. QED
    BY <2>1, <2>2, <2>3
<1>9. \A q \in Requests : q # r => Slot(q)' = Slot(q)
  <2>1. ASSUME NEW q \in Requests, q # r  PROVE Slot(q)' = Slot(q)
    <3>1. AnswersTo(q)' = AnswersTo(q)
      BY <1>2, <1>3, <1>4, <2>1 DEF AnswersTo
    <3>2. \A b \in AnswersTo(q) : answers'[b] = answers[b]
      BY <1>3, <1>4 DEF AnswersTo
    <3>. QED
      BY <1>1, <1>4, <3>1, <3>2 DEF Slot
  <2>. QED
    BY <2>1
<1>10. Slots' = [Slots EXCEPT ![r].answers = @ \cup {<<a, c>>}]
  BY <1>8, <1>9 DEF Slots
<1>11. (drawn \cap Answers)' = (drawn \cap Answers) \cup {a}
  BY <1>1
<1>. QED
  BY <1>1, <1>5, <1>10, <1>11 DEF Board!Answer, Slots

LEMMA UpdateOnBoard ==
  ASSUME Consistent, NEW r \in Requests, r \in DOMAIN requests,
         UNCHANGED <<answers, votes, drawn>>, DOMAIN requests' = DOMAIN requests,
         \A q \in DOMAIN requests : q # r => requests'[q] = requests[q]
  PROVE  \A q \in Requests : q # r => Slot(q)' = Slot(q)
<1>1. ASSUME NEW q \in Requests, q # r  PROVE Slot(q)' = Slot(q)
  BY <1>1 DEF Slot, AnswersTo
<1>. QED
  BY <1>1

LEMMA AcceptOnBoard ==
  ASSUME Consistent, NEW r \in Requests, NEW a \in Answers, NEW c \in Clients,
         SetAccepted(r, a, c)
  PROVE  Board!Accept(r, a)
<1>1. /\ r \in DOMAIN requests /\ requests[r] \in RequestRow /\ a \in AnswersTo(r)
      /\ requests' = [requests EXCEPT ![r].accepted = a]
      /\ UNCHANGED <<answers, votes, drawn>>
  BY DEF SetAccepted, AnswersTo, Consistent, RowsOK
<1>2. /\ DOMAIN requests' = DOMAIN requests
      /\ \A q \in DOMAIN requests : q # r => requests'[q] = requests[q]
      /\ requests'[r].status = requests[r].status /\ requests'[r].client = requests[r].client
      /\ requests'[r].accepted = a
  BY <1>1 DEF RequestRow
<1>3. AnswersTo(r)' = AnswersTo(r)
  BY <1>1 DEF AnswersTo
<1>4. Slot(r)' = [Slot(r) EXCEPT !.accepted = a]
  <2>. DEFINE shown == {<<b, answers[b].solver>> : b \in AnswersTo(r)}
  <2>1. Slot(r) = [life |-> requests[r].status, asker |-> requests[r].client,
                   answers |-> shown, accepted |-> requests[r].accepted]
    BY <1>1 DEF Slot
  <2>2. Slot(r)' = [life |-> requests[r].status, asker |-> requests[r].client,
                    answers |-> shown', accepted |-> a]
    BY <1>1, <1>2 DEF Slot
  <2>3. shown' = shown
    BY <1>1, <1>3
  <2>. HIDE DEF shown
  <2>. QED
    BY <2>1, <2>2, <2>3
<1>5. Slots' = [Slots EXCEPT ![r].accepted = a]
  BY <1>1, <1>2, <1>4, UpdateOnBoard DEF Slots
<1>6. a \in Board!Shown(r)
  BY <1>1, SlotOfRow
<1>. QED
  BY <1>1, <1>5, <1>6 DEF Board!Accept, Slots

LEMMA CloseOnBoard ==
  ASSUME Consistent, NEW r \in Requests, r \in DOMAIN requests, MarkClosed(r)
  PROVE  Board!Close(r)
<1>1. /\ requests[r] \in RequestRow /\ requests[r].status = "open"
      /\ requests' = [requests EXCEPT ![r].status = "closed"]
      /\ UNCHANGED <<answers, votes, drawn>>
  BY DEF MarkClosed, Consistent, RowsOK
<1>2. /\ DOMAIN requests' = DOMAIN requests
      /\ \A q \in DOMAIN requests : q # r => requests'[q] = requests[q]
      /\ requests'[r].status = "closed" /\ requests'[r].client = requests[r].client
      /\ requests'[r].accepted = requests[r].accepted
  BY <1>1 DEF RequestRow
<1>3. AnswersTo(r)' = AnswersTo(r)
  BY <1>1 DEF AnswersTo
<1>4. Slot(r)' = [Slot(r) EXCEPT !.life = "closed"]
  <2>. DEFINE shown == {<<b, answers[b].solver>> : b \in AnswersTo(r)}
  <2>1. Slot(r) = [life |-> requests[r].status, asker |-> requests[r].client,
                   answers |-> shown, accepted |-> requests[r].accepted]
    BY <1>1 DEF Slot
  <2>2. Slot(r)' = [life |-> "closed", asker |-> requests[r].client,
                    answers |-> shown', accepted |-> requests[r].accepted]
    BY <1>1, <1>2 DEF Slot
  <2>3. shown' = shown
    BY <1>1, <1>3
  <2>. HIDE DEF shown
  <2>. QED
    BY <2>1, <2>2, <2>3
<1>5. Slots' = [Slots EXCEPT ![r].life = "closed"]
  BY <1>1, <1>2, <1>4, UpdateOnBoard DEF Slots
<1>6. Slots[r].life = "open"
  BY <1>1, SlotOfRow DEF Slots
<1>. QED
  BY <1>1, <1>5, <1>6 DEF Board!Close, Slots

LEMMA ToggleOnBoard ==
  ASSUME Consistent, NEW a \in Answers, NEW v \in Clients, Toggle(a, v)
  PROVE  Board!Toggle(a, v)
<1>1. /\ a \in DOMAIN answers /\ UNCHANGED <<requests, answers, drawn>>
      /\ votes' = IF <<a, v>> \in votes THEN votes \ {<<a, v>>}
                  ELSE votes \cup {<<a, v>>}
  BY DEF Toggle
<1>2. /\ answers[a].request \in Requests /\ answers[a].request \in DOMAIN requests
      /\ a \in AnswersTo(answers[a].request)
  BY <1>1 DEF Consistent, RowsOK, ReferentialIntegrity, AnswersTo
<1>3. \E r \in Requests : a \in Board!Shown(r)
  BY <1>2, SlotOfRow
<1>4. \A r \in Requests : Slot(r)' = Slot(r)
  BY <1>1 DEF Slot, AnswersTo
<1>5. [r \in Requests |-> Slot(r)]' = [r \in Requests |-> Slot(r)]
  BY <1>4
<1>. QED
  BY <1>1, <1>3, <1>5 DEF Board!Toggle

(* Rows that go take on the board what the foreign keys take in the tables. *)
LEMMA DropOnBoard ==
  ASSUME Consistent, NEW R \in SUBSET Requests, R \subseteq DOMAIN requests,
         DeleteRows(R), UNCHANGED drawn
  PROVE  Board!Drop(R)
<1>1. /\ DOMAIN requests' = DOMAIN requests \ R
      /\ \A r \in DOMAIN requests' : requests'[r] = requests[r]
      /\ DOMAIN answers' = {a \in DOMAIN answers : answers[a].request \notin R}
      /\ \A a \in DOMAIN answers' : answers'[a] = answers[a]
      /\ votes' = {v \in votes : v[1] \in DOMAIN answers'}
  BY DeleteRowsLeaves
<1>2. ASSUME NEW r \in R  PROVE Slot(r)' = Board!Gone
  <2>1. r \in drawn' /\ r \notin DOMAIN requests'
    BY <1>1 DEF Consistent, RowsOK
  <2>. QED
    BY <2>1 DEF Slot, Board!Gone, Board!Unasked
<1>3. ASSUME NEW r \in Requests \ R  PROVE Slot(r)' = Slot(r)
  <2>1. AnswersTo(r)' = AnswersTo(r)
    BY <1>1 DEF AnswersTo
  <2>2. \A a \in AnswersTo(r) : answers'[a] = answers[a]
    BY <1>1, <2>1 DEF AnswersTo
  <2>3. {<<a, answers[a].solver>> : a \in AnswersTo(r)}'
          = {<<a, answers[a].solver>> : a \in AnswersTo(r)}
    BY <2>1, <2>2
  <2>4. /\ r \in DOMAIN requests' <=> r \in DOMAIN requests
        /\ r \in DOMAIN requests => requests'[r] = requests[r]
    BY <1>1
  <2>. QED
    BY <2>3, <2>4 DEF Slot
<1>4. Slots' = [r \in Requests |-> IF r \in R THEN Board!Gone ELSE Slots[r]]
  BY <1>2, <1>3 DEF Slots
<1>5. ASSUME NEW v \in votes
      PROVE  v[1] \in DOMAIN answers' <=> \A r \in R : v[1] \notin Board!Shown(r)
  <2>1. v[1] \in DOMAIN answers
    BY DEF Consistent, ReferentialIntegrity
  <2>2. \A r \in R : Board!Shown(r) = AnswersTo(r)
    BY SlotOfRow
  <2>. QED
    BY <1>1, <2>1, <2>2 DEF AnswersTo
<1>6. votes' = {v \in votes : \A r \in R : v[1] \notin Board!Shown(r)}
  BY <1>1, <1>5
<1>. QED
  BY <1>4, <1>6 DEF Board!Drop, Slots

LEMMA DeleteOnBoard ==
  ASSUME Consistent, NEW r \in Requests, r \in DOMAIN requests, DeleteWithFiles(r)
  PROVE  Board!Delete(r)
<1>1. Board!Drop({r})
  BY DropOnBoard DEF DeleteWithFiles
<1>2. requests[r].status \in {"open", "closed"}
  BY DEF Consistent, RowsOK, RequestRow
<1>3. Slots[r].life \in {"open", "closed"}
  BY <1>2, SlotOfRow DEF Slots
<1>. QED
  BY <1>1, <1>3 DEF Board!Delete, Slots

LEMMA SweepOnBoard ==
  ASSUME Consistent, PruneOldClosed, UNCHANGED drawn
  PROVE  Board!Next
<1>. DEFINE R == {r \in old : r \in DOMAIN requests /\ requests[r].status = "closed"}
<1>1. DeleteRows(R)
  BY DEF PruneOldClosed
<1>2. R \in SUBSET Requests /\ R \subseteq DOMAIN requests
  BY DEF Consistent, RowsOK
<1>3. \A r \in R : Slots[r].life = "closed"
  BY <1>2, SlotOfRow DEF Slots
<1>. HIDE DEF R
<1>4. Board!Drop(R)
  BY <1>1, <1>2, DropOnBoard
<1>5. Board!Sweep(R)
  BY <1>3, <1>4 DEF Board!Sweep, Slots
<1>. QED
  BY <1>2, <1>5 DEF Board!Next

LEMMA BoardStep ==
  ASSUME Consistent, ControlOK, [Next]_vars
  PROVE  [Board!Next]_(Board!vars)
<1>. USE DEF tables, events, ghosts
<1>1. ASSUME UNCHANGED <<requests, answers, votes, drawn>>
      PROVE  UNCHANGED Board!vars
  BY <1>1, SlotsSame
<1>2. ASSUME NEW r \in Requests, NEW c \in Clients, CreateRequest(r, c)
      PROVE  Board!Next
  BY <1>2, AskOnBoard DEF CreateRequest, Board!Next
<1>3. ASSUME NEW r \in Requests, NEW a \in Answers, NEW c \in Clients, CreateAnswer(r, a, c)
      PROVE  Board!Next
  BY <1>3, AnswerOnBoard DEF CreateAnswer, Board!Next
<1>4. ASSUME NEW r \in Requests, NEW a \in Answers, NEW c \in Clients, AcceptAnswer(r, a, c)
      PROVE  Board!Next
  BY <1>4, AcceptOnBoard DEF AcceptAnswer, Board!Next
<1>5. ASSUME NEW r \in Requests, CloseRequest(r)  PROVE Board!Next
  BY <1>5, CloseOnBoard DEF CloseRequest, Board!Next
<1>6. ASSUME NEW r \in Requests, DeleteRequest(r)  PROVE Board!Next
  BY <1>6, DeleteOnBoard DEF DeleteRequest, Board!Next
<1>7. ASSUME NEW a \in Answers, NEW v \in Clients, ToggleVote(a, v)  PROVE Board!Next
  BY <1>7, ToggleOnBoard DEF ToggleVote, Board!Next
<1>8. ASSUME NEW r \in Requests, GrowOld(r)  PROVE UNCHANGED Board!vars
  BY <1>1, <1>8 DEF GrowOld
<1>9. ASSUME NEW f \in Files, NEW o, AddAttachment(f, o)  PROVE UNCHANGED Board!vars
  <2>1. UNCHANGED <<requests, answers, votes>> /\ drawn' = drawn \cup {f}
    BY <1>9 DEF AddAttachment, Draw
  <2>2. drawn' \cap (Requests \cup Answers) = drawn \cap (Requests \cup Answers)
    BY <2>1, IdAssumption
  <2>. QED
    BY <2>1, <2>2, SlotsSame
<1>10. ASSUME NEW f \in Files, NEW o \in Requests \cup Answers,
              Upload(f, o) \/ BeginUpload(f, o)
       PROVE  UNCHANGED Board!vars
  BY <1>1, <1>9, <1>10 DEF Upload, BeginUpload
<1>11. ASSUME NEW u \in uploads, EndUpload(u) \/ RefuseUpload(u)
       PROVE  UNCHANGED Board!vars
  <2>1. u.file \in Files
    BY DEF ControlOK
  <2>. QED
    BY <1>1, <1>9, <1>11, <2>1 DEF EndUpload, RefuseUpload
<1>12. CASE Prune \/ Boot
  BY <1>1, <1>12, SweepOnBoard DEF Prune, Boot
<1>13. CASE AppendEvent \/ TrimEvents \/ Kill \/ UNCHANGED vars
  BY <1>1, <1>13 DEF AppendEvent, TrimEvents, Kill, vars
<1>. QED
  BY <1>2, <1>3, <1>4, <1>5, <1>6, <1>7, <1>8, <1>10, <1>11, <1>12, <1>13 DEF Next

(* Whatever is killed, pruned and restarted, the tables move as a board    *)
(* does: every transaction is one legal move on it, or none (db.py:23-213, *)
(* 473-480).                                                               *)
THEOREM ServerImplementsBoard == Spec => BoardSpec
<1>1. Init => Board!Init
  <2>. SUFFICES ASSUME Init  PROVE Board!Init
    OBVIOUS
  <2>1. requests = << >> /\ votes = {} /\ drawn = {}
    BY DEF Init
  <2>2. \A r \in Requests : Slot(r) = Board!Unasked
    BY <2>1 DEF Slot, Board!Unasked
  <2>. QED
    BY <2>1, <2>2 DEF Board!Init
<1>2. Inv /\ [Next]_vars => [Board!Next]_(Board!vars)
  BY BoardStep DEF Inv
<1>. QED
  BY <1>1, <1>2, InvAlways, PTL DEF Spec, BoardSpec, Board!Spec

-----------------------------------------------------------------------------
(* The events table is what the streams were proved on.                    *)

(* Both modules trim the same way.                                         *)
LEMMA SameTrim == ASSUME NEW ids, NEW keep  PROVE Stream!Trimmed(ids, keep) = Trimmed(ids, keep)
<1>1. \A S : Stream!Cardinality(S) = Cardinality(S)
  BY DEF Stream!Cardinality, Cardinality
<1>2. Stream!Newest(ids, keep) = Newest(ids, keep)
  BY <1>1 DEF Stream!Newest, Newest
<1>. QED
  BY <1>2 DEF Stream!Trimmed, Trimmed

LEMMA StreamStep ==
  ASSUME ControlOK, [Next]_vars
  PROVE  [Stream!Next]_(Stream!vars)
<1>. USE DEF tables, events, ghosts
<1>1. ASSUME UNCHANGED <<seq, table, up, kills>>,
             job'.at = "trim" <=> job.at = "trim"
      PROVE  UNCHANGED Stream!vars
  <2>1. (job.at = "trim")' = (job.at = "trim")
    BY <1>1
  <2>. QED
    BY <1>1, <2>1 DEF Stream!vars
<1>2. ASSUME NEW e, Start(e)  PROVE UNCHANGED Stream!vars
  BY <1>1, <1>2 DEF Start, Idle
<1>3. CASE AppendEvent
  <2>1. job # Idle
    BY <1>3 DEF AppendEvent, Idle
  <2>2. seq < MaxEvents
    BY <1>3, <2>1 DEF ControlOK, JobOK, AppendEvent
  <2>3. (job.at = "trim")' = TRUE /\ ~(job.at = "trim")
    BY <1>3, <2>1 DEF AppendEvent, ControlOK, JobOK
  <2>4. Stream!AppendEvent
    BY <1>3, <2>2, <2>3 DEF AppendEvent, Stream!AppendEvent, Stream!client
  <2>. QED
    BY <2>4 DEF Stream!Next
<1>4. CASE TrimEvents
  <2>1. (job.at = "trim")' = FALSE /\ job.at = "trim"
    BY <1>4 DEF TrimEvents, Idle
  <2>2. Stream!TrimEvents
    <3>1. [c \in {} |-> None]' = [c \in {} |-> [d \in {} |-> None][c]
                                    \cup Stream!MissedBy(c, table \ table')]
      OBVIOUS
    <3>. QED
      BY <1>4, <2>1, <3>1, SameTrim DEF TrimEvents, Stream!TrimEvents, Stream!client
  <2>. QED
    BY <2>2 DEF Stream!Next
<1>5. CASE Kill
  <2>1. (job.at = "trim")' = FALSE
    BY <1>5 DEF Kill, Idle
  <2>2. Stream!Kill
    BY <1>5, <2>1 DEF Kill, Stream!Kill, Stream!Fail, Stream!client
  <2>. QED
    BY <2>2 DEF Stream!Next
<1>6. CASE Boot
  <2>1. Stream!Boot
    BY <1>6 DEF Boot, Stream!Boot, Stream!client
  <2>. QED
    BY <2>1 DEF Stream!Next
<1>7. CASE Prune
  BY <1>1, <1>7 DEF Prune, Idle
<1>8. ASSUME NEW f \in Files, NEW o \in Requests \cup Answers,
             Upload(f, o) \/ BeginUpload(f, o)
      PROVE  UNCHANGED Stream!vars
  BY <1>1, <1>8 DEF Upload, BeginUpload
<1>9. ASSUME NEW u \in uploads, EndUpload(u) \/ RefuseUpload(u)
      PROVE  UNCHANGED Stream!vars
  BY <1>1, <1>9 DEF EndUpload, RefuseUpload
<1>10. ASSUME NEW r \in Requests, GrowOld(r)  PROVE UNCHANGED Stream!vars
  BY <1>1, <1>10 DEF GrowOld
<1>11. CASE UNCHANGED vars
  BY <1>1, <1>11 DEF vars
<1>. QED
  BY <1>2, <1>3, <1>4, <1>5, <1>6, <1>7, <1>8, <1>9, <1>10, <1>11
     DEF Next, CreateRequest, CreateAnswer, AcceptAnswer, CloseRequest,
         DeleteRequest, ToggleVote

(* The handlers treat the events table as EventStream says a server does,  *)
(* so that what is proved of its streams and EventSources is proved of     *)
(* these handlers' events (db.py:251-292).                                 *)
THEOREM ServerFeedsStreams == Spec => StreamSpec
<1>1. Init => Stream!Init
  BY DEF Init, Stream!Init, Idle
<1>2. Inv /\ [Next]_vars => [Stream!Next]_(Stream!vars)
  BY StreamStep DEF Inv
<1>. QED
  BY <1>1, <1>2, InvAlways, PTL DEF Spec, StreamSpec, Stream!Spec
=============================================================================
