---------------------------- MODULE EventLogProofs --------------------------
(***************************************************************************)
(* What a step of the server does to the rows of requests, to the running  *)
(* handler and to the payloads of its events.                              *)
(***************************************************************************)
EXTENDS EventLog, AidServerProofs, EventTableProofs, SequenceTheorems

(* The log of payloads.                                                    *)
LogOK == log \in Seq(Events) /\ Len(log) = seq

LEMMA LogStep ==
  ASSUME Inv, LogOK, LogNext
  PROVE  /\ LogOK' /\ seq <= seq' /\ seq' \in Nat
         /\ \A i \in 1..seq : log'[i] = log[i]
         /\ \A i \in 1..seq' : i \in 1..seq \/ (job # Idle /\ log'[i] = job.event)
<1>0. seq \in Nat /\ Next
  BY LimitAssumption DEF Inv, ControlOK, LogNext
<1>1. CASE AppendEvent
  <2>1. job.at = "append" /\ seq' = seq + 1
    BY <1>1 DEF AppendEvent
  <2>2. job # Idle /\ job.event \in Events
    BY <2>1 DEF Inv, ControlOK, JobOK, Idle
  <2>3. log' = Append(log, job.event)
    BY <1>0, <2>1 DEF LogNext
  <2>4. /\ log' \in Seq(Events) /\ Len(log') = seq + 1
        /\ \A i \in 1..seq : log'[i] = log[i]
        /\ log'[seq + 1] = job.event
    BY <1>0, <2>2, <2>3, AppendProperties DEF LogOK
  <2>. QED
    BY <1>0, <2>1, <2>2, <2>4 DEF LogOK
<1>2. CASE ~AppendEvent
  <2>1. seq' = seq
    BY <1>0, <1>2 DEF Next, CreateRequest, CreateAnswer, AcceptAnswer, CloseRequest,
       DeleteRequest, GrowOld, ToggleVote, Upload, BeginUpload, EndUpload, RefuseUpload,
       TrimEvents, Prune, Kill, Boot, Start, events
  <2>2. log' = log
    BY <1>0, <2>1 DEF LogNext
  <2>. QED
    BY <1>0, <2>1, <2>2 DEF LogOK
<1>. QED
  BY <1>1, <1>2

(* A request's row keeps its client, and only create_request makes one.    *)
LEMMA RequestsStep ==
  ASSUME Inv, Next
  PROVE  /\ drawn \subseteq drawn'
         /\ \A r \in DOMAIN requests' :
              \/ r \in DOMAIN requests /\ requests'[r].client = requests[r].client
              \/ \E c \in Clients : CreateRequest(r, c) /\ requests'[r].client = c
<1>. USE DEF tables, events, ghosts
<1>. DEFINE Kept == /\ drawn \subseteq drawn'
                    /\ \A r \in DOMAIN requests' :
                         r \in DOMAIN requests /\ requests'[r].client = requests[r].client
<1>0. Consistent /\ RowsOK
  BY DEF Inv, Consistent
<1>1. ASSUME requests' = requests, drawn \subseteq drawn'  PROVE Kept
  BY <1>1
<1>2. ASSUME NEW r \in Requests, NEW c \in Clients, CreateRequest(r, c)
      PROVE  /\ drawn \subseteq drawn'
             /\ \A q \in DOMAIN requests' :
                  \/ q \in DOMAIN requests /\ requests'[q].client = requests[q].client
                  \/ CreateRequest(q, c) /\ requests'[q].client = c
  BY <1>2 DEF CreateRequest, InsertRequest, Draw, Put
<1>3. ASSUME NEW r \in Requests, NEW a \in Answers, NEW c \in Clients, CreateAnswer(r, a, c)
      PROVE  Kept
  BY <1>1, <1>3 DEF CreateAnswer, InsertAnswer, Draw
<1>4. ASSUME NEW r \in Requests, NEW a \in Answers, NEW c \in Clients, AcceptAnswer(r, a, c)
      PROVE  Kept
  <2>1. /\ r \in DOMAIN requests /\ requests[r] \in RequestRow /\ drawn' = drawn
        /\ requests' = [requests EXCEPT ![r].accepted = a]
    BY <1>0, <1>4 DEF AcceptAnswer, SetAccepted, RowsOK
  <2>. QED
    BY <2>1 DEF RequestRow
<1>5. ASSUME NEW r \in Requests, CloseRequest(r)  PROVE Kept
  <2>1. /\ r \in DOMAIN requests /\ requests[r] \in RequestRow /\ drawn' = drawn
        /\ requests' = [requests EXCEPT ![r].status = "closed"]
    BY <1>0, <1>5 DEF CloseRequest, MarkClosed, RowsOK
  <2>. QED
    BY <2>1 DEF RequestRow
<1>6. ASSUME NEW R, DeleteRows(R), drawn' = drawn  PROVE Kept
  BY <1>0, <1>6, DeleteRowsLeaves
<1>7. ASSUME NEW r \in Requests, DeleteRequest(r)  PROVE Kept
  BY <1>6, <1>7 DEF DeleteRequest, DeleteWithFiles
<1>8. ASSUME PruneOldClosed, drawn' = drawn  PROVE Kept
  BY <1>6, <1>8 DEF PruneOldClosed
<1>9. ASSUME NEW a \in Answers, NEW v \in Clients, ToggleVote(a, v)  PROVE Kept
  BY <1>1, <1>9 DEF ToggleVote, Toggle
<1>10. ASSUME NEW r \in Requests, GrowOld(r)  PROVE Kept
  BY <1>1, <1>10 DEF GrowOld
<1>11. ASSUME NEW f \in Files, NEW o \in Requests \cup Answers, Upload(f, o) \/ BeginUpload(f, o)
       PROVE  Kept
  BY <1>1, <1>11 DEF Upload, BeginUpload, AddAttachment, Draw
<1>12. ASSUME NEW u \in uploads, EndUpload(u) \/ RefuseUpload(u)  PROVE Kept
  BY <1>1, <1>12 DEF EndUpload, RefuseUpload, AddAttachment, Draw
<1>13. CASE AppendEvent \/ TrimEvents \/ Kill
  BY <1>1, <1>13 DEF AppendEvent, TrimEvents, Kill
<1>14. CASE Prune \/ Boot
  BY <1>1, <1>8, <1>14 DEF Prune, Boot
<1>. QED
  BY <1>2, <1>3, <1>4, <1>5, <1>7, <1>9, <1>10, <1>11, <1>12, <1>13, <1>14 DEF Next

(* What the running handler may become.                                    *)
LEMMA JobStep ==
  ASSUME Inv, Next
  PROVE  \/ job' = Idle
         \/ job # Idle /\ job'.event = job.event
         \/ \E r \in Requests, c \in Clients : CreateRequest(r, c) /\ job'.event = Created(r, c)
         \/ job'.event.kind # "request.created"
<1>1. ASSUME NEW e, Start(e)  PROVE job'.event = e
  BY <1>1 DEF Start
<1>2. ASSUME NEW r \in Requests, NEW c \in Clients, CreateRequest(r, c)
      PROVE  job'.event = Created(r, c)
  BY <1>1, <1>2 DEF CreateRequest
<1>3. ASSUME NEW r \in Requests, NEW a \in Answers, NEW c \in Clients,
             CreateAnswer(r, a, c) \/ AcceptAnswer(r, a, c)
      PROVE  job'.event.kind # "request.created"
  BY <1>1, <1>3 DEF CreateAnswer, AcceptAnswer, Answered, Accepted
<1>4. ASSUME NEW r \in Requests, CloseRequest(r) \/ DeleteRequest(r)
      PROVE  job'.event.kind # "request.created"
  BY <1>1, <1>4 DEF CloseRequest, DeleteRequest, ClosedEvent, Deleted
<1>5. ASSUME NEW a \in Answers, NEW v \in Clients, ToggleVote(a, v)
      PROVE  job'.event.kind # "request.created"
  BY <1>1, <1>5 DEF ToggleVote, Voted
<1>6. ASSUME job' = job  PROVE job' = Idle \/ (job # Idle /\ job'.event = job.event)
  BY <1>6
<1>7. ASSUME NEW r \in Requests, GrowOld(r)  PROVE job' = job
  BY <1>7 DEF GrowOld
<1>8. ASSUME NEW f \in Files, NEW o \in Requests \cup Answers, Upload(f, o) \/ BeginUpload(f, o)
      PROVE  job' = job
  BY <1>8 DEF Upload, BeginUpload
<1>9. ASSUME NEW u \in uploads, EndUpload(u) \/ RefuseUpload(u)  PROVE job' = job
  BY <1>9 DEF EndUpload, RefuseUpload
<1>10. CASE AppendEvent \/ TrimEvents
  <2>1. job # Idle
    BY <1>10 DEF AppendEvent, TrimEvents, Idle
  <2>2. PICK at \in {"append", "trim", "prune"}, e \in Events : job = [at |-> at, event |-> e]
    BY <2>1 DEF Inv, ControlOK, JobOK
  <2>3. job' = Idle \/ \E x \in {"trim", "prune"} : job' = [job EXCEPT !.at = x]
    BY <1>10 DEF AppendEvent, TrimEvents
  <2>. QED
    BY <2>1, <2>2, <2>3
<1>11. CASE Prune \/ Kill
  BY <1>11 DEF Prune, Kill
<1>12. CASE Boot
  BY <1>6, <1>12 DEF Boot
<1>. QED
  BY <1>2, <1>3, <1>4, <1>5, <1>6, <1>7, <1>8, <1>9, <1>10, <1>11, <1>12 DEF Next

(* A handler with an event still to append has just started, or waits.     *)
LEMMA PendingJob ==
  ASSUME Inv, Next, job'.at = "append"
  PROVE  /\ seq' = seq
         /\ \/ job' = job
            \/ \E r \in Requests, c \in Clients :
                 CreateRequest(r, c) /\ job'.event = Created(r, c)
            \/ \E r \in Requests, a \in Answers, c \in Clients :
                 CreateAnswer(r, a, c) /\ job'.event = Answered(r, a)
            \/ \E r \in Requests, a \in Answers, c \in Clients :
                 AcceptAnswer(r, a, c) /\ job'.event = Accepted(r, a)
            \/ \E r \in Requests : CloseRequest(r) /\ job'.event = ClosedEvent(r)
            \/ \E r \in Requests : DeleteRequest(r) /\ job'.event = Deleted(r)
            \/ \E a \in Answers, v \in Clients :
                 /\ ToggleVote(a, v)
                 /\ job'.event = Voted(answers[a].request, a, VoteCount(a)')
<1>. USE DEF tables, events, ghosts
<1>1. ASSUME NEW e, Start(e)  PROVE seq' = seq /\ job'.event = e
  BY <1>1 DEF Start
<1>2. CASE \E r \in Requests, c \in Clients : CreateRequest(r, c)
  BY <1>1, <1>2 DEF CreateRequest
<1>3. CASE \E r \in Requests, a \in Answers, c \in Clients : CreateAnswer(r, a, c)
  BY <1>1, <1>3 DEF CreateAnswer
<1>4. CASE \E r \in Requests, a \in Answers, c \in Clients : AcceptAnswer(r, a, c)
  BY <1>1, <1>4 DEF AcceptAnswer
<1>5. CASE \E r \in Requests : CloseRequest(r)
  BY <1>1, <1>5 DEF CloseRequest
<1>6. CASE \E r \in Requests : DeleteRequest(r)
  BY <1>1, <1>6 DEF DeleteRequest
<1>7. CASE \E a \in Answers, v \in Clients : ToggleVote(a, v)
  BY <1>1, <1>7 DEF ToggleVote
<1>8. CASE \/ \E r \in Requests : GrowOld(r)
           \/ \E f \in Files, o \in Requests \cup Answers : Upload(f, o) \/ BeginUpload(f, o)
           \/ \E u \in uploads : EndUpload(u) \/ RefuseUpload(u)
           \/ Boot
  BY <1>8 DEF GrowOld, Upload, BeginUpload, EndUpload, RefuseUpload, Boot
<1>9. CASE Prune \/ Kill
  BY <1>9 DEF Prune, Kill, Idle
<1>10. CASE AppendEvent \/ TrimEvents
  <2>1. job # Idle
    BY <1>10 DEF AppendEvent, TrimEvents, Idle
  <2>2. PICK at \in {"append", "trim", "prune"}, e \in Events : job = [at |-> at, event |-> e]
    BY <2>1 DEF Inv, ControlOK, JobOK
  <2>. QED
    BY <1>10, <2>2 DEF AppendEvent, TrimEvents, Idle
<1>. QED
  BY <1>2, <1>3, <1>4, <1>5, <1>6, <1>7, <1>8, <1>9, <1>10 DEF Next

(* Only create_request makes an event of that kind.                        *)
LEMMA CreationIs ==
  ASSUME NEW e \in Events, e.kind = "request.created"
  PROVE  \E r \in Requests, c \in Clients : e = Created(r, c)
<1>1. e \notin {Voted(r, a, n) : r \in Requests, a \in Answers, n \in Nat}
  BY DEF Voted
<1>2. e \notin {Answered(r, a) : r \in Requests, a \in Answers}
  BY DEF Answered
<1>3. e \notin {Accepted(r, a) : r \in Requests, a \in Answers}
  BY DEF Accepted
<1>4. e \notin {ClosedEvent(r) : r \in Requests} \cup {Deleted(r) : r \in Requests}
  BY DEF ClosedEvent, Deleted
<1>. QED
  BY <1>1, <1>2, <1>3, <1>4 DEF Events

-----------------------------------------------------------------------------
(* The events of a request: its id has been drawn, and its deletion is the *)
(* last of them.                                                           *)

AllDrawn == /\ \A i \in 1..seq : log[i].request \in drawn
            /\ job.at = "append" => job.event.request \in drawn

Last(r) == /\ r \notin DOMAIN requests
           /\ job.at = "append" => job.event.request # r

Final ==
  /\ \A i \in 1..seq : log[i].kind = "request.deleted" => Last(log[i].request)
  /\ \A i, j \in 1..seq :
       log[i].kind = "request.deleted" /\ log[j].request = log[i].request => j <= i
  /\ job.at = "append" /\ job.event.kind = "request.deleted" =>
       job.event.request \notin DOMAIN requests

(* A handler's event is about a request that existed when it started, or a *)
(* new one; after its deletion there is no such request.                   *)
LEMMA PendingAbout ==
  ASSUME Inv, Next, job'.at = "append", job' # job
  PROVE  /\ job'.event.request \in drawn'
         /\ job'.event.request \in DOMAIN requests \/ job'.event.request \notin drawn
         /\ job'.event.kind = "request.deleted" => job'.event.request \notin DOMAIN requests'
<1>. USE DEF tables, events, ghosts
<1>0. /\ DOMAIN requests \subseteq drawn /\ drawn \subseteq drawn'
      /\ \A a \in DOMAIN answers : answers[a].request \in DOMAIN requests
      /\ Consistent
  BY RequestsStep DEF Inv, Consistent, RowsOK, ReferentialIntegrity
<1>1. ASSUME NEW r \in Requests, NEW c \in Clients, CreateRequest(r, c),
             job'.event = Created(r, c)
      PROVE  r \in drawn' /\ r \notin drawn /\ job'.event.request = r
             /\ job'.event.kind = "request.created"
  BY <1>1 DEF CreateRequest, InsertRequest, Draw, Created
<1>2. ASSUME NEW r \in Requests, NEW a \in Answers, NEW c \in Clients,
             \/ CreateAnswer(r, a, c) /\ job'.event = Answered(r, a)
             \/ AcceptAnswer(r, a, c) /\ job'.event = Accepted(r, a)
      PROVE  /\ r \in DOMAIN requests /\ job'.event.request = r
             /\ job'.event.kind # "request.deleted"
  BY <1>2 DEF CreateAnswer, AcceptAnswer, SetAccepted, Answered, Accepted
<1>3. ASSUME NEW r \in Requests, CloseRequest(r), job'.event = ClosedEvent(r)
      PROVE  /\ r \in DOMAIN requests /\ job'.event.request = r
             /\ job'.event.kind # "request.deleted"
  BY <1>3 DEF CloseRequest, ClosedEvent
<1>4. ASSUME NEW r \in Requests, DeleteRequest(r), job'.event = Deleted(r)
      PROVE  r \in DOMAIN requests /\ job'.event.request = r /\ r \notin DOMAIN requests'
  <2>1. r \in DOMAIN requests /\ DeleteRows({r})
    BY <1>4 DEF DeleteRequest, DeleteWithFiles
  <2>2. DOMAIN requests' = DOMAIN requests \ {r}
    BY <1>0, <2>1, DeleteRowsLeaves
  <2>. QED
    BY <1>4, <2>1, <2>2 DEF Deleted
<1>5. ASSUME NEW a \in Answers, NEW v \in Clients, ToggleVote(a, v),
             job'.event = Voted(answers[a].request, a, VoteCount(a)')
      PROVE  /\ job'.event.request \in DOMAIN requests
             /\ job'.event.kind # "request.deleted"
  BY <1>0, <1>5 DEF ToggleVote, Toggle, Voted
<1>. QED
  BY <1>0, <1>1, <1>2, <1>3, <1>4, <1>5, PendingJob

LEMMA FinalStep ==
  ASSUME Inv, LogOK, AllDrawn, Final, LogNext
  PROVE  AllDrawn' /\ Final'
<1>0. /\ Next /\ drawn \subseteq drawn' /\ seq \in Nat
      /\ DOMAIN requests \subseteq drawn
  BY RequestsStep, LimitAssumption DEF LogNext, Inv, ControlOK, Consistent, RowsOK
(* A request that is gone does not come back: its id is drawn.             *)
<1>1. ASSUME NEW r \in drawn, r \notin DOMAIN requests  PROVE r \notin DOMAIN requests'
  <2>1. \A c : ~CreateRequest(r, c)
    BY <1>1 DEF CreateRequest, InsertRequest, Draw
  <2>. QED
    BY <1>0, <1>1, <2>1, RequestsStep
<1>2. CASE AppendEvent
  <2>1. job.at = "append" /\ seq' = seq + 1 /\ job # Idle
    BY <1>2 DEF AppendEvent, Idle
  <2>2. /\ \A i \in 1..seq : log'[i] = log[i]
        /\ \A i \in 1..seq' : i \in 1..seq \/ (i = seq' /\ log'[i] = job.event)
    BY <1>0, <2>1, LogStep
  <2>3. job'.at # "append"
    BY <2>1, PendingJob, <1>0
  <2>4. ASSUME NEW i \in 1..seq'  PROVE log'[i].request \in drawn'
    BY <1>0, <2>1, <2>2 DEF AllDrawn
  <2>5. ASSUME NEW i \in 1..seq', log'[i].kind = "request.deleted"
        PROVE  log'[i].request \notin DOMAIN requests'
    <3>1. CASE i \in 1..seq
      BY <1>1, <2>2, <2>5, <3>1 DEF AllDrawn, Final, Last
    <3>2. CASE i = seq' /\ log'[i] = job.event
      BY <1>1, <2>1, <2>5, <3>2 DEF AllDrawn, Final
    <3>. QED
      BY <2>2, <3>1, <3>2
  <2>6. ASSUME NEW i \in 1..seq', NEW j \in 1..seq', log'[i].kind = "request.deleted",
               log'[j].request = log'[i].request
        PROVE  j <= i
    <3>1. CASE i \in 1..seq /\ j \in 1..seq
      BY <2>2, <2>6, <3>1 DEF Final
    <3>2. CASE i \in 1..seq /\ log'[j] = job.event
      BY <2>1, <2>2, <2>6, <3>2 DEF Final, Last
    <3>3. CASE i = seq'
      BY <1>0, <2>1, <3>3
    <3>. QED
      BY <2>2, <3>1, <3>2, <3>3
  <2>. QED
    BY <2>3, <2>4, <2>5, <2>6 DEF AllDrawn, Final, Last
<1>3. CASE ~AppendEvent
  <2>1. seq' = seq
    BY <1>0, <1>3 DEF Next, CreateRequest, CreateAnswer, AcceptAnswer, CloseRequest,
       DeleteRequest, GrowOld, ToggleVote, Upload, BeginUpload, EndUpload, RefuseUpload,
       TrimEvents, Prune, Kill, Boot, Start, events
  <2>2. log' = log
    BY <1>0, <2>1 DEF LogNext
  <2>3. job'.at = "append" => job'.event.request \in drawn'
    BY <1>0, PendingAbout DEF AllDrawn
  <2>4. ASSUME NEW i \in 1..seq, log[i].kind = "request.deleted"
        PROVE  Last(log[i].request)'
    <3>1. PICK r \in drawn : r = log[i].request
      BY DEF AllDrawn
    <3>2. r \notin DOMAIN requests /\ r \notin DOMAIN requests'
      BY <1>1, <2>4, <3>1 DEF Final, Last
    <3>3. ASSUME job'.at = "append"  PROVE job'.event.request # r
      <4>1. CASE job' = job
        BY <2>4, <3>1, <3>3, <4>1 DEF Final, Last
      <4>2. CASE job' # job
        BY <1>0, <3>1, <3>2, <3>3, <4>2, PendingAbout
      <4>. QED
        BY <4>1, <4>2
    <3>. QED
      BY <2>2, <3>1, <3>2, <3>3 DEF Last
  <2>5. ASSUME job'.at = "append", job'.event.kind = "request.deleted"
        PROVE  job'.event.request \notin DOMAIN requests'
    <3>1. CASE job' = job
      BY <1>1, <2>5, <3>1 DEF AllDrawn, Final
    <3>2. CASE job' # job
      BY <1>0, <2>5, <3>2, PendingAbout
    <3>. QED
      BY <3>1, <3>2
  <2>. QED
    BY <1>0, <2>1, <2>2, <2>3, <2>4, <2>5 DEF AllDrawn, Final
<1>. QED
  BY <1>2, <1>3

-----------------------------------------------------------------------------
(* Nothing is announced as made twice, because its uuid is new when the    *)
(* handler draws it.                                                       *)

Creation(e) == e.kind \in {"request.created", "answer.created"}

Subject(e) == IF e.kind = "request.created" THEN e.request ELSE e.answer

Pending == job.at = "append" /\ Creation(job.event)

Once ==
  /\ \A i \in 1..seq : Creation(log[i]) => Subject(log[i]) \in drawn
  /\ \A i, j \in 1..seq : Creation(log[i]) /\ log[i] = log[j] => i = j
  /\ Pending => Subject(job.event) \in drawn /\ \A i \in 1..seq : log[i] # job.event

(* A creation that becomes pending has a new subject.                      *)
LEMMA PendingStep ==
  ASSUME Inv, Next, Pending'
  PROVE  /\ seq' = seq
         /\ job' = job \/ Subject(job'.event) \in drawn' \ drawn
<1>1. job'.at = "append" /\ Creation(job'.event)
  BY DEF Pending
<1>2. ASSUME NEW r \in Requests, NEW c \in Clients, CreateRequest(r, c),
             job'.event = Created(r, c)
      PROVE  Subject(job'.event) \in drawn' \ drawn
  BY <1>2 DEF CreateRequest, InsertRequest, Draw, Created, Subject
<1>3. ASSUME NEW r \in Requests, NEW a \in Answers, NEW c \in Clients, CreateAnswer(r, a, c),
             job'.event = Answered(r, a)
      PROVE  Subject(job'.event) \in drawn' \ drawn
  BY <1>3 DEF CreateAnswer, InsertAnswer, Draw, Answered, Subject
<1>4. /\ \A r, a : ~Creation(Accepted(r, a))
      /\ \A r : ~Creation(ClosedEvent(r)) /\ ~Creation(Deleted(r))
      /\ \A r, a, n : ~Creation(Voted(r, a, n))
  BY DEF Creation, Accepted, ClosedEvent, Deleted, Voted
<1>. QED
  BY <1>1, <1>2, <1>3, <1>4, PendingJob

LEMMA OnceStep ==
  ASSUME Inv, LogOK, Once, LogNext
  PROVE  Once'
<1>0. Next /\ drawn \subseteq drawn' /\ seq \in Nat
  BY RequestsStep, LimitAssumption DEF LogNext, Inv, ControlOK
<1>1. CASE AppendEvent
  <2>1. job.at = "append" /\ seq' = seq + 1
    BY <1>1 DEF AppendEvent
  <2>2. /\ \A i \in 1..seq : log'[i] = log[i]
        /\ \A i \in 1..seq' : i \in 1..seq \/ (i = seq' /\ log'[i] = job.event)
    BY <1>0, <2>1, LogStep
  <2>3. ~Pending'
    <3>1. PICK at \in {"append", "trim", "prune"}, e \in Events : job = [at |-> at, event |-> e]
      BY <2>1 DEF Inv, ControlOK, JobOK, Idle
    <3>. QED
      BY <1>1, <3>1 DEF AppendEvent, Pending
  <2>4. ASSUME NEW i \in 1..seq', Creation(log'[i])  PROVE Subject(log'[i]) \in drawn'
    BY <1>0, <2>1, <2>2, <2>4 DEF Once, Pending
  <2>5. ASSUME NEW i \in 1..seq', NEW j \in 1..seq', Creation(log'[i]), log'[i] = log'[j]
        PROVE  i = j
    BY <2>1, <2>2, <2>5 DEF Once, Pending
  <2>. QED
    BY <2>3, <2>4, <2>5 DEF Once
<1>2. CASE ~AppendEvent
  <2>1. seq' = seq
    BY <1>0, <1>2 DEF Next, CreateRequest, CreateAnswer, AcceptAnswer, CloseRequest,
       DeleteRequest, GrowOld, ToggleVote, Upload, BeginUpload, EndUpload, RefuseUpload,
       TrimEvents, Prune, Kill, Boot, Start, events
  <2>2. log' = log
    BY <1>0, <2>1 DEF LogNext
  <2>3. ASSUME Pending'
        PROVE  Subject(job'.event) \in drawn' /\ \A i \in 1..seq : log[i] # job'.event
    <3>1. CASE job' = job
      BY <1>0, <2>3, <3>1 DEF Once, Pending
    <3>2. CASE Subject(job'.event) \in drawn' \ drawn
      <4>1. Creation(job'.event)
        BY <2>3 DEF Pending
      <4>. QED
        BY <3>2, <4>1 DEF Once
    <3>. QED
      BY <1>0, <2>3, <3>1, <3>2, PendingStep
  <2>. QED
    BY <1>0, <2>1, <2>2, <2>3 DEF Once
<1>. QED
  BY <1>1, <1>2

-----------------------------------------------------------------------------
(* Rows of answers do not change and stay as long as their request does;   *)
(* a new one is by another client than the one whose request it answers.   *)
LEMMA AnswersKept ==
  ASSUME Inv, Next, NEW a \in DOMAIN answers, answers[a].request \in DOMAIN requests'
  PROVE  a \in DOMAIN answers' /\ answers'[a] = answers[a]
<1>. USE DEF tables, events, ghosts
<1>. DEFINE Kept == a \in DOMAIN answers' /\ answers'[a] = answers[a]
<1>0. Consistent /\ answers[a].request \in DOMAIN requests
  BY DEF Inv, Consistent, ReferentialIntegrity
<1>1. ASSUME answers' = answers  PROVE Kept
  BY <1>1
<1>2. ASSUME NEW r \in Requests, NEW b \in Answers, NEW c \in Clients, CreateAnswer(r, b, c)
      PROVE  Kept
  <2>. DEFINE row == [request |-> r, solver |-> c]
  <2>1. answers' = Put(answers, b, row) /\ b \notin drawn
    BY <1>2 DEF CreateAnswer, InsertAnswer, Draw
  <2>. HIDE DEF row
  <2>2. a # b
    BY <1>0, <2>1 DEF Consistent, RowsOK
  <2>. QED
    BY <2>1, <2>2 DEF Put
<1>3. ASSUME NEW R, DeleteRows(R)  PROVE Kept
  <2>1. /\ DOMAIN requests' = DOMAIN requests \ R
        /\ DOMAIN answers' = {b \in DOMAIN answers : answers[b].request \notin R}
        /\ \A b \in DOMAIN answers' : answers'[b] = answers[b]
    BY <1>0, <1>3, DeleteRowsLeaves
  <2>. QED
    BY <2>1
<1>4. CASE \/ \E r \in Requests, c \in Clients : CreateRequest(r, c)
           \/ \E r \in Requests, b \in Answers, c \in Clients : AcceptAnswer(r, b, c)
           \/ \E r \in Requests : CloseRequest(r) \/ GrowOld(r)
           \/ \E b \in Answers, v \in Clients : ToggleVote(b, v)
  BY <1>1, <1>4 DEF CreateRequest, InsertRequest, AcceptAnswer, SetAccepted, CloseRequest,
     MarkClosed, GrowOld, ToggleVote, Toggle
<1>5. CASE \/ \E f \in Files, o \in Requests \cup Answers : Upload(f, o) \/ BeginUpload(f, o)
           \/ \E u \in uploads : EndUpload(u) \/ RefuseUpload(u)
           \/ AppendEvent \/ TrimEvents \/ Kill
  BY <1>1, <1>5 DEF Upload, BeginUpload, EndUpload, RefuseUpload, AddAttachment, AppendEvent,
     TrimEvents, Kill
<1>6. ASSUME NEW r \in Requests, DeleteRequest(r)  PROVE Kept
  BY <1>3, <1>6 DEF DeleteRequest, DeleteWithFiles
<1>7. CASE Prune \/ Boot
  BY <1>1, <1>3, <1>7 DEF Prune, Boot, PruneOldClosed
<1>. QED
  BY <1>2, <1>4, <1>5, <1>6, <1>7 DEF Next

LEMMA AnswersMade ==
  ASSUME Inv, Next, NEW a \in DOMAIN answers'
  PROVE  \/ a \in DOMAIN answers /\ answers'[a] = answers[a]
         \/ \E r \in Requests, c \in Clients :
              CreateAnswer(r, a, c) /\ answers'[a] = [request |-> r, solver |-> c]
<1>. USE DEF tables, events, ghosts
<1>. DEFINE Kept == a \in DOMAIN answers /\ answers'[a] = answers[a]
<1>0. Consistent
  BY DEF Inv
<1>1. ASSUME answers' = answers  PROVE Kept
  BY <1>1
<1>2. ASSUME NEW r \in Requests, NEW b \in Answers, NEW c \in Clients, CreateAnswer(r, b, c)
      PROVE  Kept \/ (CreateAnswer(r, a, c) /\ answers'[a] = [request |-> r, solver |-> c])
  <2>. DEFINE row == [request |-> r, solver |-> c]
  <2>1. answers' = Put(answers, b, row)
    BY <1>2 DEF CreateAnswer, InsertAnswer
  <2>. HIDE DEF row
  <2>2. IF a = b THEN answers'[a] = row ELSE Kept
    BY <2>1 DEF Put
  <2>. QED
    BY <1>2, <2>2 DEF row
<1>3. ASSUME NEW R, DeleteRows(R)  PROVE Kept
  BY <1>0, <1>3, DeleteRowsLeaves
<1>4. CASE \/ \E r \in Requests, c \in Clients : CreateRequest(r, c)
           \/ \E r \in Requests, b \in Answers, c \in Clients : AcceptAnswer(r, b, c)
           \/ \E r \in Requests : CloseRequest(r) \/ GrowOld(r)
           \/ \E b \in Answers, v \in Clients : ToggleVote(b, v)
  BY <1>1, <1>4 DEF CreateRequest, InsertRequest, AcceptAnswer, SetAccepted, CloseRequest,
     MarkClosed, GrowOld, ToggleVote, Toggle
<1>5. CASE \/ \E f \in Files, o \in Requests \cup Answers : Upload(f, o) \/ BeginUpload(f, o)
           \/ \E u \in uploads : EndUpload(u) \/ RefuseUpload(u)
           \/ AppendEvent \/ TrimEvents \/ Kill
  BY <1>1, <1>5 DEF Upload, BeginUpload, EndUpload, RefuseUpload, AddAttachment, AppendEvent,
     TrimEvents, Kill
<1>6. ASSUME NEW r \in Requests, DeleteRequest(r)  PROVE Kept
  BY <1>3, <1>6 DEF DeleteRequest, DeleteWithFiles
<1>7. CASE Prune \/ Boot
  BY <1>1, <1>3, <1>7 DEF Prune, Boot, PruneOldClosed
<1>. QED
  BY <1>2, <1>4, <1>5, <1>6, <1>7 DEF Next

LEMMA AnswersStep ==
  ASSUME Inv, [Next]_vars
  PROVE  \A a \in DOMAIN answers' :
           \/ a \in DOMAIN answers /\ answers'[a] = answers[a]
           \/ /\ requests' = requests
              /\ requests[answers'[a].request].client # answers'[a].solver
<1>1. ASSUME NEW r, NEW a, NEW c, CreateAnswer(r, a, c)
      PROVE  requests' = requests /\ requests[r].client # c
  BY <1>1 DEF CreateAnswer, InsertAnswer
<1>2. CASE UNCHANGED vars
  BY <1>2 DEF vars, tables
<1>3. CASE Next
  BY <1>1, <1>3, AnswersMade
<1>. QED
  BY <1>2, <1>3

(* The table gains new rows only.                                          *)
LEMMA TableStep ==
  ASSUME Inv, [Next]_vars
  PROVE  \A i \in table' : i \in table \/ i > seq
<1>0. seq \in Nat
  BY LimitAssumption DEF Inv, ControlOK
<1>1. CASE AppendEvent
  BY <1>0, <1>1 DEF AppendEvent
<1>2. CASE TrimEvents
  BY <1>2 DEF TrimEvents, Trimmed
<1>3. CASE ~AppendEvent /\ ~TrimEvents
  <2>1. table' = table
    BY <1>3 DEF Next, CreateRequest, CreateAnswer, AcceptAnswer, CloseRequest,
       DeleteRequest, GrowOld, ToggleVote, Upload, BeginUpload, EndUpload, RefuseUpload,
       Prune, Kill, Boot, Start, events, vars
  <2>. QED
    BY <2>1
<1>. QED
  BY <1>1, <1>2, <1>3

LEMMA GreatestExists ==
  ASSUME NEW n \in Nat, NEW S \in SUBSET (0..n), S # {}
  PROVE  Greatest(S) \in S /\ \A k \in S : k <= Greatest(S)
<1>. DEFINE T == {n - k : k \in S}
<1>1. T \in SUBSET Nat /\ T # {}
  <2>1. \A k \in S : n - k \in Nat
    OBVIOUS
  <2>2. PICK k \in S : TRUE
    OBVIOUS
  <2>3. n - k \in T
    BY <2>2
  <2>. QED
    BY <2>1, <2>3
<1>2. Least(T) \in T /\ \A t \in T : Least(T) <= t
  BY <1>1, LeastExists
<1>3. PICK g \in S : Least(T) = n - g
  BY <1>2
<1>4. \A k \in S : k <= g
  <2>. TAKE k \in S
  <2>1. n - k \in T
    OBVIOUS
  <2>2. n - g <= n - k
    BY <1>2, <1>3, <2>1
  <2>3. k \in Int /\ g \in Int
    OBVIOUS
  <2>. QED
    BY <2>2, <2>3
<1>. QED
  BY <1>4 DEF Greatest

-----------------------------------------------------------------------------
(* The chronicle: the last event that tells of something has the last word *)
(* on it in the mirror.                                                    *)

TellsStatus(e) ==
  e.kind \in {"request.created", "request.closed", "request.deleted"}
TellsAccepted(e) ==
  e.kind \in {"request.created", "request.accepted", "request.deleted"}
TellsVotes(e, a) == \/ e.kind \in {"request.created", "request.deleted"}
                    \/ e.kind \in {"answer.created", "answer.vote"} /\ e.answer = a

StatusIn(e) == IF e.kind = "request.created" THEN "open"
               ELSE IF e.kind = "request.closed" THEN "closed" ELSE "absent"
AcceptedIn(e) == IF e.kind = "request.accepted" THEN e.answer ELSE None
VotesIn(e) == IF e.kind = "answer.vote" THEN e.votes ELSE 0

Later(i) == {j \in 1..seq : j > i /\ log[j].request = log[i].request}

Chronicle ==
  \A i \in 1..seq :
    LET e == log[i]
        m == mirror[e.request]
    IN  /\ TellsStatus(e) /\ (\A j \in Later(i) : ~TellsStatus(log[j])) =>
             m.status = StatusIn(e)
        /\ TellsAccepted(e) /\ (\A j \in Later(i) : ~TellsAccepted(log[j])) =>
             m.accepted = AcceptedIn(e)
        /\ \A a \in DOMAIN m.tally :
             TellsVotes(e, a) /\ (\A j \in Later(i) : ~TellsVotes(log[j], a)) =>
               /\ e.kind \in {"answer.created", "answer.vote"}
               /\ m.tally[a] = VotesIn(e)

(* A request is announced before anything else is told of it.              *)
Announcing(r) == /\ job.at = "append"
                 /\ job.event.kind = "request.created" /\ job.event.request = r

First ==
  /\ \A i, j \in 1..seq :
       log[i].kind = "request.created" /\ log[j].request = log[i].request => i <= j
  /\ \A r \in Requests : Announcing(r) => About(r) = {}

(* Who exists was announced.                                               *)
Announced ==
  \A r \in DOMAIN requests \ torn :
    Announcing(r) \/ \E i \in About(r) : log[i].kind = "request.created"

(* An answer exists if, and but for a kill only if, it was announced.      *)
AnswersAnnounced ==
  /\ \A a \in DOMAIN answers : answers[a].request \notin torn =>
       LET e == Answered(answers[a].request, a)
       IN  (job.at = "append" /\ job.event = e) \/ \E i \in 1..seq : log[i] = e
  /\ \A i \in 1..seq :
       log[i].kind = "answer.created" /\ log[i].request \in DOMAIN requests =>
         log[i].answer \in AnswersTo(log[i].request)
  /\ job.at = "append" /\ job.event.kind = "answer.created"
       /\ job.event.request \in DOMAIN requests =>
         job.event.answer \in AnswersTo(job.event.request)

MirrorOK == \A r \in Requests : \E s, x, t : /\ mirror[r] = Card(s, x, t)
                                              /\ \A a \in DOMAIN t : t[a] \in Nat

(* An event changes what it tells of, and nothing else.                    *)
LEMMA AppliedTells ==
  ASSUME NEW s, NEW x, NEW t, NEW e \in Events
  PROVE  \E s2, x2, t2 :
           /\ Applied(Card(s, x, t), e) = Card(s2, x2, t2)
           /\ s2 = IF TellsStatus(e) THEN StatusIn(e) ELSE s
           /\ x2 = IF TellsAccepted(e) THEN AcceptedIn(e) ELSE x
           /\ \A a \in DOMAIN t2 :
                IF TellsVotes(e, a)
                THEN e.kind \in {"answer.created", "answer.vote"} /\ t2[a] = VotesIn(e)
                ELSE a \in DOMAIN t /\ t2[a] = t[a]
<1>. USE DEF TellsStatus, TellsAccepted, TellsVotes, StatusIn, AcceptedIn, VotesIn
<1>1. ASSUME NEW r, NEW c, e = Created(r, c)
      PROVE  /\ Applied(Card(s, x, t), e) = Card("open", None, << >>)
             /\ e.kind = "request.created"
  BY <1>1 DEF Applied, Created, Card, Absent
<1>2. ASSUME NEW r, NEW a, e = Answered(r, a)
      PROVE  /\ Applied(Card(s, x, t), e) = Card(s, x, Put(t, a, 0))
             /\ e.kind = "answer.created" /\ e.answer = a
  BY <1>2, AppliedAnswered DEF Answered
<1>3. ASSUME NEW r, e = ClosedEvent(r)
      PROVE  /\ Applied(Card(s, x, t), e) = Card("closed", x, t)
             /\ e.kind = "request.closed"
  BY <1>3, AppliedClosed DEF ClosedEvent
<1>4. ASSUME NEW r, e = Deleted(r)
      PROVE  /\ Applied(Card(s, x, t), e) = Card("absent", None, << >>)
             /\ e.kind = "request.deleted"
  BY <1>4 DEF Applied, Deleted, Card, Absent
<1>5. ASSUME NEW r, NEW a, e = Accepted(r, a)
      PROVE  /\ Applied(Card(s, x, t), e) = Card(s, a, t)
             /\ e.kind = "request.accepted" /\ e.answer = a
  BY <1>5, AppliedAccepted DEF Accepted
<1>6. ASSUME NEW r, NEW a, NEW n, e = Voted(r, a, n)
      PROVE  /\ Applied(Card(s, x, t), e) = Card(s, x, Put(t, a, n))
             /\ e.kind = "answer.vote" /\ e.answer = a /\ e.votes = n
  BY <1>6, AppliedVoted DEF Voted
<1>7. ASSUME NEW a, NEW n, NEW b \in DOMAIN Put(t, a, n)
      PROVE  IF b = a THEN Put(t, a, n)[b] = n ELSE b \in DOMAIN t /\ Put(t, a, n)[b] = t[b]
  BY DEF Put
<1>8. DOMAIN << >> = {}
  OBVIOUS
<1>9. CASE \E r \in Requests, c \in Clients : e = Created(r, c)
  BY <1>1, <1>8, <1>9
<1>10. CASE \E r \in Requests, a \in Answers : e = Answered(r, a)
  <2>1. PICK r \in Requests, a \in Answers : e = Answered(r, a)
    BY <1>10
  <2>. DEFINE p == Put(t, a, 0)
  <2>2. Applied(Card(s, x, t), e) = Card(s, x, p) /\ e.kind = "answer.created" /\ e.answer = a
    BY <1>2, <2>1
  <2>3. \A b \in DOMAIN p : IF b = a THEN p[b] = 0 ELSE b \in DOMAIN t /\ p[b] = t[b]
    BY <1>7
  <2>. HIDE DEF p
  <2>4. ~TellsStatus(e) /\ ~TellsAccepted(e)
    BY <2>2
  <2>5. \A b \in DOMAIN p :
          IF TellsVotes(e, b)
          THEN e.kind \in {"answer.created", "answer.vote"} /\ p[b] = VotesIn(e)
          ELSE b \in DOMAIN t /\ p[b] = t[b]
    BY <2>2, <2>3
  <2>. HIDE DEF TellsStatus, TellsAccepted, TellsVotes, StatusIn, AcceptedIn, VotesIn
  <2>. WITNESS s, x, p
  <2>. QED
    BY <2>2, <2>4, <2>5
<1>11. CASE \E r \in Requests : e = ClosedEvent(r)
  BY <1>3, <1>11
<1>12. CASE \E r \in Requests : e = Deleted(r)
  BY <1>4, <1>8, <1>12
<1>13. CASE \E r \in Requests, a \in Answers : e = Accepted(r, a)
  BY <1>5, <1>13
<1>14. CASE \E r \in Requests, a \in Answers, n \in Nat : e = Voted(r, a, n)
  <2>1. PICK r \in Requests, a \in Answers, n \in Nat : e = Voted(r, a, n)
    BY <1>14
  <2>. DEFINE p == Put(t, a, n)
  <2>2. /\ Applied(Card(s, x, t), e) = Card(s, x, p)
        /\ e.kind = "answer.vote" /\ e.answer = a /\ e.votes = n
    BY <1>6, <2>1
  <2>3. \A b \in DOMAIN p : IF b = a THEN p[b] = n ELSE b \in DOMAIN t /\ p[b] = t[b]
    BY <1>7
  <2>. HIDE DEF p
  <2>4. ~TellsStatus(e) /\ ~TellsAccepted(e)
    BY <2>2
  <2>5. \A b \in DOMAIN p :
          IF TellsVotes(e, b)
          THEN e.kind \in {"answer.created", "answer.vote"} /\ p[b] = VotesIn(e)
          ELSE b \in DOMAIN t /\ p[b] = t[b]
    BY <2>2, <2>3
  <2>. HIDE DEF TellsStatus, TellsAccepted, TellsVotes, StatusIn, AcceptedIn, VotesIn
  <2>. WITNESS s, x, p
  <2>. QED
    BY <2>2, <2>4, <2>5
<1>. QED
  BY <1>9, <1>10, <1>11, <1>12, <1>13, <1>14 DEF Events

(* A step of the server appends nothing, or the event of its handler.      *)
LEMMA AppendOrNot ==
  ASSUME Inv, LogOK, LogNext
  PROVE  \/ UNCHANGED <<seq, log, mirror>>
         \/ /\ AppendEvent /\ job.at = "append" /\ job.event \in Events
            /\ seq' = seq + 1
            /\ \A i \in 1..seq : log'[i] = log[i]
            /\ log'[seq + 1] = job.event
            /\ mirror' = [mirror EXCEPT ![job.event.request] = Applied(@, job.event)]
            /\ job'.at # "append"
<1>0. seq \in Nat /\ Next
  BY LimitAssumption DEF Inv, ControlOK, LogNext
<1>1. CASE AppendEvent
  <2>1. job.at = "append" /\ seq' = seq + 1 /\ job # Idle
    BY <1>1 DEF AppendEvent, Idle
  <2>2. PICK at \in {"append", "trim", "prune"}, e \in Events : job = [at |-> at, event |-> e]
    BY <2>1 DEF Inv, ControlOK, JobOK
  <2>3. /\ \A i \in 1..seq : log'[i] = log[i]
        /\ \A i \in 1..seq' : i \in 1..seq \/ log'[i] = job.event
    BY LogStep
  <2>4. log'[seq + 1] = job.event
    BY <1>0, <2>1, <2>3
  <2>5. job'.at # "append"
    BY <1>1, <2>2 DEF AppendEvent
  <2>. QED
    BY <1>1, <2>1, <2>2, <2>3, <2>4, <2>5 DEF AppendEvent
<1>2. CASE ~AppendEvent
  <2>1. seq' = seq /\ mirror' = mirror
    BY <1>0, <1>2 DEF Next, CreateRequest, CreateAnswer, AcceptAnswer, CloseRequest,
       DeleteRequest, GrowOld, ToggleVote, Upload, BeginUpload, EndUpload, RefuseUpload,
       TrimEvents, Prune, Kill, Boot, Start, events
  <2>. QED
    BY <1>0, <2>1 DEF LogNext
<1>. QED
  BY <1>1, <1>2

LEMMA VotesNat == \A e \in Events : VotesIn(e) \in Nat
BY DEF Events, VotesIn, Voted, Created, Answered, ClosedEvent, Deleted, Accepted

LEMMA ChronicleStep ==
  ASSUME Inv, LogOK, MirrorOK, Chronicle, LogNext
  PROVE  MirrorOK' /\ Chronicle'
<1>0. seq \in Nat /\ DOMAIN mirror = Requests /\ \A i \in 1..seq : log[i] \in Events
  BY LimitAssumption, ElementOfSeq DEF Inv, ControlOK, Matching, LogOK
<1>1. CASE UNCHANGED <<seq, log, mirror>>
  BY <1>1 DEF MirrorOK, Chronicle, Later
<1>2. ASSUME job.event \in Events, seq' = seq + 1,
             \A i \in 1..seq : log'[i] = log[i], log'[seq + 1] = job.event,
             mirror' = [mirror EXCEPT ![job.event.request] = Applied(@, job.event)]
      PROVE  MirrorOK' /\ Chronicle'
  <2>. DEFINE f == job.event
              q == job.event.request
  <2>1. q \in Requests
    BY <1>2, EventRequest
  <2>2. PICK s, x, t : mirror[q] = Card(s, x, t) /\ \A a \in DOMAIN t : t[a] \in Nat
    BY <2>1 DEF MirrorOK
  <2>3. PICK s2, x2, t2 :
           /\ Applied(Card(s, x, t), f) = Card(s2, x2, t2)
           /\ s2 = IF TellsStatus(f) THEN StatusIn(f) ELSE s
           /\ x2 = IF TellsAccepted(f) THEN AcceptedIn(f) ELSE x
           /\ \A a \in DOMAIN t2 :
                IF TellsVotes(f, a)
                THEN f.kind \in {"answer.created", "answer.vote"} /\ t2[a] = VotesIn(f)
                ELSE a \in DOMAIN t /\ t2[a] = t[a]
    BY <1>2, AppliedTells
  <2>4. /\ mirror'[q] = Card(s2, x2, t2)
        /\ \A r \in Requests : r # q => mirror'[r] = mirror[r]
    BY <1>0, <1>2, <2>1, <2>2, <2>3
  <2>5. MirrorOK'
    <3>1. \A a \in DOMAIN t2 : t2[a] \in Nat
      BY <1>2, <2>2, <2>3, VotesNat
    <3>. QED
      BY <2>4, <3>1 DEF MirrorOK
  <2>6. ASSUME NEW i \in 1..seq'
        PROVE  LET e == log'[i]
                   m == mirror'[e.request]
                   later == {j \in 1..seq' : j > i /\ log'[j].request = e.request}
               IN  /\ TellsStatus(e) /\ (\A j \in later : ~TellsStatus(log'[j])) =>
                        m.status = StatusIn(e)
                   /\ TellsAccepted(e) /\ (\A j \in later : ~TellsAccepted(log'[j])) =>
                        m.accepted = AcceptedIn(e)
                   /\ \A a \in DOMAIN m.tally :
                        TellsVotes(e, a) /\ (\A j \in later : ~TellsVotes(log'[j], a)) =>
                          /\ e.kind \in {"answer.created", "answer.vote"}
                          /\ m.tally[a] = VotesIn(e)
    <3>. DEFINE e == log'[i]
                later == {j \in 1..seq' : j > i /\ log'[j].request = e.request}
    <3>1. CASE i = seq + 1
      BY <1>2, <2>3, <2>4, <3>1 DEF Card
    <3>2. CASE i \in 1..seq
      <4>1. e = log[i] /\ e.request \in Requests /\ e \in Events
        BY <1>0, <1>2, <3>2, EventRequest
      <4>2. Later(i) \subseteq later /\ \A j \in Later(i) : log'[j] = log[j]
        BY <1>0, <1>2, <4>1 DEF Later
      <4>3. CASE e.request # q
        BY <2>4, <3>2, <4>1, <4>2, <4>3 DEF Chronicle
      <4>4. CASE e.request = q
        <5>1. seq + 1 \in later /\ log'[seq + 1] = f
          BY <1>0, <1>2, <3>2, <4>4
        <5>2. /\ mirror[q].status = s /\ mirror[q].accepted = x /\ mirror[q].tally = t
              /\ mirror'[q].status = s2 /\ mirror'[q].accepted = x2 /\ mirror'[q].tally = t2
          BY <2>2, <2>4 DEF Card
        <5>3. ASSUME TellsStatus(e), \A j \in later : ~TellsStatus(log'[j])
              PROVE  s2 = StatusIn(e)
          BY <2>3, <3>2, <4>1, <4>2, <4>4, <5>1, <5>2, <5>3 DEF Chronicle
        <5>4. ASSUME TellsAccepted(e), \A j \in later : ~TellsAccepted(log'[j])
              PROVE  x2 = AcceptedIn(e)
          BY <2>3, <3>2, <4>1, <4>2, <4>4, <5>1, <5>2, <5>4 DEF Chronicle
        <5>5. ASSUME NEW a \in DOMAIN t2, TellsVotes(e, a),
                     \A j \in later : ~TellsVotes(log'[j], a)
              PROVE  e.kind \in {"answer.created", "answer.vote"} /\ t2[a] = VotesIn(e)
          <6>1. a \in DOMAIN t /\ t2[a] = t[a]
            BY <2>3, <5>1, <5>5
          <6>2. \A j \in Later(i) : ~TellsVotes(log[j], a)
            BY <4>2, <5>5
          <6>. QED
            BY <3>2, <4>1, <4>4, <5>2, <5>5, <6>1, <6>2 DEF Chronicle
        <5>. QED
          BY <4>4, <5>2, <5>3, <5>4, <5>5
      <4>. QED
        BY <4>3, <4>4
    <3>. QED
      BY <1>0, <1>2, <3>1, <3>2
  <2>7. Chronicle'
    BY <2>6 DEF Chronicle, Later
  <2>. QED
    BY <2>5, <2>7
<1>. QED
  BY <1>1, <1>2, AppendOrNot

(* Only create_request makes an event that announces a request.           *)
LEMMA AnnouncingStep ==
  ASSUME Inv, Next, NEW r \in Requests, Announcing(r)'
  PROVE  (job' = job /\ Announcing(r)) \/ \E c \in Clients : CreateRequest(r, c)
<1>1. ASSUME NEW q, NEW a, NEW n
      PROVE  "request.created" \notin {Answered(q, a).kind, Accepted(q, a).kind,
               ClosedEvent(q).kind, Deleted(q).kind, Voted(q, a, n).kind}
  BY DEF Answered, Accepted, ClosedEvent, Deleted, Voted
<1>2. \A q, c : Created(q, c).request = q
  BY DEF Created
<1>. QED
  BY <1>1, <1>2, PendingJob DEF Announcing

(* A handler's event is appended, or waits, or a kill takes it along.      *)
LEMMA PendingGoes ==
  ASSUME Inv, Next
  PROVE  /\ torn \subseteq torn'
         /\ job.at = "append" =>
              job' = job \/ AppendEvent \/ job.event.request \in torn'
<1>. USE DEF tables, events, ghosts
<1>1. ASSUME NEW e, Start(e)  PROVE torn' = torn /\ job.at # "append"
  BY <1>1 DEF Start, Idle
<1>2. CASE \/ \E r \in Requests, c \in Clients : CreateRequest(r, c)
           \/ \E r \in Requests, a \in Answers, c \in Clients :
                CreateAnswer(r, a, c) \/ AcceptAnswer(r, a, c)
           \/ \E r \in Requests : CloseRequest(r) \/ DeleteRequest(r)
           \/ \E a \in Answers, v \in Clients : ToggleVote(a, v)
  BY <1>1, <1>2 DEF CreateRequest, CreateAnswer, AcceptAnswer, CloseRequest, DeleteRequest,
     ToggleVote
<1>3. CASE \/ \E r \in Requests : GrowOld(r)
           \/ \E f \in Files, o \in Requests \cup Answers : Upload(f, o) \/ BeginUpload(f, o)
           \/ \E u \in uploads : EndUpload(u) \/ RefuseUpload(u)
           \/ Boot
  BY <1>3 DEF GrowOld, Upload, BeginUpload, EndUpload, RefuseUpload, Boot
<1>4. CASE AppendEvent \/ TrimEvents \/ Prune \/ Kill
  BY <1>4 DEF AppendEvent, TrimEvents, Prune, Kill
<1>. QED
  BY <1>2, <1>3, <1>4 DEF Next

LEMMA FirstStep ==
  ASSUME Inv, LogOK, AllDrawn, First, LogNext
  PROVE  First'
<1>0. seq \in Nat /\ Next
  BY LimitAssumption DEF Inv, ControlOK, LogNext
<1>1. CASE UNCHANGED <<seq, log, mirror>>
  <2>1. ASSUME NEW r \in Requests, Announcing(r)'  PROVE About(r)' = {}
    <3>1. ASSUME NEW c \in Clients, CreateRequest(r, c)  PROVE About(r) = {}
      BY <3>1 DEF CreateRequest, InsertRequest, Draw, AllDrawn, About
    <3>2. About(r) = {}
      BY <1>0, <2>1, <3>1, AnnouncingStep DEF First
    <3>. QED
      BY <1>1, <3>2 DEF About
  <2>. QED
    BY <1>1, <2>1 DEF First
<1>2. ASSUME job.at = "append", job.event \in Events, seq' = seq + 1,
             \A i \in 1..seq : log'[i] = log[i], log'[seq + 1] = job.event,
             job'.at # "append"
      PROVE  First'
  <2>1. ASSUME NEW i \in 1..seq', NEW j \in 1..seq', log'[i].kind = "request.created",
               log'[j].request = log'[i].request
        PROVE  i <= j
    <3>1. CASE i \in 1..seq /\ j \in 1..seq
      BY <1>2, <2>1, <3>1 DEF First
    <3>2. CASE i = seq + 1 /\ j \in 1..seq
      <4>1. Announcing(job.event.request) /\ j \in About(job.event.request)
        BY <1>2, <2>1, <3>2 DEF Announcing, About
      <4>. QED
        BY <1>2, <4>1, EventRequest DEF First
    <3>3. CASE j = seq + 1
      BY <1>0, <1>2, <3>3
    <3>. QED
      BY <1>0, <1>2, <3>1, <3>2, <3>3
  <2>. QED
    BY <1>2, <2>1 DEF First, Announcing
<1>. QED
  BY <1>1, <1>2, AppendOrNot

LEMMA AnnouncedStep ==
  ASSUME Inv, LogOK, Announced, LogNext
  PROVE  Announced'
<1>0. /\ seq \in Nat /\ Next /\ seq <= seq' /\ seq' \in Nat
      /\ \A i \in 1..seq : log'[i] = log[i]
  <2>1. /\ seq <= seq' /\ seq' \in Nat
        /\ \A i \in 1..seq : log'[i] = log[i]
    BY LogStep
  <2>2. seq \in Nat /\ Next
    BY LimitAssumption DEF Inv, ControlOK, LogNext
  <2>. QED
    BY <2>1, <2>2
<1>. SUFFICES ASSUME NEW r \in DOMAIN requests' \ torn'
              PROVE  Announcing(r)' \/ \E i \in About(r)' : log'[i].kind = "request.created"
  BY DEF Announced
<1>1. ASSUME NEW c \in Clients, CreateRequest(r, c)  PROVE Announcing(r)'
  BY <1>1 DEF CreateRequest, Start, Created, Announcing
<1>2. CASE r \in DOMAIN requests
  <2>1. r \notin torn
    BY <1>0, PendingGoes
  <2>2. CASE Announcing(r) /\ job' = job
    BY <2>2 DEF Announcing
  <2>3. CASE Announcing(r) /\ job' # job
    <3>1. AppendEvent
      BY <1>0, <2>3, PendingGoes DEF Announcing
    <3>2. log'[seq + 1] = job.event /\ seq' = seq + 1
      BY <3>1, AppendOrNot, <1>0 DEF AppendEvent
    <3>. QED
      BY <1>0, <2>3, <3>2 DEF Announcing, About
  <2>4. CASE \E i \in About(r) : log[i].kind = "request.created"
    BY <1>0, <2>4 DEF About
  <2>. QED
    BY <1>2, <2>1, <2>2, <2>3, <2>4 DEF Announced
<1>. QED
  BY <1>0, <1>1, <1>2, RequestsStep

LEMMA AnswersAnnouncedStep ==
  ASSUME Inv, LogOK, AllDrawn, AnswersAnnounced, LogNext
  PROVE  AnswersAnnounced'
<1>0. /\ seq \in Nat /\ Next /\ seq <= seq' /\ seq' \in Nat
      /\ \A i \in 1..seq : log'[i] = log[i]
  <2>1. /\ seq <= seq' /\ seq' \in Nat
        /\ \A i \in 1..seq : log'[i] = log[i]
    BY LogStep
  <2>2. seq \in Nat /\ Next
    BY LimitAssumption DEF Inv, ControlOK, LogNext
  <2>. QED
    BY <2>1, <2>2
<1>1. ASSUME NEW a \in DOMAIN answers', answers'[a].request \notin torn'
      PROVE  LET e == Answered(answers'[a].request, a)
             IN  (job'.at = "append" /\ job'.event = e) \/ \E i \in 1..seq' : log'[i] = e
  <2>1. ASSUME NEW r \in Requests, NEW c \in Clients, CreateAnswer(r, a, c),
               answers'[a] = [request |-> r, solver |-> c]
        PROVE  job'.at = "append" /\ job'.event = Answered(answers'[a].request, a)
    BY <2>1 DEF CreateAnswer, Start
  <2>2. CASE a \in DOMAIN answers /\ answers'[a] = answers[a]
    <3>. DEFINE e == Answered(answers[a].request, a)
    <3>1. answers[a].request \notin torn /\ e.request = answers[a].request
      BY <1>0, <1>1, <2>2, PendingGoes DEF Answered
    <3>2. CASE job.at = "append" /\ job.event = e
      <4>1. job' = job \/ AppendEvent
        BY <1>0, <1>1, <2>2, <3>1, <3>2, PendingGoes
      <4>2. ASSUME AppendEvent  PROVE seq' = seq + 1 /\ log'[seq + 1] = e
        BY <1>0, <3>2, <4>2, AppendOrNot DEF AppendEvent
      <4>. QED
        BY <1>0, <2>2, <3>2, <4>1, <4>2
    <3>3. CASE \E i \in 1..seq : log[i] = e
      BY <1>0, <2>2, <3>3
    <3>. QED
      BY <2>2, <3>1, <3>2, <3>3 DEF AnswersAnnounced
  <2>. QED
    BY <1>0, <2>1, <2>2, AnswersMade
(* What exists stays as long as its request.                               *)
<1>2. ASSUME NEW r \in drawn, NEW a, r \in DOMAIN requests',
             r \in DOMAIN requests => a \in AnswersTo(r)
      PROVE  a \in DOMAIN answers' /\ answers'[a].request = r
  <2>1. r \in DOMAIN requests
    BY <1>0, <1>2, RequestsStep DEF CreateRequest, InsertRequest, Draw
  <2>. QED
    BY <1>0, <1>2, <2>1, AnswersKept DEF AnswersTo
<1>3. ASSUME NEW i \in 1..seq', log'[i].kind = "answer.created",
             log'[i].request \in DOMAIN requests'
      PROVE  log'[i].answer \in DOMAIN answers' /\ answers'[log'[i].answer].request = log'[i].request
  <2>1. CASE i \in 1..seq
    BY <1>0, <1>2, <1>3, <2>1 DEF AllDrawn, AnswersAnnounced
  <2>2. CASE i \notin 1..seq
    <3>1. AppendEvent /\ job.at = "append" /\ log'[i] = job.event
      BY <1>0, <2>2, AppendOrNot
    <3>. QED
      BY <1>0, <1>2, <1>3, <3>1 DEF AllDrawn, AnswersAnnounced
  <2>. QED
    BY <2>1, <2>2
<1>4. ASSUME job'.at = "append", job'.event.kind = "answer.created",
             job'.event.request \in DOMAIN requests'
      PROVE  /\ job'.event.answer \in DOMAIN answers'
             /\ answers'[job'.event.answer].request = job'.event.request
  <2>1. CASE job' = job
    BY <1>0, <1>2, <1>4, <2>1 DEF AllDrawn, AnswersAnnounced
  <2>2. ASSUME NEW r \in Requests, NEW a \in Answers, NEW c \in Clients,
               CreateAnswer(r, a, c), job'.event = Answered(r, a)
        PROVE  /\ job'.event.answer \in DOMAIN answers'
               /\ answers'[job'.event.answer].request = job'.event.request
    <3>. DEFINE row == [request |-> r, solver |-> c]
    <3>1. answers' = Put(answers, a, row) /\ row.request = r
      BY <2>2 DEF CreateAnswer, InsertAnswer
    <3>. HIDE DEF row
    <3>2. a \in DOMAIN answers' /\ answers'[a] = row
      BY <3>1 DEF Put
    <3>. QED
      BY <2>2, <3>1, <3>2 DEF Answered
  <2>3. ASSUME NEW r, NEW c, NEW a, NEW n
        PROVE  "answer.created" \notin {Created(r, c).kind, Accepted(r, a).kind,
                 ClosedEvent(r).kind, Deleted(r).kind, Voted(r, a, n).kind}
    BY DEF Created, Accepted, ClosedEvent, Deleted, Voted
  <2>. QED
    BY <1>0, <1>4, <2>1, <2>2, <2>3, PendingJob
<1>. QED
  BY <1>1, <1>3, <1>4 DEF AnswersAnnounced, AnswersTo

(* One answer at a time, so there are finitely many.                       *)
FinitelyMany == IsFiniteSet(DOMAIN answers)

LEMMA FiniteStep ==
  ASSUME Inv, FinitelyMany, Next
  PROVE  FinitelyMany'
<1>1. ASSUME NEW r, NEW a, NEW c, CreateAnswer(r, a, c)  PROVE a = job'.event.answer
  BY <1>1 DEF CreateAnswer, Start, Answered
<1>2. DOMAIN answers' \subseteq DOMAIN answers \cup {job'.event.answer}
  BY <1>1, AnswersMade
<1>3. IsFiniteSet(DOMAIN answers \cup {job'.event.answer})
  BY FS_AddElement DEF FinitelyMany
<1>. QED
  BY <1>2, <1>3, FS_Subset DEF FinitelyMany

(* All of it.                                                              *)
StoryInv == /\ Inv /\ LogOK /\ AllDrawn /\ Final /\ Once
            /\ MirrorOK /\ Chronicle
            /\ First /\ Announced /\ AnswersAnnounced
            /\ FinitelyMany

LEMMA StoryInit == LogInit => StoryInv
<1>. SUFFICES ASSUME LogInit  PROVE StoryInv
  OBVIOUS
<1>1. /\ Init /\ log = << >> /\ seq = 0 /\ job = Idle
      /\ requests = << >> /\ answers = << >> /\ mirror = [r \in Requests |-> Absent]
  BY DEF LogInit, Init
<1>2. DOMAIN requests = {} /\ DOMAIN answers = {} /\ job.at = "idle"
  BY <1>1 DEF Idle
<1>3. MirrorOK
  <2>1. \A r \in Requests : mirror[r] = Card("absent", None, << >>)
    BY <1>1 DEF Absent, Card
  <2>2. DOMAIN << >> = {}
    OBVIOUS
  <2>. QED
    BY <2>1, <2>2 DEF MirrorOK
<1>. QED
  BY <1>1, <1>2, <1>3, InvInit, FS_EmptySet DEF StoryInv, LogOK, AllDrawn, Final, Once, Pending, Chronicle,
     First, Announced, AnswersAnnounced, Announcing, About, FinitelyMany

LEMMA StoryStep == ASSUME StoryInv, [LogNext]_logVars  PROVE StoryInv'
<1>1. CASE LogNext
  <2>1. Inv' /\ LogOK'
    BY <1>1, InvStep, LogStep DEF StoryInv, LogNext
  <2>2. AllDrawn' /\ Final' /\ Once'
    BY <1>1, FinalStep, OnceStep DEF StoryInv
  <2>3. MirrorOK' /\ Chronicle'
    BY <1>1, ChronicleStep DEF StoryInv
  <2>4. First' /\ Announced' /\ AnswersAnnounced'
    BY <1>1, FirstStep, AnnouncedStep, AnswersAnnouncedStep DEF StoryInv
  <2>5. FinitelyMany'
    BY <1>1, FiniteStep DEF StoryInv, LogNext
  <2>. QED
    BY <2>1, <2>2, <2>3, <2>4, <2>5 DEF StoryInv
<1>2. CASE UNCHANGED logVars
  <2>1. /\ UNCHANGED vars
        /\ UNCHANGED <<log, seq, job, mirror, drawn, requests, answers, torn>>
    BY <1>2 DEF logVars, vars, tables, events, ghosts
  <2>2. Inv'
    BY <2>1, InvStep DEF StoryInv
  <2>3. LogOK' /\ AllDrawn' /\ Final' /\ Once'
    BY <2>1 DEF StoryInv, LogOK, AllDrawn, Final, Last, Once, Pending
  <2>4. MirrorOK' /\ Chronicle'
    BY <2>1 DEF StoryInv, MirrorOK, Chronicle, Later
  <2>5. First' /\ Announced' /\ AnswersAnnounced'
    BY <2>1 DEF StoryInv, First, Announced, AnswersAnnounced, Announcing, About, AnswersTo
  <2>6. FinitelyMany'
    BY <2>1 DEF StoryInv, FinitelyMany
  <2>. QED
    BY <2>2, <2>3, <2>4, <2>5, <2>6 DEF StoryInv
<1>. QED
  BY <1>1, <1>2
=============================================================================
