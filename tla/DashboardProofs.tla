--------------------------- MODULE DashboardProofs --------------------------
(***************************************************************************)
(* What the page shows once it is caught up, for every set of requests,    *)
(* answers and clients, every buffer size and any number of broken         *)
(* connections, failed loads, reloads and kills.                           *)
(*                                                                         *)
(* Every card tells what the chronicle of EventLogProofs tells of its      *)
(* request, unless one of the events that the page lacks tells otherwise;  *)
(* and what the page lacks is on its way to it as long as the table has    *)
(* it.  Each action keeps that, `unheard` standing for what a list, a      *)
(* detail or the cards themselves may lack.                                *)
(***************************************************************************)
EXTENDS Dashboard, EventLogProofs

(* What x says of request r is what the events told last, unless one of U  *)
(* that the page lacks tells of it.                                        *)
Right(x, r, U) ==
  /\ (\A i \in U \cap About(r) : ~TellsStatus(log[i])) => x.status = mirror[r].status
  /\ (\A i \in U \cap About(r) : ~TellsAccepted(log[i])) => x.accepted = mirror[r].accepted

TopRight(x, r, U) ==
  \A a \in DOMAIN mirror[r].tally :
    (\A i \in U \cap About(r) : ~TellsVotes(log[i], a)) => x.top >= mirror[r].tally[a]

(* No card of C waits for its creation, and it is right but for U.         *)
CardsOK(C, U) ==
  \A r \in DOMAIN C :
    /\ r \in Requests \cap drawn /\ C[r] \in CardRecord
    /\ ~Announcing(r)
    /\ \A i \in U \cap About(r) : log[i].kind # "request.created"
    /\ r \notin torn => Right(C[r], r, U) /\ TopRight(C[r], r, U)

(* A request without a card in C has yet to be announced to the page.      *)
CardsComplete(C, U) ==
  \A r \in DOMAIN requests \ (torn \cup DOMAIN C) :
    Announcing(r) \/ \E i \in U \cap About(r) : log[i].kind = "request.created"

ReplyOK ==
  reply # None =>
    LET U == {i \in 1..seq : i > reply.at}
    IN  reply.at \in 0..seq /\ CardsOK(reply.rows, U) /\ CardsComplete(reply.rows, U)

After(n) == {i \in 1..seq : i > n}

(* A detail lacks no more than what came after its serving.                *)
DetailOK(d, U) ==
  /\ d.request \in Requests \cap drawn
  /\ d.status \in {"open", "closed"} /\ d.accepted \in Answers \cup {None}
  /\ d.answers \in SUBSET Answers
  /\ ~Announcing(d.request)
  /\ \A i \in U \cap About(d.request) : log[i].kind # "request.created"
  /\ d.request \notin torn => Right(d, d.request, U)

DetailsOK == \A d \in details : d.at \in 0..seq /\ DetailOK(d, After(d.at))

(* A row that the cards may lack is not read yet or in flight, and so is   *)
(* what was read after a row in flight; a raced card lacks others.         *)
FeedOK ==
  conn => /\ \A i \in table \cap unheard :
               log[i].request \in raced \/ i > read \/ i \in inflight
          /\ \A i \in inflight, j \in table : i < j /\ j <= read => j \in inflight

Counted(r) == {i \in About(r) : /\ log[i].kind = "answer.created"
                                /\ i <= read /\ i \notin inflight}

(* A card whose story is all in the buffer counts what this connection has *)
(* told since the creation.                                                *)
CountsOK ==
  conn => \A r \in DOMAIN cards :
            About(r) \subseteq table /\ cards[r].answers = None =>
              \A i \in About(r) :
                log[i].kind = "request.created" /\ i <= read /\ i \notin inflight =>
                  cards[r].count = Cardinality(Counted(r))

Shape ==
  /\ page # "live" => modal = None /\ asked = {} /\ details = {} /\ unheard = 1..seq
  /\ \A t \in tallies : t.votes \in Nat
  /\ read \in Nat /\ conn \in BOOLEAN

PageInv == /\ PageOK /\ Shape
           /\ CardsOK(cards, unheard)
           /\ page = "live" => CardsComplete(cards, unheard)
           /\ ReplyOK /\ DetailsOK /\ FeedOK /\ CountsOK

-----------------------------------------------------------------------------
(* The listeners.                                                          *)

LEMMA GreaterOfTwo ==
  ASSUME NEW m \in Nat, NEW n \in Nat
  PROVE  Greatest({m, n}) \in Nat /\ Greatest({m, n}) >= m /\ Greatest({m, n}) >= n
<1>1. \E k \in {m, n} : \A j \in {m, n} : j <= k
  OBVIOUS
<1>2. Greatest({m, n}) \in {m, n} /\ \A j \in {m, n} : j <= Greatest({m, n})
  BY <1>1 DEF Greatest
<1>. QED
  BY <1>2

LEMMA NewCardOK == NewCard \in CardRecord
<1>1. /\ "open" \in {"open", "closed"} /\ None \in Answers \cup {None}
      /\ 0 \in Nat /\ None \in (SUBSET Answers) \cup {None}
  OBVIOUS
<1>. QED
  BY <1>1, Zenon DEF NewCard, CardRecord

LEMMA CardFields ==
  ASSUME NEW x \in CardRecord
  PROVE  /\ x.status \in {"open", "closed"} /\ x.accepted \in Answers \cup {None}
         /\ x.count \in Nat /\ x.top \in Nat
         /\ x.answers \in (SUBSET Answers) \cup {None}
BY DEF CardRecord

CardsTyped(c) == \A q \in DOMAIN c : c[q] \in CardRecord

(* What the listener of e makes of the cards c.                            *)
Heard(c, d, e, r) ==
  /\ \A q : q # r => /\ q \in DOMAIN d <=> q \in DOMAIN c
                     /\ q \in DOMAIN c => d[q] = c[q]
  /\ e.kind = "request.created" => r \in DOMAIN d
  /\ r \in DOMAIN c \ DOMAIN d => e.kind = "request.deleted"
  /\ r \in DOMAIN d =>
       /\ e.kind # "request.deleted"
       /\ r \notin DOMAIN c => e.kind = "request.created" /\ d[r] = NewCard
       /\ d[r] \in CardRecord
       /\ r \in DOMAIN c =>
            /\ d[r].status = IF TellsStatus(e) THEN StatusIn(e) ELSE c[r].status
            /\ d[r].accepted = IF e.kind = "request.accepted" THEN e.answer
                               ELSE c[r].accepted
            /\ d[r].top >= c[r].top
            /\ e.kind = "answer.vote" => d[r].top >= e.votes
            /\ d[r].answers = None =>
                 /\ c[r].answers = None
                 /\ d[r].count = IF e.kind = "request.created" THEN 0
                                 ELSE IF e.kind = "answer.created" THEN c[r].count + 1
                                 ELSE c[r].count

(* One card y in the place of another is all that most listeners do.       *)
LEMMA HeardOne ==
  ASSUME NEW c, CardsTyped(c), NEW r \in DOMAIN c, NEW y \in CardRecord, NEW e,
         e.kind # "request.created", e.kind # "request.deleted",
         y.status = IF TellsStatus(e) THEN StatusIn(e) ELSE c[r].status,
         y.accepted = IF e.kind = "request.accepted" THEN e.answer ELSE c[r].accepted,
         y.top >= c[r].top,
         e.kind = "answer.vote" => y.top >= e.votes,
         y.answers = None =>
           /\ c[r].answers = None
           /\ y.count = IF e.kind = "answer.created" THEN c[r].count + 1 ELSE c[r].count
  PROVE  Heard(c, [c EXCEPT ![r] = y], e, r)
<1>. DEFINE d == [c EXCEPT ![r] = y]
<1>1. DOMAIN d = DOMAIN c /\ d[r] = y /\ \A q \in DOMAIN c : q # r => d[q] = c[q]
  OBVIOUS
<1>. HIDE DEF d
<1>2. Heard(c, d, e, r)
  BY <1>1 DEF Heard
<1>. QED
  BY <1>2 DEF d

LEMMA HeardVote ==
  ASSUME NEW c, CardsTyped(c), NEW r \in DOMAIN c, NEW e, NEW n \in Nat,
         e.kind = "answer.vote", e.votes = n
  PROVE  Heard(c, OnVoted(c, r, n), e, r)
<1>0. c[r] \in CardRecord
  BY DEF CardsTyped
<1>1. c[r].top \in Nat
  BY <1>0, CardFields
<1>2. PICK t \in Nat : t >= c[r].top /\ t >= n /\ t = Greatest({c[r].top, n})
  BY <1>1, GreaterOfTwo
<1>. DEFINE y == [c[r] EXCEPT !.top = t]
<1>3. /\ y \in CardRecord /\ y.top = t
      /\ y.status = c[r].status /\ y.accepted = c[r].accepted
      /\ y.count = c[r].count /\ y.answers = c[r].answers
  BY <1>0 DEF CardRecord
<1>4. OnVoted(c, r, n) = [c EXCEPT ![r] = y]
  BY <1>2 DEF OnVoted
<1>. HIDE DEF y
<1>5. Heard(c, [c EXCEPT ![r] = y], e, r)
  BY <1>2, <1>3, HeardOne DEF TellsStatus
<1>. QED
  BY <1>4, <1>5

LEMMA HeardCreated ==
  ASSUME NEW c, CardsTyped(c), NEW r, NEW e, e.kind = "request.created"
  PROVE  Heard(c, OnCreated(c, r), e, r)
<1>. DEFINE y == [c[r] EXCEPT !.status = "open", !.count = 0]
            x == IF r \in DOMAIN c THEN y ELSE NewCard
            d == OnCreated(c, r)
<1>1. d = Put(c, r, x)
  BY DEF OnCreated
<1>2. ASSUME r \in DOMAIN c
      PROVE  /\ y \in CardRecord /\ y.status = "open" /\ y.count = 0
             /\ y.accepted = c[r].accepted /\ y.top = c[r].top
             /\ y.answers = c[r].answers /\ c[r].top \in Nat
  <2>1. c[r] \in CardRecord
    BY <1>2 DEF CardsTyped
  <2>. QED
    BY <2>1 DEF CardRecord
<1>. HIDE DEF y
<1>3. /\ r \in DOMAIN c => x = y
      /\ r \notin DOMAIN c => x = NewCard
  OBVIOUS
<1>. HIDE DEF x, d
<1>4. /\ DOMAIN d = DOMAIN c \cup {r} /\ d[r] = x
      /\ \A q \in DOMAIN c : q # r => d[q] = c[q]
  BY <1>1 DEF Put
<1>5. x \in CardRecord
  BY <1>2, <1>3, NewCardOK
<1>6. Heard(c, d, e, r)
  BY <1>2, <1>3, <1>4, <1>5 DEF Heard, TellsStatus, StatusIn
<1>. QED
  BY <1>6 DEF d

LEMMA HeardAnswer ==
  ASSUME NEW c, CardsTyped(c), NEW r \in DOMAIN c, NEW e, NEW a \in Answers,
         e.kind = "answer.created"
  PROVE  Heard(c, OnAnswered(c, r, a), e, r)
<1>. DEFINE has == c[r].answers # None
            now == IF has THEN c[r].answers \cup {a} ELSE IF modal = r THEN {a} ELSE None
<1>0. c[r] \in CardRecord
  BY DEF CardsTyped
<1>1. /\ c[r].count \in Nat /\ c[r].answers \in (SUBSET Answers) \cup {None}
      /\ c[r].top \in Nat
  BY <1>0, CardFields
<1>2. CASE has /\ a \in c[r].answers
  <2>1. OnAnswered(c, r, a) = c
    BY <1>2 DEF OnAnswered
  <2>2. Heard(c, c, e, r)
    BY <1>0, <1>1, <1>2 DEF Heard, TellsStatus
  <2>. QED
    BY <2>1, <2>2
<1>3. CASE ~(has /\ a \in c[r].answers)
  <2>. DEFINE y == [c[r] EXCEPT !.count = @ + 1, !.answers = now]
  <2>1. OnAnswered(c, r, a) = [c EXCEPT ![r] = y]
    BY <1>3 DEF OnAnswered
  <2>2. now \in (SUBSET Answers) \cup {None} /\ (now = None => c[r].answers = None)
    BY <1>1, UndefinedAssumption
  <2>3. c[r].count + 1 \in Nat
    BY <1>1
  <2>. HIDE DEF now
  <2>4. /\ y \in CardRecord /\ y.count = c[r].count + 1 /\ y.answers = now
        /\ y.status = c[r].status /\ y.accepted = c[r].accepted /\ y.top = c[r].top
    BY <1>0, <2>2, <2>3 DEF CardRecord
  <2>. HIDE DEF y
  <2>5. Heard(c, [c EXCEPT ![r] = y], e, r)
    BY <1>1, <2>2, <2>4, HeardOne DEF TellsStatus
  <2>. QED
    BY <2>1, <2>5
<1>. QED
  BY <1>2, <1>3

LEMMA HeardRest ==
  ASSUME NEW c, CardsTyped(c), NEW r \in DOMAIN c, NEW e, e.request = r
  PROVE  /\ e.kind = "request.closed" => Heard(c, OnEvent(c, e), e, r)
         /\ e.kind = "request.deleted" => Heard(c, OnEvent(c, e), e, r)
         /\ e.kind = "request.accepted" /\ e.answer \in Answers =>
              Heard(c, OnEvent(c, e), e, r)
<1>0. c[r] \in CardRecord
  BY DEF CardsTyped
<1>1. c[r].top \in Nat
  BY <1>0, CardFields
<1>2. ASSUME e.kind = "request.closed"  PROVE Heard(c, OnEvent(c, e), e, r)
  <2>. DEFINE y == [c[r] EXCEPT !.status = "closed"]
  <2>1. OnEvent(c, e) = [c EXCEPT ![r] = y]
    BY <1>2 DEF OnEvent
  <2>2. /\ y \in CardRecord /\ y.status = "closed" /\ y.count = c[r].count
        /\ y.accepted = c[r].accepted /\ y.top = c[r].top /\ y.answers = c[r].answers
    BY <1>0 DEF CardRecord
  <2>. HIDE DEF y
  <2>3. Heard(c, [c EXCEPT ![r] = y], e, r)
    BY <1>1, <1>2, <2>2, HeardOne DEF TellsStatus, StatusIn
  <2>. QED
    BY <2>1, <2>3
<1>3. ASSUME e.kind = "request.accepted", e.answer \in Answers
      PROVE  Heard(c, OnEvent(c, e), e, r)
  <2>. DEFINE y == [c[r] EXCEPT !.accepted = e.answer]
  <2>1. OnEvent(c, e) = [c EXCEPT ![r] = y]
    BY <1>3 DEF OnEvent
  <2>2. /\ y \in CardRecord /\ y.status = c[r].status /\ y.count = c[r].count
        /\ y.accepted = e.answer /\ y.top = c[r].top /\ y.answers = c[r].answers
    BY <1>0, <1>3 DEF CardRecord
  <2>. HIDE DEF y
  <2>3. Heard(c, [c EXCEPT ![r] = y], e, r)
    BY <1>1, <1>3, <2>2, HeardOne DEF TellsStatus
  <2>. QED
    BY <2>1, <2>3
<1>4. ASSUME e.kind = "request.deleted"  PROVE Heard(c, OnEvent(c, e), e, r)
  <2>. DEFINE d == OnEvent(c, e)
  <2>1. d = Only(c, DOMAIN c \ {r})
    BY <1>4 DEF OnEvent
  <2>. HIDE DEF d
  <2>2. DOMAIN d = DOMAIN c \ {r} /\ \A q \in DOMAIN c \ {r} : d[q] = c[q]
    BY <2>1 DEF Only
  <2>3. Heard(c, d, e, r)
    BY <1>4, <2>2 DEF Heard
  <2>. QED
    BY <2>3 DEF d
<1>. QED
  BY <1>2, <1>3, <1>4

LEMMA OnEventIs ==
  ASSUME NEW c, CardsTyped(c), NEW e \in Events
  PROVE  Heard(c, OnEvent(c, e), e, e.request)
<1>. DEFINE r == e.request
<1>1. CASE e.kind = "request.created"
  <2>1. OnEvent(c, e) = OnCreated(c, r)
    BY <1>1 DEF OnEvent
  <2>. QED
    BY <1>1, <2>1, HeardCreated
<1>2. CASE e.kind # "request.created" /\ r \notin DOMAIN c
  <2>1. OnEvent(c, e) = c
    BY <1>2 DEF OnEvent
  <2>2. Heard(c, c, e, r)
    BY <1>2 DEF Heard
  <2>. QED
    BY <2>1, <2>2
<1>3. ASSUME r \in DOMAIN c, NEW a \in Answers, e = Answered(r, a)
      PROVE  Heard(c, OnEvent(c, e), e, r)
  <2>1. e.kind = "answer.created" /\ e.answer = a
    BY <1>3 DEF Answered
  <2>2. OnEvent(c, e) = OnAnswered(c, r, a)
    BY <1>3, <2>1 DEF OnEvent
  <2>. QED
    BY <1>3, <2>1, <2>2, HeardAnswer
<1>4. ASSUME r \in DOMAIN c, NEW a \in Answers, NEW n \in Nat, e = Voted(r, a, n)
      PROVE  Heard(c, OnEvent(c, e), e, r)
  <2>1. e.kind = "answer.vote" /\ e.votes = n
    BY <1>4 DEF Voted
  <2>2. OnEvent(c, e) = OnVoted(c, r, n)
    BY <1>4, <2>1 DEF OnEvent
  <2>. QED
    BY <1>4, <2>1, <2>2, HeardVote
<1>5. ASSUME r \in DOMAIN c, e = ClosedEvent(r) \/ e = Deleted(r)
      PROVE  Heard(c, OnEvent(c, e), e, r)
  <2>1. e.kind = "request.closed" \/ e.kind = "request.deleted"
    BY <1>5 DEF ClosedEvent, Deleted
  <2>. QED
    BY <1>5, <2>1, HeardRest
<1>6. ASSUME r \in DOMAIN c, NEW a \in Answers, e = Accepted(r, a)
      PROVE  Heard(c, OnEvent(c, e), e, r)
  <2>1. e.kind = "request.accepted" /\ e.answer = a
    BY <1>6 DEF Accepted
  <2>. QED
    BY <1>6, <2>1, HeardRest
<1>7. \/ \E x \in Clients : e = Created(r, x)
      \/ \E a \in Answers : e = Answered(r, a)
      \/ e = ClosedEvent(r) \/ e = Deleted(r)
      \/ \E a \in Answers : e = Accepted(r, a)
      \/ \E a \in Answers, n \in Nat : e = Voted(r, a, n)
  BY DEF Events, Created, Answered, ClosedEvent, Deleted, Accepted, Voted
<1>8. \A x : e = Created(r, x) => e.kind = "request.created"
  BY DEF Created
<1>. QED
  BY <1>1, <1>2, <1>3, <1>4, <1>5, <1>6, <1>7, <1>8

(* What a step of the server tells, and of what.                           *)
LEMMA MirrorStep ==
  ASSUME StoryInv, LogNext
  PROVE  \/ UNCHANGED <<seq, log, mirror>>
         \/ /\ AppendEvent /\ job.at = "append" /\ job.event \in Events
            /\ seq' = seq + 1 /\ job'.at # "append"
            /\ \A i \in 1..seq : log'[i] = log[i]
            /\ log'[seq + 1] = job.event
            /\ \A r : r # job.event.request => mirror'[r] = mirror[r]
            /\ LET e == job.event
                   m == mirror[job.event.request]
                   n == mirror'[job.event.request]
               IN  /\ ~TellsStatus(e) => n.status = m.status
                   /\ ~TellsAccepted(e) => n.accepted = m.accepted
                   /\ \A a \in DOMAIN n.tally : ~TellsVotes(e, a) =>
                        a \in DOMAIN m.tally /\ n.tally[a] = m.tally[a]
<1>. DEFINE e == job.event
            q == job.event.request
<1>0. Inv /\ LogOK /\ MirrorOK /\ DOMAIN mirror = Requests
  BY DEF StoryInv, Inv, Matching
<1>1. ASSUME job.event \in Events,
             mirror' = [mirror EXCEPT ![q] = Applied(@, e)]
      PROVE  /\ \A r : r # q => mirror'[r] = mirror[r]
             /\ ~TellsStatus(e) => mirror'[q].status = mirror[q].status
             /\ ~TellsAccepted(e) => mirror'[q].accepted = mirror[q].accepted
             /\ \A a \in DOMAIN mirror'[q].tally : ~TellsVotes(e, a) =>
                  a \in DOMAIN mirror[q].tally /\ mirror'[q].tally[a] = mirror[q].tally[a]
  <2>1. q \in Requests
    BY <1>1, EventRequest
  <2>2. PICK s, x, t : mirror[q] = Card(s, x, t)
    BY <1>0, <2>1 DEF MirrorOK
  <2>3. PICK s2, x2, t2 :
           /\ Applied(Card(s, x, t), e) = Card(s2, x2, t2)
           /\ s2 = IF TellsStatus(e) THEN StatusIn(e) ELSE s
           /\ x2 = IF TellsAccepted(e) THEN AcceptedIn(e) ELSE x
           /\ \A a \in DOMAIN t2 :
                IF TellsVotes(e, a)
                THEN e.kind \in {"answer.created", "answer.vote"} /\ t2[a] = VotesIn(e)
                ELSE a \in DOMAIN t /\ t2[a] = t[a]
    BY <1>1, AppliedTells
  <2>4. mirror'[q] = Card(s2, x2, t2) /\ \A r : r # q => mirror'[r] = mirror[r]
    <3>1. mirror'[q] = Applied(mirror[q], e) /\ \A r \in Requests : r # q => mirror'[r] = mirror[r]
      BY <1>0, <1>1, <2>1
    <3>2. \A r : r \notin Requests => mirror'[r] = mirror[r]
      BY <1>0, <1>1
    <3>. QED
      BY <2>2, <2>3, <3>1, <3>2
  <2>5. /\ Card(s, x, t).status = s /\ Card(s, x, t).accepted = x /\ Card(s, x, t).tally = t
        /\ Card(s2, x2, t2).status = s2 /\ Card(s2, x2, t2).accepted = x2
        /\ Card(s2, x2, t2).tally = t2
    BY DEF Card
  <2>. QED
    BY <2>2, <2>3, <2>4, <2>5
<1>. QED
  BY <1>0, <1>1, AppendOrNot

(* An event that the page has yet to hear makes no card wrong.             *)
LEMMA RightStays ==
  ASSUME StoryInv, LogNext, NEW r \in Requests, NEW x, NEW U \in SUBSET (1..seq),
         NEW V, V = U \cup (seq + 1)..seq', Right(x, r, U)
  PROVE  Right(x, r, V)'
<1>0. seq \in Nat
  BY LimitAssumption DEF StoryInv, Inv, ControlOK
<1>1. CASE UNCHANGED <<seq, log, mirror>>
  <2>1. V = U
    BY <1>0, <1>1
  <2>. QED
    BY <1>1, <2>1 DEF Right, About
<1>2. CASE ~UNCHANGED <<seq, log, mirror>>
  <2>. DEFINE e == job.event
  <2>1. /\ seq' = seq + 1
        /\ \A i \in 1..seq : log'[i] = log[i]
        /\ log'[seq + 1] = e
        /\ r # e.request => mirror'[r] = mirror[r]
        /\ r = e.request /\ ~TellsStatus(e) => mirror'[r].status = mirror[r].status
        /\ r = e.request /\ ~TellsAccepted(e) => mirror'[r].accepted = mirror[r].accepted
    BY <1>2, MirrorStep
  <2>. HIDE DEF e
  <2>2. U \cap About(r) \subseteq V \cap About(r)' /\ seq + 1 \in V
    BY <1>0, <2>1 DEF About
  <2>3. r = e.request => seq + 1 \in V \cap About(r)'
    BY <1>0, <2>1, <2>2 DEF About
  <2>4. \A i \in U \cap About(r) : log'[i] = log[i]
    BY <2>1
  <2>5. ASSUME \A i \in V \cap About(r)' : ~TellsStatus(log'[i])
        PROVE  x.status = mirror'[r].status
    BY <2>1, <2>2, <2>3, <2>4, <2>5 DEF Right
  <2>6. ASSUME \A i \in V \cap About(r)' : ~TellsAccepted(log'[i])
        PROVE  x.accepted = mirror'[r].accepted
    BY <2>1, <2>2, <2>3, <2>4, <2>6 DEF Right
  <2>. QED
    BY <2>5, <2>6 DEF Right
<1>. QED
  BY <1>1, <1>2

LEMMA TopStays ==
  ASSUME StoryInv, LogNext, NEW r \in Requests, NEW x, NEW U \in SUBSET (1..seq),
         NEW V, V = U \cup (seq + 1)..seq', TopRight(x, r, U)
  PROVE  TopRight(x, r, V)'
<1>0. seq \in Nat
  BY LimitAssumption DEF StoryInv, Inv, ControlOK
<1>1. CASE UNCHANGED <<seq, log, mirror>>
  <2>1. V = U
    BY <1>0, <1>1
  <2>. QED
    BY <1>1, <2>1 DEF TopRight, About
<1>2. CASE ~UNCHANGED <<seq, log, mirror>>
  <2>. DEFINE e == job.event
  <2>1. /\ seq' = seq + 1
        /\ \A i \in 1..seq : log'[i] = log[i]
        /\ log'[seq + 1] = e
        /\ r # e.request => mirror'[r] = mirror[r]
        /\ r = e.request => \A a \in DOMAIN mirror'[r].tally : ~TellsVotes(e, a) =>
             a \in DOMAIN mirror[r].tally /\ mirror'[r].tally[a] = mirror[r].tally[a]
    BY <1>2, MirrorStep
  <2>. HIDE DEF e
  <2>2. U \cap About(r) \subseteq V \cap About(r)' /\ seq + 1 \in V
    BY <1>0, <2>1 DEF About
  <2>3. r = e.request => seq + 1 \in V \cap About(r)'
    BY <1>0, <2>1, <2>2 DEF About
  <2>4. \A i \in U \cap About(r) : log'[i] = log[i]
    BY <2>1
  <2>5. ASSUME NEW a \in DOMAIN mirror'[r].tally,
               \A i \in V \cap About(r)' : ~TellsVotes(log'[i], a)
        PROVE  x.top >= mirror'[r].tally[a]
    BY <2>1, <2>2, <2>3, <2>4, <2>5 DEF TopRight
  <2>. QED
    BY <2>5 DEF TopRight
<1>. QED
  BY <1>1, <1>2

(* Nor does it announce a request that was announced before.               *)
LEMMA AnnouncedStays ==
  ASSUME StoryInv, LogNext, NEW r \in Requests \cap drawn, ~Announcing(r),
         NEW U \in SUBSET (1..seq), NEW V, V = U \cup (seq + 1)..seq',
         \A i \in U \cap About(r) : log[i].kind # "request.created"
  PROVE  /\ r \in drawn' /\ ~Announcing(r)'
         /\ \A i \in V \cap About(r)' : log'[i].kind # "request.created"
<1>0. /\ seq \in Nat /\ Inv /\ LogOK /\ Next /\ drawn \subseteq drawn'
  BY RequestsStep, LimitAssumption DEF StoryInv, Inv, ControlOK, LogNext
<1>1. ~Announcing(r)'
  BY <1>0, AnnouncingStep DEF CreateRequest, InsertRequest, Draw
<1>2. ASSUME NEW i \in V \cap About(r)'  PROVE log'[i].kind # "request.created"
  <2>1. CASE UNCHANGED <<seq, log, mirror>>
    <3>1. i \in U \cap About(r)
      BY <1>0, <1>2, <2>1 DEF About
    <3>. QED
      BY <2>1, <3>1
  <2>2. CASE ~UNCHANGED <<seq, log, mirror>>
    <3>1. /\ job.at = "append" /\ seq' = seq + 1
          /\ \A k \in 1..seq : log'[k] = log[k]
          /\ log'[seq + 1] = job.event
      BY <2>2, MirrorStep
    <3>2. CASE i = seq + 1
      BY <1>2, <3>1, <3>2 DEF About, Announcing
    <3>3. CASE i # seq + 1
      <4>1. i \in U \cap About(r)
        BY <1>0, <1>2, <3>1, <3>3 DEF About
      <4>. QED
        BY <3>1, <4>1
    <3>. QED
      BY <3>2, <3>3
  <2>. QED
    BY <2>1, <2>2
<1>. QED
  BY <1>0, <1>1, <1>2

LEMMA CardsStay ==
  ASSUME StoryInv, LogNext, NEW C, NEW U \in SUBSET (1..seq),
         NEW V, V = U \cup (seq + 1)..seq', CardsOK(C, U)
  PROVE  CardsOK(C, V)'
<1>. SUFFICES ASSUME NEW r \in DOMAIN C
              PROVE  /\ r \in Requests \cap drawn' /\ C[r] \in CardRecord
                     /\ ~Announcing(r)'
                     /\ \A i \in V \cap About(r)' : log'[i].kind # "request.created"
                     /\ r \notin torn' => Right(C[r], r, V)' /\ TopRight(C[r], r, V)'
  BY DEF CardsOK
<1>1. /\ r \in Requests \cap drawn /\ C[r] \in CardRecord /\ ~Announcing(r)
      /\ \A i \in U \cap About(r) : log[i].kind # "request.created"
      /\ r \notin torn => Right(C[r], r, U) /\ TopRight(C[r], r, U)
  BY DEF CardsOK
<1>2. /\ r \in drawn' /\ ~Announcing(r)'
      /\ \A i \in V \cap About(r)' : log'[i].kind # "request.created"
  BY <1>1, AnnouncedStays
<1>3. torn \subseteq torn'
  BY PendingGoes DEF StoryInv, LogNext
<1>4. ASSUME r \notin torn'
      PROVE  Right(C[r], r, V)' /\ TopRight(C[r], r, V)'
  <2>1. r \in Requests /\ Right(C[r], r, U) /\ TopRight(C[r], r, U)
    BY <1>1, <1>3, <1>4
  <2>2. Right(C[r], r, V)'
    BY <2>1, RightStays
  <2>3. TopRight(C[r], r, V)'
    BY <2>1, TopStays
  <2>. QED
    BY <2>2, <2>3
<1>. QED
  BY <1>1, <1>2, <1>4

LEMMA DetailStays ==
  ASSUME StoryInv, LogNext, NEW d, NEW U \in SUBSET (1..seq),
         NEW V, V = U \cup (seq + 1)..seq', DetailOK(d, U)
  PROVE  DetailOK(d, V)'
<1>1. PICK r : r = d.request
  OBVIOUS
<1>2. /\ r \in Requests \cap drawn /\ ~Announcing(r)
      /\ \A i \in U \cap About(r) : log[i].kind # "request.created"
      /\ r \notin torn => Right(d, r, U)
  BY <1>1 DEF DetailOK
<1>3. /\ r \in drawn' /\ ~Announcing(r)'
      /\ \A i \in V \cap About(r)' : log'[i].kind # "request.created"
  BY <1>2, AnnouncedStays
<1>4. torn \subseteq torn'
  BY PendingGoes DEF StoryInv, LogNext
<1>5. ASSUME r \notin torn'  PROVE Right(d, r, V)'
  <2>1. r \in Requests /\ Right(d, r, U)
    BY <1>2, <1>4, <1>5
  <2>. QED
    BY <2>1, RightStays
<1>. QED
  BY <1>1, <1>2, <1>3, <1>5 DEF DetailOK, Announcing, About, Right

LEMMA CompleteStays ==
  ASSUME StoryInv, LogNext, NEW C, NEW U \in SUBSET (1..seq),
         NEW V, V = U \cup (seq + 1)..seq', CardsComplete(C, U)
  PROVE  CardsComplete(C, V)'
<1>0. /\ seq \in Nat /\ Inv /\ LogOK /\ Next /\ torn \subseteq torn'
  BY PendingGoes, LimitAssumption DEF StoryInv, Inv, ControlOK, LogNext
<1>00. seq <= seq' /\ seq' \in Nat /\ \A i \in 1..seq : log'[i] = log[i]
  BY <1>0, LogStep
<1>. SUFFICES ASSUME NEW r \in DOMAIN requests' \ (torn' \cup DOMAIN C), ~Announcing(r)'
              PROVE  \E i \in V \cap About(r)' : log'[i].kind = "request.created"
  BY DEF CardsComplete
<1>1. ASSUME NEW c \in Clients, CreateRequest(r, c)  PROVE FALSE
  BY <1>1 DEF CreateRequest, Start, Created, Announcing
<1>2. r \in DOMAIN requests /\ r \notin torn
  BY <1>0, <1>1, RequestsStep
<1>3. CASE Announcing(r)
  <2>1. job' # job
    BY <1>3 DEF Announcing
  <2>2. AppendEvent
    BY <1>0, <1>3, <2>1, PendingGoes DEF Announcing
  <2>3. seq' = seq + 1
    BY <2>2 DEF AppendEvent
  <2>4. log'[seq + 1] = job.event
    BY <1>0, <2>3, AppendOrNot
  <2>5. seq + 1 \in V \cap About(r)'
    BY <1>0, <1>3, <2>3, <2>4 DEF Announcing, About
  <2>. QED
    BY <1>3, <2>4, <2>5 DEF Announcing
<1>4. CASE \E i \in U \cap About(r) : log[i].kind = "request.created"
  <2>1. PICK i \in U \cap About(r) : log[i].kind = "request.created"
    BY <1>4
  <2>2. i \in V \cap About(r)' /\ log'[i] = log[i]
    BY <1>0, <1>00 DEF About
  <2>. QED
    BY <2>1, <2>2
<1>. QED
  BY <1>2, <1>3, <1>4 DEF CardsComplete

(* The page keeps its invariant while the server takes a step.             *)
LEMMA FeedStays ==
  ASSUME StoryInv, PageInv, LogNext, unheard' = unheard \cup (seq + 1)..seq',
         UNCHANGED <<cards, raced, read>>,
         \/ UNCHANGED <<conn, inflight>>
         \/ conn' = FALSE /\ inflight' = {}
  PROVE  FeedOK' /\ CountsOK'
<1>0. /\ seq \in Nat /\ Inv /\ LogOK /\ LogNext /\ [Next]_vars /\ table \subseteq 1..seq
      /\ read \in Nat /\ read <= seq /\ inflight \subseteq 1..read
  BY LimitAssumption DEF StoryInv, Inv, ControlOK, LogNext, PageInv, PageOK, Shape
<1>1. /\ seq <= seq' /\ seq' \in Nat
      /\ \A i \in 1..seq : log'[i] = log[i]
  BY <1>0, LogStep
<1>00. conn => /\ \A i \in table \cap unheard :
                    log[i].request \in raced \/ i > read \/ i \in inflight
               /\ \A i \in inflight, j \in table : i < j /\ j <= read => j \in inflight
  BY DEF PageInv, FeedOK
<1>2. \A i \in table' : i \in table \/ i > seq
  BY <1>0, TableStep
<1>02. table' \subseteq 1..seq'
  BY <1>0, InvStep DEF Inv, ControlOK
<1>3. CASE ~conn'
  BY <1>3 DEF FeedOK, CountsOK
<1>4. CASE conn'
  <2>1. conn /\ inflight' = inflight /\ read' = read
    BY <1>4
  <2>2. \A i \in table' \cap unheard' :
          log'[i].request \in raced' \/ i > read' \/ i \in inflight'
    <3>. TAKE i \in table' \cap unheard'
    <3>1. CASE i > seq
      <4>1. i \in Int
        BY <1>1, <1>02
      <4>2. i > read
        BY <1>0, <3>1, <4>1
      <4>. QED
        BY <2>1, <4>2
    <3>2. CASE i \in table /\ ~(i > seq)
      <4>1. i \in unheard /\ log'[i] = log[i]
        BY <1>0, <1>1, <3>2
      <4>. QED
        BY <1>00, <2>1, <3>2, <4>1
    <3>. QED
      BY <1>2, <3>1, <3>2
  <2>3. ASSUME NEW i \in inflight', NEW j \in table', i < j, j <= read'
        PROVE  j \in inflight'
    <3>1. j \in table
      BY <1>0, <1>1, <1>2, <1>02, <2>1, <2>3
    <3>. QED
      BY <1>00, <2>1, <2>3, <3>1
  <2>4. ASSUME NEW r \in DOMAIN cards', About(r)' \subseteq table', cards'[r].answers = None,
               NEW i \in About(r)', log'[i].kind = "request.created", i <= read',
               i \notin inflight'
        PROVE  cards'[r].count = Cardinality(Counted(r)')
    <3>1. About(r) \subseteq table
      <4>1. ASSUME NEW j \in About(r)  PROVE j \in table
        <5>1. j \in 1..seq /\ j \in About(r)'
          BY <1>0, <1>1 DEF About
        <5>. QED
          BY <1>0, <1>2, <2>4, <5>1
      <4>. QED
        BY <4>1
    <3>2. \A j : j \in About(r)' /\ j <= read <=> j \in About(r) /\ j <= read
      <4>. TAKE j
      <4>1. ASSUME j <= read  PROVE j \in 1..seq' <=> j \in 1..seq
        <5>1. ASSUME j \in 1..seq'  PROVE j \in 1..seq
          BY <1>0, <4>1, <5>1
        <5>. QED
          BY <1>0, <1>1, <5>1
      <4>. QED
        BY <1>1, <4>1 DEF About
    <3>3. i \in About(r) /\ log[i].kind = "request.created" /\ i <= read /\ i \notin inflight
      <4>1. i \in About(r)
        BY <2>1, <2>4, <3>2
      <4>. QED
        BY <1>0, <1>1, <2>1, <2>4, <4>1 DEF About
    <3>4. cards[r].count = Cardinality(Counted(r))
      BY <2>1, <2>4, <3>1, <3>3 DEF PageInv, CountsOK
    <3>5. Counted(r)' = Counted(r)
      <4>1. \A j \in About(r) : log'[j] = log[j]
        BY <1>1 DEF About
      <4>. QED
        BY <2>1, <3>2, <4>1 DEF Counted
    <3>. QED
      BY <3>4, <3>5
  <2>. QED
    BY <2>2, <2>3, <2>4 DEF FeedOK, CountsOK
<1>. QED
  BY <1>3, <1>4

LEMMA ServerKeeps ==
  ASSUME StoryInv, PageInv, LogNext, unheard' = unheard \cup (seq + 1)..seq',
         UNCHANGED <<page, reply, cards, modal, asked, details, raced, read>>,
         \/ UNCHANGED <<conn, inflight>>
         \/ conn' = FALSE /\ inflight' = {},
         \A t \in tallies' : t.votes \in Nat
  PROVE  PageInv'
<1>0. /\ seq \in Nat /\ Inv /\ LogOK /\ LogNext /\ torn \subseteq torn'
      /\ PageOK /\ Shape /\ CardsOK(cards, unheard) /\ ReplyOK /\ DetailsOK
  BY PendingGoes, LimitAssumption DEF StoryInv, Inv, ControlOK, LogNext, PageInv
<1>1. LogOK' /\ seq <= seq' /\ seq' \in Nat
  BY <1>0, LogStep
<1>2. PageOK'
  <2>1. Len(log') = seq' /\ unheard' \subseteq 1..seq'
    BY <1>0, <1>1 DEF PageOK, LogOK
  <2>2. inflight' \subseteq 1..read' /\ read' <= seq'
    <3>1. inflight \subseteq 1..read /\ read <= seq /\ read \in Nat
      BY <1>0 DEF PageOK, Shape
    <3>2. inflight' \subseteq inflight /\ read' = read
      OBVIOUS
    <3>3. read <= seq'
      BY <1>0, <1>1, <3>1
    <3>. QED
      BY <3>1, <3>2, <3>3
  <2>. QED
    BY <1>0, <2>1, <2>2 DEF PageOK
<1>3. Shape'
  <2>1. page # "live" => unheard' = 1..seq'
    BY <1>0, <1>1 DEF Shape
  <2>2. conn' \in BOOLEAN
    BY <1>0 DEF Shape
  <2>. QED
    BY <1>0, <2>1, <2>2 DEF Shape
<1>4. unheard \in SUBSET (1..seq)
  BY <1>0 DEF PageOK
<1>5. PICK C, U, V : C = cards /\ U = unheard /\ V = unheard'
  OBVIOUS
<1>6. CardsOK(cards, unheard)'
  <2>1. CardsOK(C, V)'
    BY <1>0, <1>4, <1>5, CardsStay
  <2>. QED
    BY <1>5, <2>1 DEF CardsOK, Right, TopRight
<1>7. page = "live" => CardsComplete(cards, unheard)'
  <2>1. ASSUME page = "live"  PROVE CardsComplete(C, V)'
    BY <1>0, <1>4, <1>5, <2>1, CompleteStays DEF PageInv
  <2>. QED
    BY <1>5, <2>1 DEF CardsComplete
<1>8. ReplyOK'
  <2>. SUFFICES ASSUME reply # None  PROVE ReplyOK'
    BY DEF ReplyOK
  <2>1. PICK R, P, at : R = reply /\ P = reply.rows /\ at = reply.at
    OBVIOUS
  <2>. DEFINE A == {i \in 1..seq : i > at}
              B == {i \in 1..seq' : i > at}
  <2>2. at \in 0..seq /\ CardsOK(P, A) /\ CardsComplete(P, A)
    BY <1>0, <2>1 DEF ReplyOK
  <2>3. B = A \cup (seq + 1)..seq' /\ at \in 0..seq' /\ A \in SUBSET (1..seq)
    BY <1>0, <1>1, <2>2
  <2>4. PICK X, Y : X = A /\ Y = B
    OBVIOUS
  <2>5. Y = X \cup (seq + 1)..seq' /\ X \in SUBSET (1..seq) /\ CardsOK(P, X) /\ CardsComplete(P, X)
    <3>. HIDE DEF A, B
    <3>. QED
      BY <2>2, <2>3, <2>4
  <2>6. CardsOK(P, Y)'
    BY <1>0, <2>5, CardsStay
  <2>7. CardsComplete(P, Y)'
    BY <1>0, <2>5, CompleteStays
  <2>8. CardsOK(P, {i \in 1..seq : i > at})'
    BY <2>4, <2>6 DEF CardsOK, Right, TopRight
  <2>9. CardsComplete(P, {i \in 1..seq : i > at})'
    BY <2>4, <2>7 DEF CardsComplete
  <2>. QED
    BY <2>1, <2>3, <2>8, <2>9 DEF ReplyOK, CardsOK, CardsComplete, Right, TopRight
<1>9. DetailsOK'
  <2>. SUFFICES ASSUME NEW d \in details
                PROVE  d.at \in 0..seq' /\ DetailOK(d, After(d.at))'
    BY DEF DetailsOK
  <2>1. d.at \in 0..seq /\ DetailOK(d, After(d.at))
    BY <1>0 DEF DetailsOK
  <2>2. d.at \in 0..seq'
    BY <1>0, <1>1, <2>1
  <2>3. PICK X, Y : X = After(d.at) /\ Y = {i \in 1..seq' : i > d.at}
    OBVIOUS
  <2>4. Y = X \cup (seq + 1)..seq' /\ X \in SUBSET (1..seq)
    BY <1>0, <1>1, <2>1, <2>3 DEF After
  <2>5. DetailOK(d, Y)'
    BY <1>0, <2>1, <2>3, <2>4, DetailStays
  <2>. QED
    BY <2>2, <2>3, <2>5 DEF DetailOK, After, Right
<1>10. FeedOK' /\ CountsOK'
  BY FeedStays
<1>. QED
  BY <1>2, <1>3, <1>6, <1>7, <1>8, <1>9, <1>10 DEF PageInv

-----------------------------------------------------------------------------
(* Steps of the page leave the server alone.                               *)

LEMMA SameServer ==
  ASSUME UNCHANGED logVars
  PROVE  UNCHANGED <<requests, answers, votes, seq, table, mirror, job, up, drawn, torn, log>>
BY DEF logVars, vars, tables, events, ghosts

LEMMA CardsKeep ==
  ASSUME UNCHANGED logVars, NEW C, NEW U, C = cards', U = unheard',
         CardsOK(C, U)
  PROVE  CardsOK(cards, unheard)'
<1>1. UNCHANGED <<seq, mirror, job, drawn, torn, log>>
  BY SameServer
<1>. QED
  BY <1>1 DEF CardsOK, Right, TopRight, About, Announcing

LEMMA CompleteKeep ==
  ASSUME UNCHANGED logVars, NEW C, NEW U, C = cards', U = unheard', CardsComplete(C, U)
  PROVE  CardsComplete(cards, unheard)'
<1>1. UNCHANGED <<seq, requests, job, torn, log>>
  BY SameServer
<1>. QED
  BY <1>1 DEF CardsComplete, About, Announcing

LEMMA ReplyKeeps ==
  ASSUME UNCHANGED logVars, ReplyOK, reply' \in {reply, None}
  PROVE  ReplyOK'
<1>1. UNCHANGED <<seq, requests, mirror, job, drawn, torn, log>>
  BY SameServer
<1>2. CASE reply' = None
  BY <1>2 DEF ReplyOK
<1>3. CASE reply' = reply
  BY <1>1, <1>3 DEF ReplyOK, CardsOK, CardsComplete, Right, TopRight, About, Announcing
<1>. QED
  BY <1>2, <1>3

LEMMA DetailsKeep ==
  ASSUME UNCHANGED logVars, DetailsOK, details' \subseteq details
  PROVE  DetailsOK'
<1>1. UNCHANGED <<seq, mirror, job, drawn, torn, log>>
  BY SameServer
<1>. QED
  BY <1>1 DEF DetailsOK, DetailOK, After, Right, About, Announcing

LEMMA FeedKeeps ==
  ASSUME UNCHANGED logVars, UNCHANGED <<feed, unheard, cards>>, raced \subseteq raced',
         FeedOK, CountsOK
  PROVE  FeedOK' /\ CountsOK'
<1>1. UNCHANGED <<seq, table, log>> /\ UNCHANGED <<conn, read, inflight>>
  BY SameServer DEF feed
<1>. QED
  BY <1>1 DEF FeedOK, CountsOK, Counted, About

(* Steps that leave the cards alone as well, and what they lack.           *)
LEMMA CardsAlone ==
  ASSUME PageInv, UNCHANGED logVars, UNCHANGED <<page, cards, unheard>>
  PROVE  /\ CardsOK(cards, unheard)'
         /\ page' = "live" => CardsComplete(cards, unheard)'
<1>1. PICK C, U : C = cards /\ U = unheard
  OBVIOUS
<1>2. CardsOK(C, U) /\ (page = "live" => CardsComplete(C, U)) /\ C = cards' /\ U = unheard'
  BY <1>1 DEF PageInv
<1>4. CardsOK(cards, unheard)'
  BY <1>2, CardsKeep
<1>5. ASSUME page' = "live"  PROVE CardsComplete(cards, unheard)'
  BY <1>2, <1>5, CompleteKeep
<1>. QED
  BY <1>4, <1>5

-----------------------------------------------------------------------------
(* Loading.                                                                *)

LEMMA NoCards == DOMAIN << >> = {}
OBVIOUS

LEMMA ListArrivesKeeps ==
  ASSUME StoryInv, PageInv, ListArrives
  PROVE  PageInv'
<1>0. /\ UNCHANGED logVars /\ page = "loading" /\ reply # None
      /\ page' = "live" /\ reply' = None
      /\ UNCHANGED <<modal, asked, details, tallies, raced, conn, read, inflight>>
  BY DEF ListArrives, fetching, feed
<1>1. UNCHANGED <<seq, log>>
  BY <1>0, SameServer
<1>2. /\ PageOK /\ Shape /\ ReplyOK
      /\ details = {} /\ ~conn /\ unheard = 1..seq /\ modal = None /\ asked = {}
  BY <1>0 DEF PageInv, PageOK, Shape
<1>3. PICK C, U : C = cards' /\ U = unheard'
  OBVIOUS
<1>4. C = reply.rows /\ U = {i \in 1..seq : i > reply.at}
  BY <1>2, <1>3 DEF ListArrives
<1>5. CardsOK(C, U) /\ CardsComplete(C, U) /\ U \subseteq 1..seq
  BY <1>0, <1>2, <1>4 DEF ReplyOK
<1>7. CardsOK(cards, unheard)' /\ CardsComplete(cards, unheard)'
  BY <1>0, <1>3, <1>5, CardsKeep, CompleteKeep
<1>8. PageOK'
  <2>1. \A r \in DOMAIN C : r \in Requests /\ C[r] \in CardRecord
    BY <1>5 DEF CardsOK
  <2>2. Len(log') = seq' /\ unheard' \subseteq 1..seq'
    BY <1>1, <1>2, <1>3, <1>5 DEF PageOK
  <2>. QED
    BY <1>0, <1>1, <1>2, <1>3, <2>1, <2>2 DEF PageOK
<1>9. Shape'
  BY <1>0, <1>2 DEF Shape
<1>10. ReplyOK' /\ DetailsOK' /\ FeedOK' /\ CountsOK'
  BY <1>0, <1>2 DEF ReplyOK, DetailsOK, FeedOK, CountsOK
<1>. QED
  BY <1>7, <1>8, <1>9, <1>10 DEF PageInv

LEMMA ListFailsKeeps ==
  ASSUME StoryInv, PageInv, ListFails
  PROVE  PageInv'
<1>0. /\ UNCHANGED logVars /\ page = "loading" /\ page' = "offline" /\ reply' = None
      /\ UNCHANGED <<cards, modal, asked, details, tallies, raced, feed, unheard>>
      /\ UNCHANGED <<conn, read, inflight>>
  BY DEF ListFails, fetching, feed
<1>1. UNCHANGED <<seq, log>> /\ raced \subseteq raced'
  BY <1>0, SameServer
<1>2. /\ PageOK /\ Shape /\ ReplyOK /\ DetailsOK /\ FeedOK /\ CountsOK
      /\ CardsOK(cards, unheard) /\ cards = << >>
  BY <1>0 DEF PageInv, PageOK
<1>3. CardsOK(cards, unheard)'
  BY <1>0, <1>2, NoCards DEF CardsOK
<1>4. PageOK' /\ Shape'
  BY <1>0, <1>1, <1>2 DEF PageOK, Shape
<1>5. ReplyOK' /\ DetailsOK' /\ FeedOK' /\ CountsOK'
  BY <1>0, <1>1, <1>2, ReplyKeeps, DetailsKeep, FeedKeeps
<1>. QED
  BY <1>0, <1>3, <1>4, <1>5 DEF PageInv

LEMMA ReloadKeeps ==
  ASSUME StoryInv, PageInv, Reload
  PROVE  PageInv'
<1>0. /\ UNCHANGED logVars /\ page' = "loading" /\ reply' = None /\ cards' = << >>
      /\ modal' = None /\ asked' = {} /\ details' = {} /\ tallies' = {} /\ raced' = {}
      /\ conn' = FALSE /\ read' = 0 /\ inflight' = {} /\ unheard' = 1..seq
  BY DEF Reload
<1>1. UNCHANGED <<seq, log>> /\ seq \in Nat
  BY <1>0, SameServer, LimitAssumption DEF StoryInv, Inv, ControlOK
<1>2. CardsOK(cards, unheard)' /\ ReplyOK' /\ DetailsOK' /\ FeedOK' /\ CountsOK'
  BY <1>0, NoCards DEF CardsOK, ReplyOK, DetailsOK, FeedOK, CountsOK
<1>3. PageOK'
  <2>1. Len(log') = seq' /\ unheard' \subseteq 1..seq'
    BY <1>0, <1>1 DEF PageInv, PageOK
  <2>2. inflight' \subseteq 1..read' /\ read' <= seq' /\ raced' \cup asked' \subseteq Requests
    BY <1>0, <1>1
  <2>3. \A r \in DOMAIN cards' : r \in Requests /\ cards'[r] \in CardRecord
    BY <1>0, NoCards
  <2>. QED
    BY <1>0, <2>1, <2>2, <2>3 DEF PageOK
<1>4. Shape'
  BY <1>0, <1>1 DEF Shape
<1>. QED
  BY <1>0, <1>2, <1>3, <1>4 DEF PageInv

-----------------------------------------------------------------------------
(* What the user does and asks for.                                        *)

LEMMA ModalKeeps ==
  ASSUME StoryInv, PageInv, UNCHANGED logVars,
         UNCHANGED <<page, reply, cards, details, tallies, raced, feed, unheard>>,
         modal' \in Requests \cup {None}, asked' \subseteq Requests,
         page # "live" => modal' = None /\ asked' = {}
  PROVE  PageInv'
<1>0. /\ UNCHANGED <<seq, log>> /\ UNCHANGED <<conn, read, inflight>>
      /\ raced \subseteq raced' /\ details' \subseteq details
  BY SameServer DEF feed
<1>1. PageOK /\ Shape /\ ReplyOK /\ DetailsOK /\ FeedOK /\ CountsOK
  BY DEF PageInv
<1>2. PageOK' /\ Shape'
  BY <1>0, <1>1 DEF PageOK, Shape
<1>3. CardsOK(cards, unheard)' /\ (page' = "live" => CardsComplete(cards, unheard)')
  BY CardsAlone
<1>4. ReplyOK' /\ DetailsOK'
  BY <1>0, <1>1, ReplyKeeps, DetailsKeep
<1>5. FeedOK' /\ CountsOK'
  BY <1>0, <1>1, FeedKeeps
<1>. QED
  BY <1>2, <1>3, <1>4, <1>5 DEF PageInv

LEMMA UserKeeps ==
  ASSUME StoryInv, PageInv,
         CloseModal \/ \E r \in Requests : OpenModal(r) \/ Refetch(r)
  PROVE  PageInv'
<1>0. PageOK /\ Shape
  BY DEF PageInv
<1>1. CASE CloseModal
  <2>1. /\ UNCHANGED logVars
        /\ UNCHANGED <<page, reply, cards, details, tallies, raced, feed, unheard>>
        /\ modal' = None /\ asked' = asked
    BY <1>1 DEF CloseModal
  <2>2. asked \subseteq Requests /\ (page # "live" => asked = {})
    BY <1>0 DEF PageOK, Shape
  <2>. QED
    BY <2>1, <2>2, ModalKeeps
<1>2. ASSUME NEW r \in Requests, OpenModal(r) \/ Refetch(r)
      PROVE  PageInv'
  <2>1. /\ UNCHANGED logVars
        /\ UNCHANGED <<page, reply, cards, details, tallies, raced, feed, unheard>>
        /\ modal' \in {modal, r} /\ asked' = asked \cup {r} /\ r \in DOMAIN cards
    BY <1>2 DEF OpenModal, Refetch
  <2>2. page = "live"
    BY <1>0, <2>1, NoCards DEF PageOK
  <2>3. modal' \in Requests \cup {None} /\ asked' \subseteq Requests
    BY <1>0, <2>1 DEF PageOK
  <2>. QED
    BY <2>1, <2>2, <2>3, ModalKeeps
<1>. QED
  BY <1>1, <1>2

LEMMA ServeDetailKeeps ==
  ASSUME StoryInv, PageInv, NEW r \in Requests, ServeDetail(r)
  PROVE  PageInv'
<1>0. /\ UNCHANGED logVars /\ r \in asked /\ asked' = asked \ {r} /\ job = Idle
      /\ UNCHANGED <<page, reply, cards, modal, tallies, raced, feed, unheard>>
      /\ UNCHANGED <<conn, read, inflight>>
      /\ details' = IF r \in DOMAIN requests THEN details \cup {Detail(r)} ELSE details
  BY DEF ServeDetail, Serving, feed
<1>1. /\ PageOK /\ Shape /\ ReplyOK /\ DetailsOK /\ FeedOK /\ CountsOK /\ Inv /\ Consistent
  BY DEF PageInv, StoryInv, Inv
<1>2. /\ UNCHANGED <<seq, log, mirror, job, drawn, torn>> /\ raced \subseteq raced'
      /\ seq \in Nat /\ job.at = "idle"
  BY <1>0, SameServer, LimitAssumption DEF StoryInv, Inv, ControlOK, Idle
<1>3. PageOK' /\ Shape'
  BY <1>0, <1>1, <1>2 DEF PageOK, Shape
<1>4. CardsOK(cards, unheard)' /\ (page' = "live" => CardsComplete(cards, unheard)')
  BY <1>0, CardsAlone
<1>5. ReplyOK' /\ FeedOK' /\ CountsOK'
  BY <1>0, <1>1, <1>2, ReplyKeeps, FeedKeeps
<1>6. ASSUME r \in DOMAIN requests, NEW d, d = Detail(r)
      PROVE  d.at \in 0..seq /\ DetailOK(d, After(d.at))
  <2>1. requests[r] \in RequestRow /\ DOMAIN answers \subseteq Answers /\ r \in drawn
    BY <1>1, <1>6 DEF Consistent, RowsOK
  <2>2. /\ d.request = r /\ d.status = requests[r].status /\ d.accepted = requests[r].accepted
        /\ d.answers = AnswersTo(r) /\ d.at = seq
    BY <1>6 DEF Detail
  <2>3. ASSUME r \notin torn
        PROVE  mirror[r].status = requests[r].status /\ mirror[r].accepted = requests[r].accepted
    <3>1. mirror[r] = Card(requests[r].status, requests[r].accepted, Tally(r))
      BY <1>0, <1>1, <1>6, <2>3, MirrorCard
    <3>. QED
      BY <3>1 DEF Card
  <2>4. After(d.at) = {} /\ d.at \in 0..seq
    BY <1>2, <2>2 DEF After
  <2>5. d.status \in {"open", "closed"} /\ d.accepted \in Answers \cup {None}
    BY <2>1, <2>2 DEF RequestRow
  <2>6. d.answers \in SUBSET Answers
    BY <2>1, <2>2 DEF AnswersTo
  <2>7. ~Announcing(r)
    BY <1>2 DEF Announcing
  <2>8. r \notin torn => Right(d, r, {})
    BY <2>2, <2>3 DEF Right
  <2>. QED
    BY <2>1, <2>2, <2>4, <2>5, <2>6, <2>7, <2>8 DEF DetailOK
<1>7. DetailsOK'
  <2>. SUFFICES ASSUME NEW d \in details'
                PROVE  d.at \in 0..seq /\ DetailOK(d, After(d.at))
    BY <1>2 DEF DetailsOK, DetailOK, After, Right, About, Announcing
  <2>1. CASE d \in details
    BY <1>1, <2>1 DEF DetailsOK
  <2>2. CASE d \notin details
    <3>1. r \in DOMAIN requests /\ d = Detail(r)
      BY <1>0, <2>2
    <3>. QED
      BY <1>6, <3>1
  <2>. QED
    BY <2>1, <2>2
<1>. QED
  BY <1>3, <1>4, <1>5, <1>7 DEF PageInv

(* The best answer's votes.                                                *)
LEMMA TopVotesIs ==
  ASSUME Inv, NEW r
  PROVE  /\ TopVotes(r) \in Nat /\ \A a \in AnswersTo(r) : VoteCount(a) <= TopVotes(r)
         /\ TopVotes(r) = 0 \/ \E a \in AnswersTo(r) : TopVotes(r) = VoteCount(a)
<1>. DEFINE n == Cardinality(votes)
            S == {0} \cup {VoteCount(a) : a \in AnswersTo(r)}
<1>0. IsFiniteSet(votes)
  BY DEF Inv, Consistent, RowsOK
<1>1. n \in Nat
  BY <1>0, FS_CardinalityType
<1>2. ASSUME NEW a  PROVE VoteCount(a) \in 0..n
  <2>. DEFINE T == {v \in votes : v[1] = a}
  <2>1. T \subseteq votes
    OBVIOUS
  <2>2. IsFiniteSet(T) /\ Cardinality(T) <= n
    BY <1>0, <2>1, FS_Subset
  <2>3. Cardinality(T) \in Nat
    BY <2>2, FS_CardinalityType
  <2>. QED
    BY <1>1, <2>2, <2>3 DEF VoteCount
<1>3. S \in SUBSET (0..n) /\ S # {}
  BY <1>1, <1>2
<1>. HIDE DEF n, S
<1>4. Greatest(S) \in S /\ \A k \in S : k <= Greatest(S)
  BY <1>1, <1>3, GreatestExists
<1>5. Greatest(S) \in Nat
  <2>1. Greatest(S) \in 0..n
    BY <1>3, <1>4
  <2>. QED
    BY <1>1, <2>1
<1>. QED
  BY <1>4, <1>5 DEF TopVotes, S

LEMMA SummaryOK ==
  ASSUME StoryInv, job = Idle, NEW r \in DOMAIN requests
  PROVE  /\ r \in Requests \cap drawn /\ Summary(r) \in CardRecord
         /\ r \notin torn => Right(Summary(r), r, {}) /\ TopRight(Summary(r), r, {})
<1>. DEFINE x == Summary(r)
<1>0. Inv /\ FinitelyMany /\ r \in Requests \cap drawn /\ requests[r] \in RequestRow
  BY DEF StoryInv, Inv, Consistent, RowsOK
<1>1. /\ x.status = requests[r].status /\ x.accepted = requests[r].accepted
      /\ x.top = TopVotes(r)
  BY DEF Summary
<1>2. Cardinality(AnswersTo(r)) \in Nat
  <2>1. AnswersTo(r) \subseteq DOMAIN answers
    BY DEF AnswersTo
  <2>. QED
    BY <1>0, <2>1, FS_Subset, FS_CardinalityType DEF FinitelyMany
<1>3. TopVotes(r) \in Nat /\ \A a \in AnswersTo(r) : VoteCount(a) <= TopVotes(r)
  BY <1>0, TopVotesIs
<1>4. x \in CardRecord
  BY <1>0, <1>2, <1>3 DEF Summary, CardRecord, RequestRow
<1>. HIDE DEF x
<1>5. ASSUME r \notin torn
      PROVE  Right(x, r, {}) /\ TopRight(x, r, {})
  <2>1. mirror[r] = Card(requests[r].status, requests[r].accepted, Tally(r))
    BY <1>0, <1>5, MirrorCard
  <2>2. /\ mirror[r].status = requests[r].status /\ mirror[r].accepted = requests[r].accepted
        /\ mirror[r].tally = [a \in AnswersTo(r) |-> VoteCount(a)]
    BY <2>1 DEF Card, Tally
  <2>3. Right(x, r, {})
    BY <1>1, <2>2 DEF Right
  <2>4. TopRight(x, r, {})
    BY <1>1, <1>3, <2>2 DEF TopRight
  <2>. QED
    BY <2>3, <2>4
<1>. QED
  BY <1>0, <1>4, <1>5 DEF x

LEMMA ServeListKeeps ==
  ASSUME StoryInv, PageInv, ServeList
  PROVE  PageInv'
<1>0. /\ UNCHANGED logVars /\ page = "loading" /\ reply = None /\ job = Idle
      /\ reply' = [rows |-> [r \in DOMAIN requests |-> Summary(r)], at |-> seq]
      /\ UNCHANGED <<page, cards, modal, asked, details, tallies, raced, feed, unheard>>
      /\ UNCHANGED <<conn, read, inflight>>
  BY DEF ServeList, Serving, fetching, feed
<1>1. /\ PageOK /\ Shape /\ DetailsOK /\ FeedOK /\ CountsOK
  BY DEF PageInv
<1>2. /\ UNCHANGED <<seq, requests, mirror, job, drawn, torn, log>> /\ seq \in Nat
      /\ raced \subseteq raced' /\ job.at = "idle"
  BY <1>0, SameServer, LimitAssumption DEF StoryInv, Inv, ControlOK, Idle
<1>3. PageOK' /\ Shape'
  BY <1>0, <1>1, <1>2 DEF PageOK, Shape
<1>4. CardsOK(cards, unheard)' /\ (page' = "live" => CardsComplete(cards, unheard)')
  BY <1>0, CardsAlone
<1>5. DetailsOK' /\ FeedOK' /\ CountsOK'
  BY <1>0, <1>1, <1>2, DetailsKeep, FeedKeeps
<1>6. ReplyOK'
  <2>1. PICK P : P = [r \in DOMAIN requests |-> Summary(r)]
    OBVIOUS
  <2>2. reply'.rows = P /\ reply'.at = seq
    BY <1>0, <2>1
  <2>3. CardsOK(P, {})
    <3>1. \A r \in DOMAIN P : /\ r \in Requests \cap drawn /\ P[r] \in CardRecord
                              /\ r \notin torn => Right(P[r], r, {}) /\ TopRight(P[r], r, {})
      BY <1>0, <2>1, SummaryOK
    <3>. QED
      BY <1>2, <3>1 DEF CardsOK, Announcing
  <2>4. CardsComplete(P, {})
    BY <2>1 DEF CardsComplete
  <2>5. {i \in 1..seq : i > seq} = {}
    BY <1>2
  <2>. QED
    BY <1>0, <1>2, <2>2, <2>3, <2>4, <2>5 DEF ReplyOK, CardsOK, CardsComplete, Right, TopRight,
       About, Announcing
<1>. QED
  BY <1>3, <1>4, <1>5, <1>6 DEF PageInv

-----------------------------------------------------------------------------
(* What arrives for an open card.                                          *)

LEMMA TalliesAreNumbers ==
  ASSUME StoryInv, NEW r \in Requests, NEW a \in DOMAIN mirror[r].tally
  PROVE  mirror[r].tally[a] \in Nat
<1>1. PICK s, x, t : mirror[r] = Card(s, x, t) /\ \A b \in DOMAIN t : t[b] \in Nat
  BY DEF StoryInv, MirrorOK
<1>2. mirror[r].tally = t
  BY <1>1 DEF Card
<1>. QED
  BY <1>1, <1>2

(* Steps that change nothing but the cards: they may lack W afterwards, in *)
(* the place of a card a detail that lacked no more.                       *)
LEMMA ArrivalKeeps ==
  ASSUME StoryInv, PageInv, UNCHANGED logVars,
         UNCHANGED <<page, reply, modal, asked, feed>>,
         NEW W \in SUBSET (1..seq), unheard' = unheard \cup W,
         \A i \in W : log[i].kind # "request.created",
         \A i \in W : log[i].request \in raced' \/ i > read \/ i \in inflight,
         raced \subseteq raced', raced' \subseteq Requests,
         details' \subseteq details, tallies' \subseteq tallies,
         DOMAIN cards' = DOMAIN cards, page # "live" => cards' = cards,
         \A q \in DOMAIN cards :
           /\ cards'[q] \in CardRecord
           /\ \/ /\ cards'[q].status = cards[q].status
                 /\ cards'[q].accepted = cards[q].accepted
              \/ \E d \in details : /\ d.request = q /\ cards'[q].status = d.status
                                    /\ cards'[q].accepted = d.accepted
                                    /\ \A i \in About(q) : i > d.at => i \in W
           /\ cards'[q].top >= cards[q].top
           /\ cards'[q].answers = None =>
                cards[q].answers = None /\ cards'[q].count = cards[q].count
  PROVE  PageInv'
<1>0. /\ PageOK /\ Shape /\ ReplyOK /\ DetailsOK /\ FeedOK /\ CountsOK
      /\ CardsOK(cards, unheard) /\ (page = "live" => CardsComplete(cards, unheard))
      /\ UNCHANGED <<conn, read, inflight>>
  BY DEF PageInv, feed
<1>1. UNCHANGED <<seq, table, log>>
  BY SameServer
<1>2. PageOK'
  BY <1>0, <1>1 DEF PageOK
<1>3. Shape'
  BY <1>0, <1>1 DEF Shape
<1>4. ReplyOK' /\ DetailsOK'
  BY <1>0, ReplyKeeps, DetailsKeep
<1>5. FeedOK'
  BY <1>0, <1>1 DEF FeedOK
<1>6. CountsOK'
  <2>1. \A q \in DOMAIN cards : cards'[q].answers = None =>
          cards[q].answers = None /\ cards'[q].count = cards[q].count
    OBVIOUS
  <2>2. \A r : About(r)' = About(r) /\ Counted(r)' = Counted(r)
    BY <1>0, <1>1 DEF About, Counted
  <2>. QED
    BY <1>0, <1>1, <2>1, <2>2 DEF CountsOK
<1>7. PICK C, U : C = cards' /\ U = unheard'
  OBVIOUS
<1>8. CardsOK(C, U)
  <2>. SUFFICES ASSUME NEW r \in DOMAIN C
                PROVE  /\ r \in Requests \cap drawn /\ C[r] \in CardRecord
                       /\ ~Announcing(r)
                       /\ \A i \in U \cap About(r) : log[i].kind # "request.created"
                       /\ r \notin torn => Right(C[r], r, U) /\ TopRight(C[r], r, U)
    BY DEF CardsOK
  <2>0. /\ r \in Requests \cap drawn /\ cards[r] \in CardRecord
        /\ ~Announcing(r)
        /\ \A i \in unheard \cap About(r) : log[i].kind # "request.created"
        /\ r \notin torn =>
             Right(cards[r], r, unheard) /\ TopRight(cards[r], r, unheard)
    BY <1>0, <1>7 DEF CardsOK
  <2>1. /\ r \in Requests \cap drawn /\ cards[r] \in CardRecord
        /\ ~Announcing(r)
        /\ \A i \in U \cap About(r) : log[i].kind # "request.created"
        /\ r \notin torn => Right(cards[r], r, U) /\ TopRight(cards[r], r, U)
    BY <1>7, <2>0 DEF Right, TopRight
  <2>2. C[r] \in CardRecord /\ C[r].top >= cards[r].top
    BY <1>7
  <2>3. ASSUME r \notin torn  PROVE Right(C[r], r, U)
    <3>1. CASE C[r].status = cards[r].status /\ C[r].accepted = cards[r].accepted
      BY <2>1, <2>3, <3>1 DEF Right
    <3>2. ASSUME NEW d \in details, d.request = r, C[r].status = d.status,
                 C[r].accepted = d.accepted, \A i \in About(r) : i > d.at => i \in W
          PROVE  Right(C[r], r, U)
      <4>1. Right(d, r, After(d.at))
        BY <1>0, <2>3, <3>2 DEF DetailsOK, DetailOK
      <4>2. After(d.at) \cap About(r) \subseteq U
        BY <1>7, <3>2 DEF After
      <4>. QED
        BY <3>2, <4>1, <4>2 DEF Right
    <3>3. r \in DOMAIN cards /\ C[r] = cards'[r]
      BY <1>7
    <3>. QED
      BY <3>1, <3>2, <3>3
  <2>4. ASSUME r \notin torn  PROVE TopRight(C[r], r, U)
    <3>. SUFFICES ASSUME NEW a \in DOMAIN mirror[r].tally,
                         \A i \in U \cap About(r) : ~TellsVotes(log[i], a)
                  PROVE  C[r].top >= mirror[r].tally[a]
      BY DEF TopRight
    <3>1. cards[r].top >= mirror[r].tally[a]
      BY <2>1, <2>4 DEF TopRight
    <3>2. cards[r].top \in Nat /\ C[r].top \in Nat
      BY <2>1, <2>2, CardFields
    <3>3. mirror[r].tally[a] \in Nat
      BY <2>1, TalliesAreNumbers
    <3>. QED
      BY <2>2, <3>1, <3>2, <3>3
  <2>. QED
    BY <2>1, <2>2, <2>3, <2>4
<1>9. page = "live" => CardsComplete(C, U)
  BY <1>0, <1>7 DEF CardsComplete
<1>10. CardsOK(cards, unheard)' /\ (page' = "live" => CardsComplete(cards, unheard)')
  BY <1>0, <1>7, <1>8, <1>9, CardsKeep, CompleteKeep
<1>. QED
  BY <1>2, <1>3, <1>4, <1>5, <1>6, <1>10 DEF PageInv

LEMMA DetailArrivesKeeps ==
  ASSUME StoryInv, PageInv, NEW d \in details, DetailArrives(d)
  PROVE  PageInv'
<1>. DEFINE q == d.request
            y == [cards[q] EXCEPT !.status = d.status, !.accepted = d.accepted,
                                  !.answers = d.answers]
            merged == modal = q /\ q \in DOMAIN cards
            since == {i \in About(q) : i > d.at}
            W == IF merged THEN since ELSE {}
<1>0. /\ UNCHANGED logVars /\ UNCHANGED <<page, reply, modal, asked, feed>>
      /\ details' \subseteq details /\ tallies' \subseteq tallies
      /\ cards' = IF merged THEN [cards EXCEPT ![q] = y] ELSE cards
      /\ unheard' = unheard \cup W
      /\ raced' = IF merged /\ \E i \in since : i <= read /\ i \notin inflight
                  THEN raced \cup {q} ELSE raced
  BY DEF DetailArrives
<1>1. \A r \in DOMAIN cards : cards[r] \in CardRecord /\ cards[r].top \in Nat
  BY CardFields DEF PageInv, PageOK
<1>2. page = "live"
  BY DEF PageInv, Shape
<1>3. /\ d.status \in {"open", "closed"} /\ d.accepted \in Answers \cup {None}
      /\ d.answers \in SUBSET Answers /\ q \in Requests
      /\ \A i \in After(d.at) \cap About(q) : log[i].kind # "request.created"
  BY DEF PageInv, DetailsOK, DetailOK
<1>4. ASSUME q \in DOMAIN cards
      PROVE  /\ y \in CardRecord /\ y.status = d.status /\ y.accepted = d.accepted
             /\ y.top = cards[q].top /\ y.answers = d.answers /\ y.answers # None
  <2>1. cards[q] \in CardRecord
    BY <1>1, <1>4
  <2>2. y \in CardRecord
    BY <1>3, <2>1 DEF CardRecord
  <2>3. /\ y.status = d.status /\ y.accepted = d.accepted
        /\ y.top = cards[q].top /\ y.answers = d.answers
    BY <2>1 DEF CardRecord
  <2>. QED
    BY <1>3, <2>2, <2>3, UndefinedAssumption
<1>. HIDE DEF y
<1>5. DOMAIN cards' = DOMAIN cards
  BY <1>0
<1>6. ASSUME NEW r \in DOMAIN cards
      PROVE  /\ cards'[r] \in CardRecord
             /\ \/ cards'[r].status = cards[r].status /\ cards'[r].accepted = cards[r].accepted
                \/ \E b \in details : /\ b.request = r /\ cards'[r].status = b.status
                                      /\ cards'[r].accepted = b.accepted
                                      /\ \A i \in About(r) : i > b.at => i \in W
             /\ cards'[r].top >= cards[r].top
             /\ cards'[r].answers = None =>
                  cards[r].answers = None /\ cards'[r].count = cards[r].count
  <2>1. CASE cards'[r] = cards[r]
    BY <1>1, <2>1
  <2>2. CASE cards'[r] # cards[r]
    <3>1. merged /\ r = q /\ cards'[r] = y
      BY <1>0, <2>2
    <3>2. \A i \in About(r) : i > d.at => i \in W
      BY <3>1
    <3>. QED
      BY <1>1, <1>4, <3>1, <3>2
  <2>. QED
    BY <2>1, <2>2
<1>7. /\ W \in SUBSET (1..seq) /\ W \subseteq After(d.at) \cap About(q)
      /\ \A i \in W : log[i].request = q
  BY DEF After, About
<1>8. raced \subseteq raced' /\ raced' \subseteq Requests
  BY <1>0, <1>3 DEF PageInv, PageOK
<1>9. \A i \in W : log[i].request \in raced' \/ i > read \/ i \in inflight
  <2>1. ASSUME NEW i \in W, ~(i > read), i \notin inflight  PROVE q \in raced'
    <3>1. i \in Int /\ read \in Nat
      BY <1>7 DEF PageInv, Shape
    <3>2. merged /\ i \in since /\ i <= read
      BY <2>1, <3>1
    <3>. QED
      BY <1>0, <2>1, <3>2
  <2>. QED
    BY <1>7, <2>1
<1>10. \A i \in W : log[i].kind # "request.created"
  BY <1>3, <1>7
<1>. HIDE DEF W, merged, since
<1>. QED
  BY <1>0, <1>2, <1>5, <1>6, <1>7, <1>8, <1>9, <1>10, ArrivalKeeps

LEMMA TallyArrivesKeeps ==
  ASSUME StoryInv, PageInv, NEW t \in tallies, TallyArrives(t)
  PROVE  PageInv'
<1>. DEFINE q == t.request
            n == t.votes
<1>00. PICK W : W = {}
  OBVIOUS
<1>0. /\ UNCHANGED logVars /\ UNCHANGED <<page, reply, modal, asked, feed>>
      /\ details' \subseteq details /\ tallies' \subseteq tallies
      /\ W \in SUBSET (1..seq) /\ unheard' = unheard \cup W
      /\ raced \subseteq raced' /\ raced' \subseteq Requests
      /\ cards' = IF q \in DOMAIN cards THEN OnVoted(cards, q, n) ELSE cards
  BY <1>00 DEF TallyArrives, PageInv, PageOK
<1>1. /\ \A r \in DOMAIN cards : cards[r] \in CardRecord /\ cards[r].top \in Nat
      /\ n \in Nat /\ (page # "live" => cards = << >>)
  BY CardFields DEF PageInv, PageOK, Shape
<1>4. /\ \A i \in W : log[i].kind # "request.created"
      /\ \A i \in W : log[i].request \in raced' \/ i > read \/ i \in inflight
  BY <1>00
<1>2. CASE q \notin DOMAIN cards
  <2>1. cards' = cards
    BY <1>0, <1>2
  <2>2. \A r \in DOMAIN cards : cards'[r].top >= cards[r].top
    BY <1>1, <2>1
  <2>. QED
    BY <1>0, <1>1, <1>4, <2>1, <2>2, ArrivalKeeps
<1>3. CASE q \in DOMAIN cards
  <2>. DEFINE e == [kind |-> "answer.vote", votes |-> n]
  <2>1. Heard(cards, cards', e, q)
    <3>1. CardsTyped(cards)
      BY <1>1 DEF CardsTyped
    <3>. QED
      BY <1>0, <1>1, <1>3, <3>1, HeardVote
  <2>2. e.kind = "answer.vote"
    OBVIOUS
  <2>. HIDE DEF e
  <2>3. /\ \A r : r # q => /\ r \in DOMAIN cards' <=> r \in DOMAIN cards
                           /\ r \in DOMAIN cards => cards'[r] = cards[r]
        /\ q \in DOMAIN cards' /\ cards'[q] \in CardRecord
        /\ cards'[q].status = cards[q].status /\ cards'[q].accepted = cards[q].accepted
        /\ cards'[q].top >= cards[q].top
        /\ cards'[q].answers = None =>
             cards[q].answers = None /\ cards'[q].count = cards[q].count
    <3>1. /\ e.kind # "request.deleted" /\ e.kind # "request.created"
          /\ e.kind # "answer.created" /\ e.kind # "request.accepted" /\ ~TellsStatus(e)
      BY <2>2 DEF TellsStatus
    <3>2. q \in DOMAIN cards'
      BY <1>3, <2>1, <3>1 DEF Heard
    <3>3. \A r : r # q => /\ r \in DOMAIN cards' <=> r \in DOMAIN cards
                          /\ r \in DOMAIN cards => cards'[r] = cards[r]
      BY <2>1 DEF Heard
    <3>4. /\ cards'[q] \in CardRecord
          /\ cards'[q].status = cards[q].status /\ cards'[q].accepted = cards[q].accepted
          /\ cards'[q].top >= cards[q].top
      BY <1>3, <2>1, <3>1, <3>2 DEF Heard
    <3>5. cards'[q].answers = None =>
             cards[q].answers = None /\ cards'[q].count = cards[q].count
      BY <1>3, <2>1, <3>1, <3>2 DEF Heard
    <3>. QED
      BY <3>2, <3>3, <3>4, <3>5
  <2>4. DOMAIN cards' = DOMAIN cards
    BY <1>3, <2>3
  <2>5. page = "live"
    BY <1>1, <1>3, NoCards
  <2>6. \A r \in DOMAIN cards :
          /\ cards'[r] \in CardRecord
          /\ cards'[r].status = cards[r].status /\ cards'[r].accepted = cards[r].accepted
          /\ cards'[r].top >= cards[r].top
          /\ cards'[r].answers = None =>
               cards[r].answers = None /\ cards'[r].count = cards[r].count
    BY <1>1, <2>3
  <2>. QED
    BY <1>0, <1>4, <2>4, <2>5, <2>6, ArrivalKeeps
<1>. QED
  BY <1>2, <1>3

-----------------------------------------------------------------------------
(* The connection.                                                         *)

(* Steps of the connection that dispatch nothing.                          *)
LEMMA ConnectionKeeps ==
  ASSUME StoryInv, PageInv, UNCHANGED logVars,
         UNCHANGED <<page, reply, cards, modal, asked, details, tallies, unheard>>,
         raced' \subseteq raced,
         conn' \in BOOLEAN, ~conn' => inflight' = {}, page # "live" => ~conn',
         read' \in 0..seq, inflight' \subseteq 1..read',
         FeedOK', CountsOK'
  PROVE  PageInv'
<1>0. /\ PageOK /\ Shape /\ ReplyOK /\ DetailsOK
      /\ details' \subseteq details
  BY DEF PageInv
<1>1. UNCHANGED <<seq, log>> /\ seq \in Nat
  BY SameServer, LimitAssumption DEF StoryInv, Inv, ControlOK
<1>2. PageOK'
  <2>1. read' <= seq'
    BY <1>1
  <2>. QED
    BY <1>0, <1>1, <2>1 DEF PageOK
<1>3. Shape'
  BY <1>0, <1>1 DEF Shape
<1>4. CardsOK(cards, unheard)' /\ (page' = "live" => CardsComplete(cards, unheard)')
  BY CardsAlone
<1>5. ReplyOK' /\ DetailsOK'
  BY <1>0, ReplyKeeps, DetailsKeep
<1>. QED
  BY <1>2, <1>3, <1>4, <1>5 DEF PageInv

LEMMA ConnectKeeps ==
  ASSUME StoryInv, PageInv, Connect
  PROVE  PageInv'
<1>0. /\ UNCHANGED logVars /\ page = "live" /\ ~conn /\ conn' = TRUE /\ read' = 0
      /\ inflight' = inflight /\ raced' = {} /\ raced' \subseteq raced
      /\ UNCHANGED <<page, reply, cards, modal, asked, details, tallies, unheard>>
  BY DEF Connect
<1>1. /\ UNCHANGED <<seq, table, log>> /\ seq \in Nat /\ table \subseteq 1..seq
  BY <1>0, SameServer, LimitAssumption DEF StoryInv, Inv, ControlOK
<1>2. inflight' = {}
  BY <1>0 DEF PageInv, PageOK
<1>3. \A i \in 1..seq : i > 0 /\ ~(i <= 0)
  BY <1>1
<1>4. FeedOK'
  BY <1>0, <1>1, <1>2, <1>3 DEF FeedOK
<1>5. CountsOK'
  BY <1>0, <1>1, <1>3 DEF CountsOK, About
<1>. QED
  BY <1>0, <1>1, <1>2, <1>4, <1>5, ConnectionKeeps

LEMMA BreakKeeps ==
  ASSUME StoryInv, PageInv, Break
  PROVE  PageInv'
<1>0. /\ UNCHANGED logVars /\ conn' = FALSE /\ inflight' = {} /\ read' = read
      /\ UNCHANGED <<page, reply, cards, modal, asked, details, tallies, raced, unheard>>
  BY DEF Break, fetching
<1>1. FeedOK' /\ CountsOK'
  BY <1>0 DEF FeedOK, CountsOK
<1>2. read' \in 0..seq
  BY <1>0, LimitAssumption DEF PageInv, PageOK, Shape, StoryInv, Inv, ControlOK
<1>. QED
  BY <1>0, <1>1, <1>2, ConnectionKeeps

LEMMA ReadRowsKeeps ==
  ASSUME StoryInv, PageInv, ReadRows
  PROVE  PageInv'
<1>0. /\ UNCHANGED logVars /\ conn /\ Unread # {}
      /\ inflight' = inflight \cup Unread /\ read' = Greatest(Unread) /\ conn' = conn
      /\ UNCHANGED <<page, reply, cards, modal, asked, details, tallies, raced, unheard>>
  BY DEF ReadRows, fetching
<1>1. /\ UNCHANGED <<seq, table, log>> /\ seq \in Nat /\ table \subseteq 1..seq
  BY <1>0, SameServer, LimitAssumption DEF StoryInv, Inv, ControlOK
<1>2. /\ PageOK /\ Shape /\ FeedOK /\ CountsOK /\ conn \in BOOLEAN
      /\ read \in Nat /\ inflight \subseteq 1..read
  BY DEF PageInv, PageOK, Shape
<1>3. /\ Unread \subseteq table /\ \A i \in Unread : read < i
      /\ \A i \in table, j \in Unread : read < i /\ i <= j => i \in Unread
  BY <1>1, <1>2, BatchAssumption, BatchReads DEF Unread
<1>4. Greatest(Unread) \in Unread /\ \A k \in Unread : k <= Greatest(Unread)
  <2>1. Unread \in SUBSET (0..seq)
    BY <1>1, <1>3
  <2>. QED
    BY <1>0, <1>1, <2>1, GreatestExists
<1>5. /\ read' \in 1..seq /\ read < read' /\ \A k \in Unread : k <= read'
      /\ \A i \in table : read < i /\ i <= read' => i \in Unread
  <2>1. read' \in Unread /\ read' \in table /\ read' > read
    BY <1>0, <1>2, <1>3, <1>4
  <2>. QED
    BY <1>0, <1>1, <1>2, <1>3, <1>4, <2>1
<1>6. inflight' \subseteq 1..read'
  BY <1>0, <1>1, <1>2, <1>3, <1>5
<1>7. FeedOK'
  <2>1. ASSUME NEW i \in table \cap unheard
        PROVE  log[i].request \in raced \/ i > read' \/ i \in inflight'
    <3>1. i \in Nat /\ read' \in Nat
      BY <1>1, <1>5
    <3>2. log[i].request \in raced \/ i > read \/ i \in inflight
      BY <1>0, <1>2 DEF FeedOK
    <3>. QED
      BY <1>0, <1>2, <1>5, <3>1, <3>2
  <2>2. ASSUME NEW i \in inflight', NEW j \in table, i < j, j <= read'
        PROVE  j \in inflight'
    <3>1. CASE j > read
      BY <1>0, <1>2, <1>5, <2>2, <3>1
    <3>2. CASE ~(j > read)
      <4>1. i <= read /\ j <= read
        BY <1>1, <1>2, <1>5, <1>6, <2>2, <3>2
      <4>2. i \in inflight
        BY <1>0, <1>1, <1>2, <1>3, <4>1
      <4>. QED
        BY <1>0, <1>2, <2>2, <4>1, <4>2 DEF FeedOK
    <3>. QED
      BY <3>1, <3>2
  <2>. QED
    BY <1>0, <1>1, <2>1, <2>2 DEF FeedOK
<1>8. CountsOK'
  <2>. SUFFICES ASSUME NEW r \in DOMAIN cards, About(r) \subseteq table, cards[r].answers = None,
                       NEW i \in About(r), log[i].kind = "request.created", i <= read',
                       i \notin inflight'
                PROVE  cards[r].count = Cardinality(Counted(r)')
    BY <1>0, <1>1 DEF CountsOK, About
  <2>1. \A j \in About(r) : j <= read' /\ j \notin inflight' <=> j <= read /\ j \notin inflight
    <3>. SUFFICES ASSUME NEW j \in table
                  PROVE  j <= read' /\ j \notin inflight' <=> j <= read /\ j \notin inflight
      OBVIOUS
    <3>1. CASE j > read
      BY <1>0, <1>1, <1>2, <1>3, <1>5, <3>1
    <3>2. CASE ~(j > read)
      BY <1>0, <1>1, <1>2, <1>3, <1>5, <3>2
    <3>. QED
      BY <3>1, <3>2
  <2>2. Counted(r)' = Counted(r)
    BY <1>1, <2>1 DEF Counted, About
  <2>3. cards[r].count = Cardinality(Counted(r))
    BY <1>0, <1>2, <2>1 DEF CountsOK
  <2>. QED
    BY <2>2, <2>3
<1>9. page = "live" /\ read' \in 0..seq /\ conn' \in BOOLEAN /\ conn'
  BY <1>0, <1>2, <1>5 DEF PageOK
<1>. QED
  BY <1>0, <1>6, <1>7, <1>8, <1>9, ConnectionKeeps

-----------------------------------------------------------------------------
(* Dispatching an event.                                                   *)

(* The event id turns the cards into D, which lacks V.                     *)
Dispatched(id, D, V) ==
  /\ id \in 1..seq
  /\ Heard(cards, D, log[id], log[id].request)
  /\ V = (unheard \ {id}) \cup {j \in About(log[id].request) : j > id}

(* What any dispatched event tells about the event's request.              *)
LEMMA DispatchedIs ==
  ASSUME StoryInv, PageInv, NEW id, NEW D, NEW V, Dispatched(id, D, V),
         NEW r, r = log[id].request
  PROVE  /\ seq \in Nat /\ id \in 1..seq /\ id \in About(r)
         /\ log[id] \in Events /\ r \in Requests /\ r \in drawn
         /\ ~Announcing(r)
         /\ \A i \in About(r) : log[i].kind = "request.created" => i <= id
         /\ log[id].kind = "request.created" => \A i \in About(r) : id <= i
         /\ \A i \in About(r) : i > id => i \in V
         /\ \A i \in About(r) : i \in unheard /\ i # id => i \in V
         /\ Later(id) = {j \in About(r) : j > id}
         /\ \A q : q # r => V \cap About(q) = unheard \cap About(q)
<1>0. /\ LogOK /\ AllDrawn /\ First /\ seq \in Nat /\ id \in 1..seq
      /\ V = (unheard \ {id}) \cup {j \in About(r) : j > id}
  BY LimitAssumption DEF StoryInv, Inv, ControlOK, Dispatched
<1>1. id \in About(r) /\ r \in drawn
  BY <1>0 DEF About, AllDrawn
<1>2. log[id] \in Events
  BY <1>0, ElementOfSeq DEF LogOK
<1>3. r \in Requests
  BY <1>2, EventRequest
<1>4. ~Announcing(r)
  BY <1>0, <1>1, <1>3 DEF First
<1>5. /\ \A i \in About(r) : log[i].kind = "request.created" => i <= id
      /\ log[id].kind = "request.created" => \A i \in About(r) : id <= i
  BY <1>0, <1>1 DEF First, About
<1>6. Later(id) = {j \in About(r) : j > id}
  BY DEF Later, About
<1>7. \A q : q # r => V \cap About(q) = unheard \cap About(q)
  BY <1>0, <1>1 DEF About
<1>. QED
  BY <1>0, <1>1, <1>2, <1>3, <1>4, <1>5, <1>6, <1>7

(* The card of the event's request says what the event says, or what it    *)
(* said before if the event says nothing of it.                            *)
LEMMA DispatchRight ==
  ASSUME StoryInv, PageInv, NEW id, NEW D, NEW V, Dispatched(id, D, V),
         NEW r \in DOMAIN D, r = log[id].request, r \notin torn
  PROVE  Right(D[r], r, V) /\ TopRight(D[r], r, V)
<1>. DEFINE e == log[id]
            m == mirror[r]
<1>0. /\ id \in 1..seq /\ r \in Requests /\ Later(id) \subseteq V \cap About(r) /\ e \in Events
      /\ \A i \in About(r) : i \in unheard /\ i # id => i \in V
  BY DispatchedIs
<1>1. /\ TellsStatus(e) /\ (\A j \in Later(id) : ~TellsStatus(log[j])) =>
           m.status = StatusIn(e)
      /\ TellsAccepted(e) /\ (\A j \in Later(id) : ~TellsAccepted(log[j])) =>
           m.accepted = AcceptedIn(e)
      /\ \A a \in DOMAIN m.tally :
           TellsVotes(e, a) /\ (\A j \in Later(id) : ~TellsVotes(log[j], a)) =>
             e.kind \in {"answer.created", "answer.vote"} /\ m.tally[a] = VotesIn(e)
  BY <1>0 DEF StoryInv, Chronicle
<1>. HIDE DEF m
<1>2. /\ e.kind # "request.deleted" /\ D[r] \in CardRecord
      /\ r \notin DOMAIN cards => e.kind = "request.created" /\ D[r] = NewCard
      /\ r \in DOMAIN cards =>
            /\ D[r].status = IF TellsStatus(e) THEN StatusIn(e) ELSE cards[r].status
            /\ D[r].accepted = IF e.kind = "request.accepted" THEN e.answer
                               ELSE cards[r].accepted
            /\ D[r].top >= cards[r].top
            /\ e.kind = "answer.vote" => D[r].top >= e.votes
  BY DEF Dispatched, Heard
<1>3. D[r].top \in Nat
  BY <1>2, CardFields
(* The card as it was.                                                     *)
<1>4. ASSUME r \in DOMAIN cards
      PROVE  /\ \A i \in unheard \cap About(r) : log[i].kind # "request.created"
             /\ Right(cards[r], r, unheard) /\ TopRight(cards[r], r, unheard)
             /\ cards[r].top \in Nat
  BY <1>4, CardFields DEF PageInv, CardsOK
<1>5. NewCard.status = "open" /\ NewCard.accepted = None /\ NewCard.top = 0
  BY DEF NewCard
<1>6. ASSUME \A i \in V \cap About(r) : ~TellsStatus(log[i])
      PROVE  D[r].status = m.status
  <2>1. CASE TellsStatus(e)
    <3>1. m.status = StatusIn(e)
      BY <1>0, <1>1, <1>6, <2>1
    <3>2. D[r].status = StatusIn(e)
      BY <1>2, <1>5, <2>1 DEF StatusIn
    <3>. QED
      BY <3>1, <3>2
  <2>2. CASE ~TellsStatus(e)
    <3>1. r \in DOMAIN cards
      BY <1>2, <2>2 DEF TellsStatus
    <3>2. \A i \in unheard \cap About(r) : ~TellsStatus(log[i])
      BY <1>0, <1>6, <2>2
    <3>. QED
      BY <1>2, <1>4, <2>2, <3>1, <3>2 DEF Right, m
  <2>. QED
    BY <2>1, <2>2
<1>7. ASSUME \A i \in V \cap About(r) : ~TellsAccepted(log[i])
      PROVE  D[r].accepted = m.accepted
  <2>1. CASE e.kind = "request.accepted"
    <3>1. m.accepted = AcceptedIn(e)
      BY <1>0, <1>1, <1>7, <2>1 DEF TellsAccepted
    <3>2. r \in DOMAIN cards
      BY <1>2, <2>1
    <3>. QED
      BY <1>2, <2>1, <3>1, <3>2 DEF AcceptedIn
  <2>2. CASE r \notin DOMAIN cards
    <3>1. m.accepted = AcceptedIn(e) /\ e.kind = "request.created"
      BY <1>0, <1>1, <1>2, <1>7, <2>2 DEF TellsAccepted
    <3>. QED
      BY <1>2, <1>5, <2>2, <3>1 DEF AcceptedIn
  <2>3. CASE r \in DOMAIN cards /\ e.kind # "request.accepted"
    <3>1. ASSUME NEW i \in unheard \cap About(r)  PROVE ~TellsAccepted(log[i])
      BY <1>0, <1>2, <1>4, <1>7, <2>3, <3>1 DEF TellsAccepted
    <3>. QED
      BY <1>2, <1>4, <2>3, <3>1 DEF Right, m
  <2>. QED
    BY <2>1, <2>2, <2>3
<1>8. ASSUME NEW a \in DOMAIN m.tally, \A i \in V \cap About(r) : ~TellsVotes(log[i], a)
      PROVE  D[r].top >= m.tally[a]
  <2>0. m.tally[a] \in Nat
    BY <1>0, TalliesAreNumbers DEF m
  <2>1. CASE TellsVotes(e, a)
    <3>1. e.kind \in {"answer.created", "answer.vote"} /\ m.tally[a] = VotesIn(e)
      BY <1>0, <1>1, <1>8, <2>1
    <3>2. r \in DOMAIN cards
      BY <1>2, <3>1
    <3>. QED
      BY <1>2, <1>3, <3>1, <3>2 DEF VotesIn
  <2>2. CASE ~TellsVotes(e, a)
    <3>1. r \in DOMAIN cards
      BY <1>2, <2>2 DEF TellsVotes
    <3>2. \A i \in unheard \cap About(r) : ~TellsVotes(log[i], a)
      BY <1>0, <1>8, <2>2
    <3>3. cards[r].top >= m.tally[a]
      BY <1>4, <3>1, <3>2 DEF TopRight, m
    <3>. QED
      BY <1>2, <1>3, <1>4, <2>0, <3>1, <3>3
  <2>. QED
    BY <2>1, <2>2
<1>. QED
  BY <1>6, <1>7, <1>8 DEF Right, TopRight, m

LEMMA DispatchCards ==
  ASSUME StoryInv, PageInv, NEW id, NEW D, NEW V, Dispatched(id, D, V)
  PROVE  CardsOK(D, V)
<1>1. PICK r : r = log[id].request
  OBVIOUS
<1>. SUFFICES ASSUME NEW q \in DOMAIN D
              PROVE  /\ q \in Requests \cap drawn /\ D[q] \in CardRecord
                     /\ ~Announcing(q)
                     /\ \A i \in V \cap About(q) : log[i].kind # "request.created"
                     /\ q \notin torn => Right(D[q], q, V) /\ TopRight(D[q], q, V)
  BY DEF CardsOK
<1>2. CASE q # r
  <2>1. q \in DOMAIN cards /\ D[q] = cards[q]
    BY <1>1, <1>2 DEF Dispatched, Heard
  <2>2. V \cap About(q) = unheard \cap About(q)
    BY <1>1, <1>2, DispatchedIs
  <2>3. /\ q \in Requests \cap drawn /\ cards[q] \in CardRecord
        /\ ~Announcing(q)
        /\ \A i \in unheard \cap About(q) : log[i].kind # "request.created"
        /\ q \notin torn =>
             Right(cards[q], q, unheard) /\ TopRight(cards[q], q, unheard)
    BY <2>1 DEF PageInv, CardsOK
  <2>. QED
    BY <2>1, <2>2, <2>3 DEF Right, TopRight
<1>3. CASE q = r
  <2>1. /\ id \in 1..seq /\ seq \in Nat /\ r \in Requests /\ r \in drawn /\ ~Announcing(r)
        /\ \A i \in About(r) : log[i].kind = "request.created" => i <= id
        /\ log[id].kind = "request.created" => \A i \in About(r) : id <= i
    BY <1>1, DispatchedIs
  <2>2. D[q] \in CardRecord /\ (q \notin DOMAIN cards => log[id].kind = "request.created")
    BY <1>1, <1>3 DEF Dispatched, Heard
  <2>3. ASSUME NEW i \in V \cap About(r), log[i].kind = "request.created"  PROVE FALSE
    <3>1. i <= id /\ i \in 1..seq
      BY <2>1, <2>3 DEF About
    <3>2. i \in unheard /\ i # id
      BY <1>1, <2>1, <2>3, <3>1 DEF Dispatched
    <3>3. CASE r \in DOMAIN cards
      BY <2>3, <3>2, <3>3 DEF PageInv, CardsOK
    <3>4. CASE r \notin DOMAIN cards
      <4>1. id <= i
        BY <1>3, <2>1, <2>2, <2>3, <3>4
      <4>. QED
        BY <2>1, <3>1, <3>2, <4>1
    <3>. QED
      BY <3>3, <3>4
  <2>4. ASSUME q \notin torn  PROVE Right(D[q], q, V) /\ TopRight(D[q], q, V)
    BY <1>1, <1>3, <2>4, DispatchRight
  <2>. QED
    BY <1>3, <2>1, <2>2, <2>3, <2>4
<1>. QED
  BY <1>2, <1>3

LEMMA DispatchComplete ==
  ASSUME StoryInv, PageInv, NEW id, NEW D, NEW V, Dispatched(id, D, V),
         CardsComplete(cards, unheard)
  PROVE  CardsComplete(D, V)
<1>1. PICK r : r = log[id].request
  OBVIOUS
<1>. SUFFICES ASSUME NEW q \in DOMAIN requests \ (torn \cup DOMAIN D), ~Announcing(q)
              PROVE  \E i \in V \cap About(q) : log[i].kind = "request.created"
  BY DEF CardsComplete
<1>2. q \notin DOMAIN cards
  <2>1. CASE q # r
    BY <1>1, <2>1 DEF Dispatched, Heard
  <2>2. ASSUME q = r, q \in DOMAIN cards  PROVE FALSE
    <3>1. log[id].kind = "request.deleted" /\ id \in 1..seq
      BY <1>1, <2>2 DEF Dispatched, Heard
    <3>. QED
      BY <1>1, <2>2, <3>1 DEF StoryInv, Final, Last
  <2>. QED
    BY <2>1, <2>2
<1>3. PICK i \in unheard \cap About(q) : log[i].kind = "request.created"
  BY <1>2 DEF CardsComplete
<1>4. i # id
  <2>1. log[id].kind = "request.created" => r \in DOMAIN D
    BY <1>1 DEF Dispatched, Heard
  <2>2. log[i].request = q
    BY DEF About
  <2>. QED
    BY <1>1, <1>3, <2>1, <2>2
<1>5. i \in V
  BY <1>4 DEF Dispatched
<1>. QED
  BY <1>3, <1>5

(* The counts: nothing before the creation is counted, everything after it *)
(* once, when it is dispatched.                                            *)
LEMMA DispatchCounts ==
  ASSUME StoryInv, PageInv, NEW id, NEW D, NEW V, Dispatched(id, D, V), conn,
         id \in inflight, NEW q \in DOMAIN D, About(q) \subseteq table, D[q].answers = None,
         NEW i \in About(q), log[i].kind = "request.created", i <= read,
         i \notin inflight \ {id}
  PROVE  D[q].count = Cardinality({j \in About(q) : /\ log[j].kind = "answer.created"
                                                    /\ j <= read /\ j \notin inflight \ {id}})
<1>. DEFINE now == {j \in About(q) : /\ log[j].kind = "answer.created"
                                     /\ j <= read /\ j \notin inflight \ {id}}
<1>1. PICK r : r = log[id].request
  OBVIOUS
<1>0. /\ seq \in Nat /\ id \in 1..seq /\ id \in About(r)
      /\ \A k \in About(r) : log[k].kind = "request.created" => k <= id
      /\ log[id].kind = "request.created" => \A k \in About(r) : id <= k
  BY <1>1, DispatchedIs
<1>2. /\ read \in Nat /\ id <= read
      /\ \A k \in inflight, j \in table : k < j /\ j <= read => j \in inflight
  BY DEF PageInv, PageOK, FeedOK, Shape
<1>3. ASSUME q \in DOMAIN cards, cards[q].answers = None, i \notin inflight
      PROVE  cards[q].count = Cardinality(Counted(q))
  BY <1>3 DEF PageInv, CountsOK
<1>4. CASE q # r
  <2>1. q \in DOMAIN cards /\ D[q] = cards[q]
    BY <1>1, <1>4 DEF Dispatched, Heard
  <2>2. id \notin About(q)
    BY <1>1, <1>4 DEF About
  <2>3. now = Counted(q)
    BY <2>2 DEF Counted
  <2>. QED
    BY <1>3, <2>1, <2>2, <2>3
<1>5. CASE q = r
  <2>1. /\ r \notin DOMAIN cards => log[id].kind = "request.created" /\ D[r] = NewCard
        /\ r \in DOMAIN cards =>
             /\ cards[r].answers = None
             /\ D[r].count = IF log[id].kind = "request.created" THEN 0
                             ELSE IF log[id].kind = "answer.created" THEN cards[r].count + 1
                             ELSE cards[r].count
    BY <1>1, <1>5 DEF Dispatched, Heard
  <2>2. CASE log[id].kind = "request.created"
    <3>1. D[r].count = 0
      BY <2>1, <2>2 DEF NewCard
    <3>2. ASSUME NEW j \in now  PROVE FALSE
      <4>1. /\ j \in About(r) /\ j \in table /\ log[j].kind = "answer.created" /\ j <= read
            /\ j \notin inflight \ {id}
        BY <1>5
      <4>2. id <= j /\ j # id
        BY <1>0, <2>2, <4>1
      <4>3. j \in 1..seq
        BY <4>1 DEF About
      <4>. QED
        BY <1>0, <1>2, <4>1, <4>2, <4>3
    <3>3. now = {}
      <4>. HIDE DEF now
      <4>. QED
        BY <3>2
    <3>. QED
      BY <1>5, <3>1, <3>3, FS_EmptySet
  <2>3. CASE log[id].kind # "request.created"
    <3>1. i \notin inflight /\ r \in DOMAIN cards /\ cards[r].answers = None
      BY <1>5, <2>1, <2>3
    <3>2. cards[r].count = Cardinality(Counted(r))
      BY <1>3, <1>5, <3>1
    <3>3. CASE log[id].kind = "answer.created"
      <4>1. now = Counted(r) \cup {id}
        BY <1>0, <1>2, <1>5, <3>3 DEF Counted
      <4>2. id \notin Counted(r)
        BY DEF Counted
      <4>3. IsFiniteSet(Counted(r))
        <5>1. Counted(r) \subseteq 1..seq /\ IsFiniteSet(1..seq)
          BY <1>0, FS_Interval DEF Counted, About
        <5>. QED
          BY <5>1, FS_Subset
      <4>4. Cardinality(Counted(r) \cup {id}) = Cardinality(Counted(r)) + 1
        BY <4>2, <4>3, FS_AddElement
      <4>. QED
        BY <1>5, <2>1, <3>1, <3>2, <3>3, <4>1, <4>4
    <3>4. CASE log[id].kind # "answer.created"
      <4>1. now = Counted(r)
        BY <1>5, <3>4 DEF Counted
      <4>. QED
        BY <1>5, <2>1, <2>3, <3>1, <3>2, <3>4, <4>1
    <3>. QED
      BY <3>3, <3>4
  <2>. QED
    BY <2>2, <2>3
<1>. QED
  BY <1>4, <1>5

LEMMA DispatchKeeps ==
  ASSUME StoryInv, PageInv, Dispatch
  PROVE  PageInv'
<1>1. PICK id, r : id = Least(inflight) /\ r = log[id].request
  OBVIOUS
<1>2. /\ UNCHANGED logVars /\ inflight # {}
      /\ UNCHANGED <<page, reply, modal, asked, details, tallies, conn, read>>
      /\ cards' = OnEvent(cards, log[id])
      /\ inflight' = inflight \ {id}
      /\ unheard' = (unheard \ {id}) \cup {j \in About(r) : j > id}
      /\ raced' = raced
  BY <1>1 DEF Dispatch, fetching
<1>3. /\ PageOK /\ Shape /\ DetailsOK /\ FeedOK /\ read \in Nat /\ inflight \subseteq 1..read
      /\ read <= seq /\ seq \in Nat
  BY LimitAssumption DEF PageInv, PageOK, Shape, StoryInv, Inv, ControlOK
<1>4. conn /\ page = "live" /\ reply = None
  BY <1>2, <1>3 DEF PageOK
<1>5. id \in inflight /\ \A j \in inflight : id <= j
  <2>1. inflight \in SUBSET Nat
    BY <1>3
  <2>. QED
    BY <1>1, <1>2, <2>1, LeastExists
<1>6. id \in 1..seq
  BY <1>3, <1>5
<1>7. PICK D, V : D = cards' /\ V = unheard'
  OBVIOUS
<1>8. Dispatched(id, D, V)
  <2>1. log[id] \in Events
    BY <1>6, ElementOfSeq DEF StoryInv, LogOK
  <2>2. CardsTyped(cards)
    BY <1>3 DEF PageOK, CardsTyped
  <2>3. Heard(cards, D, log[id], log[id].request)
    BY <1>2, <1>7, <2>1, <2>2, OnEventIs
  <2>. QED
    BY <1>1, <1>2, <1>6, <1>7, <2>3 DEF Dispatched
<1>9. /\ UNCHANGED <<seq, table, log, mirror, torn>> /\ r \in Requests
  BY <1>1, <1>2, <1>8, SameServer, DispatchedIs
<1>10. CardsOK(D, V) /\ CardsComplete(D, V)
  BY <1>4, <1>8, DispatchCards, DispatchComplete DEF PageInv
<1>11. CardsOK(cards, unheard)' /\ CardsComplete(cards, unheard)'
  BY <1>2, <1>7, <1>9, <1>10, CardsKeep, CompleteKeep
<1>12. PageOK'
  <2>1. \A q \in DOMAIN D : q \in Requests /\ D[q] \in CardRecord
    BY <1>10 DEF CardsOK
  <2>2. unheard' \subseteq 1..seq
    BY <1>2, <1>3 DEF PageOK, About
  <2>3. raced' \subseteq Requests
    BY <1>2, <1>3, <1>9 DEF PageOK
  <2>. QED
    BY <1>2, <1>3, <1>4, <1>7, <1>9, <2>1, <2>2, <2>3 DEF PageOK
<1>13. Shape'
  BY <1>2, <1>3, <1>4 DEF Shape
<1>14. ReplyOK'
  BY <1>2, <1>4 DEF ReplyOK
<1>15. DetailsOK'
  BY <1>2, <1>3, DetailsKeep
<1>16. FeedOK'
  <2>1. ASSUME NEW i \in table, i \in V
        PROVE  log[i].request \in raced \/ i > read \/ i \in inflight \ {id}
    <3>1. CASE i \in unheard \ {id}
      BY <1>3, <1>4, <2>1, <3>1 DEF FeedOK
    <3>2. CASE i \in About(r) /\ i > id
      <4>1. i \in 1..seq
        BY <3>2 DEF About
      <4>. QED
        BY <1>3, <1>4, <1>5, <1>6, <2>1, <3>2, <4>1 DEF FeedOK
    <3>. QED
      BY <1>2, <1>7, <2>1, <3>1, <3>2
  <2>2. ASSUME NEW i \in inflight \ {id}, NEW j \in table, i < j, j <= read
        PROVE  j \in inflight \ {id}
    <3>1. j \in inflight
      BY <1>3, <1>4, <2>2 DEF FeedOK
    <3>2. id <= i /\ id \in 1..seq /\ i \in 1..read
      BY <1>3, <1>5, <1>6, <2>2
    <3>3. id # j
      BY <1>3, <2>2, <3>1, <3>2
    <3>. QED
      BY <3>1, <3>3
  <2>. QED
    BY <1>2, <1>7, <1>9, <2>1, <2>2 DEF FeedOK
<1>17. CountsOK'
  <2>. SUFFICES ASSUME NEW q \in DOMAIN cards', About(q)' \subseteq table', cards'[q].answers = None,
                       NEW i \in About(q)', log'[i].kind = "request.created", i <= read',
                       i \notin inflight'
                PROVE  cards'[q].count = Cardinality(Counted(q)')
    BY DEF CountsOK
  <2>1. About(q)' = About(q)
    BY <1>9 DEF About
  <2>2. Counted(q)' = {j \in About(q) : /\ log[j].kind = "answer.created"
                                        /\ j <= read /\ j \notin inflight \ {id}}
    BY <1>2, <1>9, <2>1 DEF Counted
  <2>3. /\ q \in DOMAIN D /\ About(q) \subseteq table /\ D[q].answers = None
        /\ i \in About(q) /\ log[i].kind = "request.created" /\ i <= read
        /\ i \notin inflight \ {id}
    BY <1>2, <1>7, <1>9, <2>1
  <2>4. D[q].count = Cardinality({j \in About(q) : /\ log[j].kind = "answer.created"
                                                   /\ j <= read /\ j \notin inflight \ {id}})
    BY <1>4, <1>5, <1>8, <2>3, DispatchCounts
  <2>. QED
    BY <1>7, <2>2, <2>4
<1>. QED
  BY <1>11, <1>12, <1>13, <1>14, <1>15, <1>16, <1>17 DEF PageInv

-----------------------------------------------------------------------------
(* The invariant.                                                          *)

LEMMA ServerStepKeeps ==
  ASSUME StoryInv, PageInv, ServerStep
  PROVE  PageInv'
<1>1. /\ LogNext /\ unheard' = unheard \cup (seq + 1)..seq'
      /\ UNCHANGED <<page, reply, cards, modal, asked, details, tallies, raced, read>>
      /\ UNCHANGED <<conn, inflight>> \/ (conn' = FALSE /\ inflight' = {})
  BY DEF ServerStep, fetching, feed
<1>2. \A t \in tallies' : t.votes \in Nat
  BY <1>1 DEF PageInv, Shape
<1>. QED
  BY <1>1, <1>2, ServerKeeps

(* A vote of the page's own appends nothing yet.                           *)
LEMMA OwnVoteIs ==
  ASSUME StoryInv, NEW a \in Answers, NEW v \in Clients, OwnVote(a, v)
  PROVE  LogNext /\ seq' = seq /\ seq \in Nat
<1>1. seq \in Nat
  BY LimitAssumption DEF StoryInv, Inv, ControlOK
<1>2. Next /\ seq' = seq /\ log' = log
  BY DEF OwnVote, ToggleVote, Start, events, Next
<1>. QED
  BY <1>1, <1>2 DEF LogNext

LEMMA OwnVoteKeeps ==
  ASSUME StoryInv, PageInv, NEW a \in Answers, NEW v \in Clients, OwnVote(a, v)
  PROVE  PageInv'
<1>1. LogNext /\ seq' = seq /\ seq \in Nat
  BY OwnVoteIs
<1>2. /\ UNCHANGED <<page, reply, cards, modal, asked, details, raced, read, conn, inflight>>
      /\ unheard' = unheard
      /\ tallies' = tallies \cup {[request |-> modal, votes |-> VoteCount(a)']}
  BY DEF OwnVote, feed
<1>3. unheard' = unheard \cup (seq + 1)..seq'
  <2>1. (seq + 1)..seq' = {}
    BY <1>1
  <2>. QED
    BY <1>2, <2>1
<1>4. VoteCount(a)' \in Nat
  <2>1. Inv'
    BY <1>1, InvStep DEF StoryInv, LogNext
  <2>2. IsFiniteSet(votes')
    BY <2>1 DEF Inv, Consistent, RowsOK
  <2>3. {w \in votes' : w[1] = a} \in SUBSET votes'
    OBVIOUS
  <2>4. Cardinality({w \in votes' : w[1] = a}) \in Nat
    BY <2>2, <2>3, FS_Subset, FS_CardinalityType
  <2>. QED
    BY <2>4 DEF VoteCount
<1>5. \A t \in tallies' : t.votes \in Nat
  BY <1>2, <1>4 DEF PageInv, Shape
<1>6. UNCHANGED <<page, reply, cards, modal, asked, details, raced, read>>
  BY <1>2
<1>. QED
  BY <1>1, <1>2, <1>3, <1>5, <1>6, ServerKeeps

LEMMA PageInvInit == PageInit => StoryInv /\ PageInv
<1>. SUFFICES ASSUME PageInit  PROVE StoryInv /\ PageInv
  OBVIOUS
<1>1. StoryInv
  BY StoryInit DEF PageInit
<1>2. /\ page = "loading" /\ reply = None /\ cards = << >> /\ modal = None
      /\ asked = {} /\ details = {} /\ tallies = {} /\ raced = {}
      /\ conn = FALSE /\ read = 0 /\ inflight = {} /\ unheard = {}
      /\ seq = 0 /\ log = << >>
  BY DEF PageInit, LogInit, Init
<1>3. DOMAIN cards = {} /\ unheard = 1..seq
  BY <1>2, NoCards
<1>4. PageOK
  BY <1>2, <1>3 DEF PageOK
<1>5. Shape
  BY <1>2, <1>3 DEF Shape
<1>6. CardsOK(cards, unheard) /\ (page = "live" => CardsComplete(cards, unheard))
  BY <1>2, <1>3 DEF CardsOK
<1>7. ReplyOK /\ DetailsOK /\ FeedOK /\ CountsOK
  BY <1>2, <1>3 DEF ReplyOK, DetailsOK, FeedOK, CountsOK
<1>. QED
  BY <1>1, <1>4, <1>5, <1>6, <1>7 DEF PageInv

(* Every step of the page is one of the server, or leaves the server alone. *)
LEMMA PageStepIs ==
  ASSUME StoryInv, [PageNext]_allVars
  PROVE  [LogNext]_logVars
<1>1. CASE ServerStep
  BY <1>1 DEF ServerStep
<1>2. CASE \E a \in Answers, v \in Clients : OwnVote(a, v)
  BY <1>2, OwnVoteIs
<1>3. CASE \/ ServeList \/ ListArrives \/ ListFails \/ Reload
           \/ Connect \/ ReadRows \/ Dispatch \/ Break \/ CloseModal
  BY <1>3 DEF ServeList, ListArrives, ListFails, Reload, Connect, ReadRows, Dispatch, Break,
     CloseModal
<1>4. CASE \/ \E r \in Requests : OpenModal(r) \/ Refetch(r) \/ ServeDetail(r)
           \/ \E t \in tallies : TallyArrives(t)
           \/ \E d \in details : DetailArrives(d)
           \/ UNCHANGED allVars
  BY <1>4 DEF OpenModal, Refetch, ServeDetail, TallyArrives, DetailArrives, allVars
<1>. QED
  BY <1>1, <1>2, <1>3, <1>4 DEF PageNext

LEMMA PageStutters ==
  ASSUME PageInv, UNCHANGED allVars
  PROVE  PageInv'
<1>1. /\ UNCHANGED <<page, reply, cards, modal, asked, details, tallies, raced,
                     conn, read, inflight, unheard>>
      /\ UNCHANGED <<requests, answers, votes, seq, table, mirror, job, drawn, torn, log>>
  BY DEF allVars, browser, fetching, feed, logVars, vars, tables, events, ghosts
<1>2. PageOK' /\ Shape'
  BY <1>1 DEF PageInv, PageOK, Shape
<1>3. CardsOK(cards, unheard)' /\ (page' = "live" => CardsComplete(cards, unheard)')
  BY <1>1 DEF PageInv, CardsOK, CardsComplete, Announcing, About, Right, TopRight
<1>4. ReplyOK' /\ DetailsOK'
  BY <1>1 DEF PageInv, ReplyOK, DetailsOK, DetailOK, After, CardsOK, CardsComplete, Announcing,
     About, Right, TopRight
<1>5. FeedOK' /\ CountsOK'
  BY <1>1 DEF PageInv, FeedOK, CountsOK, Counted, About
<1>. QED
  BY <1>2, <1>3, <1>4, <1>5 DEF PageInv

LEMMA PageInvStep ==
  ASSUME StoryInv, PageInv, [PageNext]_allVars
  PROVE  StoryInv' /\ PageInv'
<1>1. StoryInv'
  BY PageStepIs, StoryStep
<1>. SUFFICES PageInv'
  BY <1>1
<1>2. CASE ServerStep \/ \E a \in Answers, v \in Clients : OwnVote(a, v)
  BY <1>2, ServerStepKeeps, OwnVoteKeeps
<1>3. CASE ServeList \/ ListArrives \/ ListFails \/ Reload
  BY <1>3, ServeListKeeps, ListArrivesKeeps, ListFailsKeeps, ReloadKeeps
<1>4. CASE Connect \/ ReadRows \/ Dispatch \/ Break
  BY <1>4, ConnectKeeps, ReadRowsKeeps, DispatchKeeps, BreakKeeps
<1>5. CASE CloseModal \/ \E r \in Requests : OpenModal(r) \/ Refetch(r)
  BY <1>5, UserKeeps
<1>6. CASE \E r \in Requests : ServeDetail(r)
  BY <1>6, ServeDetailKeeps
<1>7. CASE \/ \E t \in tallies : TallyArrives(t)
           \/ \E d \in details : DetailArrives(d)
  BY <1>7, TallyArrivesKeeps, DetailArrivesKeeps
<1>8. CASE UNCHANGED allVars
  BY <1>8, PageStutters
<1>. QED
  BY <1>2, <1>3, <1>4, <1>5, <1>6, <1>7, <1>8 DEF PageNext

-----------------------------------------------------------------------------
(* What a page that is caught up shows.                                    *)

(* There is no row left that the cards lack.                               *)
LEMMA NothingLeft ==
  ASSUME StoryInv, PageInv, CaughtUp
  PROVE  /\ page = "live" /\ conn /\ job = Idle /\ inflight = {}
         /\ read \in Nat /\ seq \in Nat /\ table \subseteq 1..seq
         /\ \A i \in table : i <= read /\ (i \in unheard => log[i].request \in raced)
<1>1. conn /\ job = Idle /\ Unread = {} /\ inflight = {}
  BY DEF CaughtUp
<1>2. /\ page = "live" /\ read \in Nat /\ seq \in Nat /\ table \subseteq 1..seq
  BY <1>1, LimitAssumption DEF PageInv, PageOK, Shape, StoryInv, Inv, ControlOK
<1>3. \A i \in table : i <= read
  BY <1>1, <1>2, BatchAssumption, BatchReads DEF Unread
<1>4. ASSUME NEW i \in table, i \in unheard  PROVE log[i].request \in raced
  <2>1. log[i].request \in raced \/ i > read \/ i \in inflight
    BY <1>1, <1>4 DEF PageInv, FeedOK
  <2>. QED
    BY <1>1, <1>2, <1>3, <2>1
<1>. QED
  BY <1>1, <1>2, <1>3, <1>4

LEMMA PageTells ==
  ASSUME StoryInv, PageInv
  PROVE  CardsTell
<1>. SUFFICES ASSUME CaughtUp, NEW r \in Requests \ (raced \cup torn),
                     About(r) \cap unheard \subseteq table
              PROVE  /\ r \in DOMAIN requests =>
                          /\ r \in DOMAIN cards
                          /\ cards[r].status = requests[r].status
                          /\ cards[r].accepted = requests[r].accepted
                          /\ cards[r].top >= TopVotes(r)
                     /\ r \in DOMAIN cards => r \in DOMAIN requests \/ Retention
  BY DEF CardsTell
<1>1. /\ page = "live" /\ job = Idle /\ unheard \cap About(r) = {}
      /\ Inv /\ job.at = "idle"
  BY NothingLeft DEF StoryInv, Idle, About
<1>2. CardsOK(cards, unheard) /\ CardsComplete(cards, unheard)
  BY <1>1 DEF PageInv
<1>3. ASSUME r \in DOMAIN cards
      PROVE  /\ cards[r] \in CardRecord
             /\ cards[r].status = mirror[r].status /\ cards[r].accepted = mirror[r].accepted
             /\ \A a \in DOMAIN mirror[r].tally : cards[r].top >= mirror[r].tally[a]
  <2>1. cards[r] \in CardRecord /\ Right(cards[r], r, unheard) /\ TopRight(cards[r], r, unheard)
    BY <1>2, <1>3 DEF CardsOK
  <2>. QED
    BY <1>1, <2>1 DEF Right, TopRight
<1>4. ASSUME r \in DOMAIN requests
      PROVE  /\ r \in DOMAIN cards
             /\ cards[r].status = requests[r].status
             /\ cards[r].accepted = requests[r].accepted
             /\ cards[r].top >= TopVotes(r)
  <2>1. r \in DOMAIN cards
    BY <1>1, <1>2, <1>4 DEF CardsComplete, Announcing
  <2>2. mirror[r] = Card(requests[r].status, requests[r].accepted, Tally(r))
    BY <1>1, <1>4, MirrorCard
  <2>3. /\ mirror[r].status = requests[r].status /\ mirror[r].accepted = requests[r].accepted
        /\ mirror[r].tally = [a \in AnswersTo(r) |-> VoteCount(a)]
    BY <2>2 DEF Card, Tally
  <2>4. cards[r].top >= TopVotes(r)
    <3>1. CASE TopVotes(r) = 0
      BY <1>3, <2>1, <3>1, CardFields
    <3>2. CASE \E a \in AnswersTo(r) : TopVotes(r) = VoteCount(a)
      BY <1>3, <2>1, <2>3, <3>2
    <3>. QED
      BY <1>1, <3>1, <3>2, TopVotesIs
  <2>. QED
    BY <1>3, <2>1, <2>3, <2>4
<1>5. ASSUME r \in DOMAIN cards, r \notin DOMAIN requests, ~Retention
      PROVE  FALSE
  <2>1. mirror[r] = Absent
    BY <1>1, <1>5 DEF Inv, Matching, Told, View
  <2>2. mirror[r].status = "absent"
    BY <2>1 DEF Absent
  <2>. QED
    BY <1>3, <1>5, <2>2, CardFields
<1>. QED
  BY <1>4, <1>5

(* An answer is announced by one event.                                    *)
LEMMA AnnouncementIs ==
  ASSUME NEW e \in Events, e.kind = "answer.created"
  PROVE  e = Answered(e.request, e.answer)
<1>1. /\ e \notin {Created(r, c) : r \in Requests, c \in Clients}
      /\ e \notin {ClosedEvent(r) : r \in Requests} \cup {Deleted(r) : r \in Requests}
  BY DEF Created, ClosedEvent, Deleted
<1>2. /\ e \notin {Accepted(r, a) : r \in Requests, a \in Answers}
      /\ e \notin {Voted(r, a, n) : r \in Requests, a \in Answers, n \in Nat}
  BY DEF Accepted, Voted
<1>3. PICK r \in Requests, a \in Answers : e = Answered(r, a)
  BY <1>1, <1>2 DEF Events
<1>. QED
  BY <1>3 DEF Answered

LEMMA AnswersCounted ==
  ASSUME StoryInv, job = Idle, NEW r \in DOMAIN requests, r \notin torn
  PROVE  Cardinality({i \in About(r) : log[i].kind = "answer.created"})
           = Cardinality(AnswersTo(r))
<1>. DEFINE S == {i \in About(r) : log[i].kind = "answer.created"}
            f == [i \in S |-> log[i].answer]
<1>0. /\ LogOK /\ Once /\ AnswersAnnounced /\ seq \in Nat /\ job.at = "idle"
      /\ \A i \in 1..seq : log[i] \in Events
  <2>1. LogOK /\ Once /\ AnswersAnnounced /\ seq \in Nat /\ job.at = "idle"
    BY LimitAssumption DEF StoryInv, Inv, ControlOK, Idle
  <2>. QED
    BY <2>1 DEF LogOK
<1>1. ASSUME NEW i \in S
      PROVE  i \in 1..seq /\ log[i] = Answered(r, f[i]) /\ f[i] \in AnswersTo(r)
  <2>1. i \in 1..seq /\ log[i].request = r /\ log[i].kind = "answer.created"
    BY DEF About
  <2>2. log[i].answer \in AnswersTo(r)
    BY <1>0, <2>1 DEF AnswersAnnounced
  <2>. QED
    BY <1>0, <2>1, <2>2, AnnouncementIs
<1>2. ASSUME NEW i \in S, NEW j \in S, f[i] = f[j]  PROVE i = j
  <2>1. log[i] = log[j] /\ Creation(log[i])
    BY <1>1, <1>2 DEF Creation, About
  <2>. QED
    BY <1>0, <1>1, <2>1 DEF Once
<1>3. ASSUME NEW a \in AnswersTo(r)  PROVE \E i \in S : f[i] = a
  <2>1. a \in DOMAIN answers /\ answers[a].request = r
    BY DEF AnswersTo
  <2>2. PICK i \in 1..seq : log[i] = Answered(r, a)
    BY <1>0, <2>1 DEF AnswersAnnounced
  <2>3. log[i].request = r /\ log[i].kind = "answer.created" /\ log[i].answer = a
    BY <2>2 DEF Answered
  <2>4. i \in S
    BY <2>3 DEF About
  <2>. QED
    BY <2>3, <2>4
<1>4. f \in [S -> AnswersTo(r)]
  BY <1>1
<1>5. IsFiniteSet(S)
  <2>1. S \in SUBSET (1..seq)
    BY DEF About
  <2>2. IsFiniteSet(1..seq)
    BY <1>0, FS_Interval
  <2>. HIDE DEF S
  <2>. QED
    BY <2>1, <2>2, FS_Subset
<1>. HIDE DEF S, f
<1>6. f \in Bijection(S, AnswersTo(r))
  BY <1>2, <1>3, <1>4 DEF Bijection, Injection, Surjection, IsInjective
<1>7. Cardinality(AnswersTo(r)) = Cardinality(S)
  BY <1>5, <1>6, FS_Bijection DEF ExistsBijection
<1>. QED
  BY <1>7 DEF S

LEMMA PageCounts ==
  ASSUME StoryInv, PageInv
  PROVE  CountsRight
<1>. SUFFICES ASSUME CaughtUp, NEW r \in (DOMAIN cards \cap DOMAIN requests) \ torn,
                     About(r) \subseteq table, cards[r].answers = None
              PROVE  cards[r].count = Cardinality(AnswersTo(r))
  BY DEF CountsRight
<1>1. /\ conn /\ job = Idle /\ inflight = {}
      /\ \A i \in About(r) : i <= read /\ i \notin inflight
  BY NothingLeft
<1>2. PICK i \in About(r) : log[i].kind = "request.created"
  BY <1>1 DEF StoryInv, Announced, Announcing, Idle
<1>3. cards[r].count = Cardinality(Counted(r))
  BY <1>1, <1>2 DEF PageInv, CountsOK
<1>4. Counted(r) = {j \in About(r) : log[j].kind = "answer.created"}
  BY <1>1 DEF Counted
<1>. QED
  BY <1>1, <1>3, <1>4, AnswersCounted

-----------------------------------------------------------------------------
LEMMA PageAlways == PageSpec => [](StoryInv /\ PageInv)
<1>1. PageInit => StoryInv /\ PageInv
  BY PageInvInit
<1>2. (StoryInv /\ PageInv) /\ [PageNext]_allVars => (StoryInv /\ PageInv)'
  BY PageInvStep
<1>. QED
  BY <1>1, <1>2, PTL DEF PageSpec

(* What the browser holds stays well formed: neither a list on its way nor *)
(* a card outlives the load it belongs to, and no event in flight outlives *)
(* the connection that read it (loadInitial and connectSse of app.js).     *)
THEOREM PageStaysSane == PageSpec => []PageOK
<1>1. PageInv => PageOK
  BY DEF PageInv
<1>. QED
  BY <1>1, PageAlways, PTL

(* A page that is caught up shows every request there is as the tables     *)
(* have it and none that was deleted, whatever lists, replays, details and *)
(* broken connections came before (the listeners of connectSse in app.js). *)
THEOREM CardsAlwaysTell == PageSpec => []CardsTell
<1>1. StoryInv /\ PageInv => CardsTell
  BY PageTells
<1>. QED
  BY <1>1, PageAlways, PTL

(* Its answer counts, added up event by event, are right for a request     *)
(* with its story still in the buffer (bumpAnswerCount of app.js).         *)
THEOREM CountsAlwaysRight == PageSpec => []CountsRight
<1>1. StoryInv /\ PageInv => CountsRight
  BY PageCounts
<1>. QED
  BY <1>1, PageAlways, PTL

=============================================================================
