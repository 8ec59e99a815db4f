---------------------------- MODULE ReadersProofs ---------------------------
(***************************************************************************)
(* What the readers of the tables promise, for every set of ids and        *)
(* clients, buffer size and limit, whatever handlers, prunes and kills     *)
(* come between their reads.                                               *)
(*                                                                         *)
(* A filtered stream never tells its subscriber of the creation, answers,  *)
(* closing or deletion of somebody else's request, and tells all of her    *)
(* own; the feed, the statistics and the buffer gauge are right.           *)
(***************************************************************************)
EXTENDS Subscription, Queries, EventLogProofs

-----------------------------------------------------------------------------
(* An event in the log, or still in the running handler, says that c       *)
(* created r.                                                              *)
CreatedBy(r, c) == \/ \E i \in 1..seq : log[i] = Created(r, c)
                   \/ job # Idle /\ job.event = Created(r, c)

(* All there is about r says that c created it.                            *)
AllBy(r, c) == /\ r \in DOMAIN requests => requests[r].client = c
               /\ \A d \in Clients : CreatedBy(r, d) => d = c

(* A uuid that was drawn for a request belongs to one client for good.     *)
Births == \A r \in Requests :
            IF r \in drawn THEN \E c \in Clients : AllBy(r, c)
                           ELSE \A c \in Clients : ~CreatedBy(r, c)

LogInv == Inv /\ LogOK /\ Births

(* Only create_request says who created a request.                         *)
LEMMA CreationStep ==
  ASSUME LogInv, LogNext, NEW r \in Requests, NEW c \in Clients,
         ~CreateRequest(r, c), CreatedBy(r, c)'
  PROVE  CreatedBy(r, c)
<1>0. Created(r, c).kind = "request.created"
  BY DEF Created
<1>1. CASE \E i \in 1..seq' : log'[i] = Created(r, c)
  BY <1>1, LogStep DEF LogInv, CreatedBy
<1>2. CASE job' # Idle /\ job'.event = Created(r, c)
  <2>1. ASSUME NEW q \in Requests, NEW d \in Clients, CreateRequest(q, d),
               job'.event = Created(q, d)
        PROVE  FALSE
    <3>1. Created(q, d) = Created(r, c)
      BY <1>2, <2>1
    <3>2. q = r /\ d = c
      BY <3>1 DEF Created
    <3>. QED
      BY <2>1, <3>2
  <2>. QED
    BY <1>0, <1>2, <2>1, JobStep DEF LogInv, LogNext, CreatedBy
<1>. QED
  BY <1>1, <1>2 DEF CreatedBy

-----------------------------------------------------------------------------
(* Whose a request is, does not change.                                    *)
LEMMA OwnerStays ==
  ASSUME LogInv, LogNext, NEW r \in Requests, r \in drawn, NEW c \in Clients, AllBy(r, c)
  PROVE  r \in drawn' /\ AllBy(r, c)'
<1>1. Inv /\ Next
  BY DEF LogInv, LogNext
<1>2. \A d \in Clients : ~CreateRequest(r, d)
  BY DEF CreateRequest, InsertRequest, Draw
<1>3. \A d \in Clients : CreatedBy(r, d)' => CreatedBy(r, d)
  BY <1>2, CreationStep
<1>. QED
  BY <1>1, <1>2, <1>3, RequestsStep DEF AllBy

LEMMA BirthsStep == ASSUME LogInv, LogNext  PROVE Births'
<1>0. /\ Inv /\ Next /\ Births /\ Me \in Clients
      /\ DOMAIN requests \subseteq drawn
  BY SubscriberAssumption DEF LogInv, LogNext, Inv, Consistent, RowsOK
<1>. SUFFICES ASSUME NEW r \in Requests
              PROVE  IF r \in drawn' THEN \E c \in Clients : AllBy(r, c)'
                                    ELSE \A c \in Clients : ~CreatedBy(r, c)'
  BY DEF Births
<1>1. CASE r \in drawn
  BY <1>0, <1>1, OwnerStays DEF Births
<1>2. CASE r \notin drawn /\ \A c \in Clients : ~CreateRequest(r, c)
  <2>1. \A c \in Clients : ~CreatedBy(r, c)'
    BY <1>0, <1>2, CreationStep DEF Births
  <2>2. r \notin DOMAIN requests'
    BY <1>0, <1>2, RequestsStep
  <2>. QED
    BY <1>0, <2>1, <2>2 DEF AllBy
<1>3. ASSUME r \notin drawn, NEW c \in Clients, CreateRequest(r, c)
      PROVE  r \in drawn' /\ AllBy(r, c)'
  <2>1. /\ r \in drawn' /\ job'.event = Created(r, c)
        /\ requests'[r].client = c
    BY <1>3 DEF CreateRequest, InsertRequest, Start, Draw, Put
  <2>2. ASSUME NEW d \in Clients, CreatedBy(r, d)'  PROVE d = c
    <3>1. CASE CreateRequest(r, d)
      <4>1. Created(r, d) = Created(r, c)
        BY <2>1, <3>1 DEF CreateRequest, Start
      <4>. QED
        BY <4>1 DEF Created
    <3>2. CASE ~CreateRequest(r, d)
      BY <1>0, <1>3, <2>2, <3>2, CreationStep DEF Births
    <3>. QED
      BY <3>1, <3>2
  <2>. QED
    BY <2>1, <2>2 DEF AllBy
<1>. QED
  BY <1>1, <1>2, <1>3

LEMMA LogInvInit == LogInit => LogInv
<1>. SUFFICES ASSUME LogInit  PROVE LogInv
  OBVIOUS
<1>1. Init /\ log = << >> /\ seq = 0 /\ job = Idle /\ drawn = {}
  BY DEF LogInit, Init
<1>2. LogOK
  BY <1>1 DEF LogOK
<1>3. Births
  BY <1>1 DEF Births, CreatedBy
<1>. QED
  BY <1>1, <1>2, <1>3, InvInit DEF LogInv

LEMMA LogInvStep == ASSUME LogInv, [LogNext]_logVars  PROVE LogInv'
<1>1. CASE LogNext
  BY <1>1, InvStep, LogStep, BirthsStep DEF LogInv, LogNext
<1>2. CASE UNCHANGED logVars
  <2>1. UNCHANGED vars /\ UNCHANGED log
    BY <1>2 DEF logVars
  <2>2. LogOK' /\ Births'
    BY <2>1 DEF LogInv, LogOK, Births, AllBy, CreatedBy, vars, tables, events
  <2>. QED
    BY <2>1, <2>2, InvStep DEF LogInv
<1>. QED
  BY <1>1, <1>2

-----------------------------------------------------------------------------
(* The stream.  Matching rows concern a request that is hers for good, and *)
(* so does what the cache calls hers.                                      *)

Owned(r) == r \in Requests /\ r \in drawn /\ AllBy(r, Me)

(* The kinds the filter decides by owner.                                  *)
Filtered(i) == LooksUp(i) \/ log[i].kind = "request.created"

FilterOK ==
  /\ rows \subseteq 1..seq /\ Heard \subseteq 1..seq
  /\ \A r \in DOMAIN cache : cache[r] = Me => Owned(r)
  /\ \A i \in Heard : Filtered(i) => Owned(log[i].request)

FilterInv == LogInv /\ FilterOK

LEMMA OwnerOwned ==
  ASSUME FilterInv, NEW r, Owner(r) = Me
  PROVE  Owned(r)
<1>1. CASE r \in DOMAIN cache
  BY <1>1 DEF FilterInv, FilterOK, Owner
<1>2. CASE r \notin DOMAIN cache
  <2>1. r \in DOMAIN requests /\ requests[r].client = Me
    BY <1>2, SubscriberAssumption DEF Owner, OwnerNow
  <2>2. r \in Requests /\ r \in drawn
    BY <2>1 DEF FilterInv, LogInv, Inv, Consistent, RowsOK
  <2>3. PICK c \in Clients : AllBy(r, c)
    BY <2>2 DEF FilterInv, LogInv, Births
  <2>4. c = Me
    BY <2>1, <2>3 DEF AllBy
  <2>. QED
    BY <2>2, <2>3, <2>4 DEF Owned
<1>. QED
  BY <1>1, <1>2

LEMMA MatchOwned ==
  ASSUME FilterInv, NEW i \in 1..seq, Matches(i), Filtered(i)
  PROVE  Owned(log[i].request)
<1>1. CASE log[i].kind = "request.created"
  <2>1. log[i].client = Me
    BY <1>1 DEF Matches, LooksUp
  <2>2. log[i] \in Events
    BY DEF FilterInv, LogInv, LogOK
  <2>3. PICK r \in Requests, c \in Clients : log[i] = Created(r, c)
    BY <1>1, <2>2, CreationIs
  <2>4. c = Me /\ log[i].request = r
    BY <2>1, <2>3 DEF Created
  <2>5. CreatedBy(r, Me) /\ Me \in Clients
    BY <2>3, <2>4 DEF CreatedBy
  <2>6. r \in drawn
    BY <2>5 DEF FilterInv, LogInv, Births
  <2>7. PICK d \in Clients : AllBy(r, d)
    BY <2>6 DEF FilterInv, LogInv, Births
  <2>8. d = Me
    BY <2>5, <2>7 DEF AllBy
  <2>. QED
    BY <2>4, <2>6, <2>7, <2>8 DEF Owned
<1>2. CASE log[i].kind # "request.created"
  <2>1. LooksUp(i)
    BY <1>2 DEF Filtered
  <2>2. Owner(log[i].request) = Me
    BY <1>2, <2>1 DEF Matches
  <2>. QED
    BY <2>2, OwnerOwned
<1>. QED
  BY <1>1, <1>2

LEMMA AdvanceOK ==
  ASSUME FilterInv, NEW R, R \subseteq 1..seq, Advance(R), UNCHANGED logVars
  PROVE  FilterOK'
<1>. DEFINE hits == {i \in R : Matches(i)}
            done == IF hits = {} THEN R ELSE {i \in R : i <= Least(hits)}
            asked == {log[i].request : i \in {j \in done : LooksUp(j)}}
<1>1. /\ rows' = R \ done /\ sent' = sent \cup (hits \cap done) /\ got' = got
      /\ cache' = [r \in DOMAIN cache \cup asked |-> Owner(r)]
  BY DEF Advance
<1>2. hits \subseteq 1..seq /\ \A i \in hits : Matches(i)
  OBVIOUS
<1>. HIDE DEF hits, done, asked
<1>3. /\ \A r : Owned(r) => Owned(r)'
      /\ \A i : Filtered(i)' = Filtered(i)
      /\ log' = log /\ seq' = seq
  BY DEF Owned, AllBy, CreatedBy, Filtered, LooksUp, logVars, vars, tables, events
<1>4. rows' \subseteq 1..seq /\ Heard' \subseteq 1..seq /\ Heard' \subseteq Heard \cup hits
  BY <1>1, <1>2 DEF FilterInv, FilterOK, Heard
<1>5. \A r \in DOMAIN cache' : cache'[r] = Me => Owned(r)
  BY <1>1, OwnerOwned
<1>6. \A i \in Heard' : Filtered(i) => Owned(log[i].request)
  BY <1>2, <1>4, MatchOwned DEF FilterInv, FilterOK
<1>. QED
  BY <1>3, <1>4, <1>5, <1>6 DEF FilterOK

LEMMA CloseOK ==
  ASSUME FilterOK, Close, seq \in Nat, seq' \in Nat, seq <= seq',
         \A r : Owned(r) => Owned(r)',
         \A i \in 1..seq : log'[i] = log[i]
  PROVE  FilterOK'
<1>1. Heard' \subseteq Heard /\ Heard' \subseteq 1..seq /\ rows' = {} /\ DOMAIN cache' = {}
  BY DEF Close, Heard, FilterOK
<1>2. \A i \in 1..seq : Filtered(i)' => Filtered(i)
  BY DEF Filtered, LooksUp
<1>. QED
  BY <1>1, <1>2 DEF FilterOK

LEMMA FilterStep == ASSUME FilterInv, [SubNext]_subVars  PROVE FilterInv'
<1>. USE DEF stream
<1>1. LogInv'
  <2>1. [LogNext]_logVars
    BY DEF SubNext, ServerStep, Connect, Poll, Resume, Break, subVars
  <2>. QED
    BY <2>1, LogInvStep DEF FilterInv
<1>2. seq \in Nat /\ table \subseteq 1..seq
  BY LimitAssumption DEF FilterInv, LogInv, Inv, ControlOK
<1>3. ASSUME UNCHANGED logVars
      PROVE  /\ seq' = seq /\ log' = log /\ \A r : Owned(r) => Owned(r)'
             /\ \A i : Filtered(i)' = Filtered(i)
  BY <1>3 DEF Owned, AllBy, CreatedBy, Filtered, LooksUp, logVars, vars, tables, events
<1>4. CASE ServerStep
  <2>1. /\ LogNext /\ LogInv
        /\ UNCHANGED stream \/ Close
    BY <1>4 DEF ServerStep, FilterInv
  <2>2. /\ seq <= seq' /\ seq' \in Nat
        /\ \A i \in 1..seq : log'[i] = log[i]
    BY <2>1, LogStep DEF LogInv
  <2>3. \A r : Owned(r) => Owned(r)'
    BY <2>1, OwnerStays, SubscriberAssumption DEF Owned
  <2>4. \A i \in 1..seq : Filtered(i)' => Filtered(i)
    BY <2>2 DEF Filtered, LooksUp
  <2>5. CASE UNCHANGED stream
    <3>1. rows' = rows /\ Heard' = Heard /\ cache' = cache
      BY <2>5 DEF Heard
    <3>2. 1..seq \subseteq 1..seq'
      BY <1>2, <2>2
    <3>. QED
      BY <1>1, <2>2, <2>3, <2>4, <3>1, <3>2 DEF FilterInv, FilterOK
  <2>6. CASE Close
    BY <1>1, <1>2, <2>2, <2>3, <2>6, CloseOK DEF FilterInv
  <2>. QED
    BY <2>1, <2>5, <2>6
<1>5. CASE Poll
  <2>1. Unread \subseteq table
    BY DEF Unread, RowsAfter
  <2>. QED
    BY <1>1, <1>2, <1>5, <2>1, AdvanceOK DEF Poll, FilterInv
<1>6. CASE Resume
  BY <1>1, <1>6, AdvanceOK DEF Resume, FilterInv, FilterOK
<1>7. CASE Break
  <2>1. UNCHANGED logVars /\ Close
    BY <1>7 DEF Break
  <2>. QED
    BY <1>1, <1>2, <1>3, <2>1, CloseOK DEF FilterInv
<1>8. CASE Connect \/ UNCHANGED subVars
  <2>1. UNCHANGED logVars /\ rows' = rows /\ Heard' = Heard /\ cache' = cache
    BY <1>8 DEF Connect, subVars, Heard
  <2>. QED
    BY <1>1, <1>3, <2>1 DEF FilterInv, FilterOK
<1>. QED
  BY <1>4, <1>5, <1>6, <1>7, <1>8 DEF SubNext

LEMMA FilterInit == SubInit => FilterInv
<1>. SUFFICES ASSUME SubInit  PROVE FilterInv
  OBVIOUS
<1>1. LogInv
  BY LogInvInit DEF SubInit
<1>2. FilterOK
  BY DEF SubInit, FilterOK, Heard
<1>. QED
  BY <1>1, <1>2 DEF FilterInv

LEMMA OwnedOnly == FilterInv => HearsOnlyOwn
<1>. SUFFICES ASSUME FilterInv, NEW i \in Heard, Filtered(i), Others(log[i].request)
              PROVE  FALSE
  BY DEF HearsOnlyOwn, Filtered
<1>. DEFINE r == log[i].request
<1>1. Owned(r)
  BY DEF FilterInv, FilterOK
<1>. HIDE DEF r
<1>2. Others(r)
  BY DEF r
<1>3. CASE r \in DOMAIN requests /\ requests[r].client # Me
  BY <1>1, <1>3 DEF Owned, AllBy
<1>4. ASSUME NEW j \in About(r), NEW c \in Clients \ {Me}, log[j] = Created(r, c)
      PROVE  FALSE
  BY <1>1, <1>4 DEF About, Owned, AllBy, CreatedBy
<1>. QED
  BY <1>2, <1>3, <1>4 DEF Others

(* Whatever vanishes and whatever the owner cache holds, a filtered stream *)
(* tells its subscriber of no creation, answer, closing or deletion of     *)
(* somebody else's request (sse.py:33-51, CHANGELOG.md:22).                *)
THEOREM HearsOnlyOwnAlways == SubSpec => []HearsOnlyOwn
BY FilterInit, FilterStep, OwnedOnly, PTL DEF SubSpec

-----------------------------------------------------------------------------
(* An asker hears all that is hers.  First, what the generator's loop does *)
(* up to its next suspension, without the sets it is defined by.           *)

LEMMA AdvanceReads ==
  ASSUME NEW R, seq \in Nat, R \subseteq 1..seq, R # {}, Advance(R)
  PROVE  /\ last' \in R
         /\ rows' = {i \in R : i > last'}
         /\ sent' = sent \cup {i \in R : i <= last' /\ Matches(i)}
         /\ \A i \in R : i <= last' /\ Matches(i) => i = last'
         /\ \A r \in DOMAIN cache : r \in DOMAIN cache' /\ cache'[r] = Owner(r)
         /\ \A r \in DOMAIN cache' :
              /\ cache'[r] = Owner(r)
              /\ r \in DOMAIN cache \/ \E i \in R : r = log[i].request
         /\ \A i \in R : i <= last' /\ LooksUp(i) => log[i].request \in DOMAIN cache'
         /\ UNCHANGED <<open, got>>
<1>. DEFINE hits == {i \in R : Matches(i)}
            done == IF hits = {} THEN R ELSE {i \in R : i <= Least(hits)}
            asked == {log[i].request : i \in {j \in done : LooksUp(j)}}
<1>1. /\ last' = Greatest(done) /\ rows' = R \ done /\ sent' = sent \cup (hits \cap done)
      /\ cache' = [r \in DOMAIN cache \cup asked |-> Owner(r)]
      /\ UNCHANGED <<open, got>>
  BY DEF Advance
<1>2. hits # {} => Least(hits) \in hits /\ \A i \in hits : Least(hits) <= i
  BY LeastExists
<1>3. done \subseteq R /\ done # {} /\ done \in SUBSET (0..seq)
  <2>1. done \subseteq R /\ R \subseteq 0..seq
    OBVIOUS
  <2>2. CASE hits # {}
    <3>1. PICK h \in hits : h = Least(hits)
      BY <1>2, <2>2
    <3>2. h \in R /\ h <= h
      OBVIOUS
    <3>3. h \in done
      BY <3>1, <3>2
    <3>. QED
      BY <2>1, <3>3
  <2>. QED
    BY <2>1, <2>2
<1>4. last' \in done /\ \A i \in done : i <= last'
  BY <1>1, <1>3, GreatestExists
<1>5. done = {i \in R : i <= last'}
  <2>1. CASE hits = {}
    BY <1>3, <1>4, <2>1
  <2>2. CASE hits # {}
    <3>1. PICK h \in hits : h = Least(hits) /\ \A i \in hits : h <= i
      BY <1>2, <2>2
    <3>2. done = {i \in R : i <= h}
      BY <2>2, <3>1
    <3>3. h \in done
      BY <3>1, <3>2
    <3>4. last' = h
      BY <1>4, <3>1, <3>2, <3>3
    <3>. QED
      BY <3>2, <3>4
  <2>. QED
    BY <2>1, <2>2
<1>6. ASSUME NEW i \in R, i <= last', Matches(i)  PROVE i = last'
  <2>1. PICK h \in hits : h = Least(hits) /\ \A k \in hits : h <= k
    BY <1>2, <1>6
  <2>2. done = {k \in R : k <= h}
    BY <1>6, <2>1
  <2>3. last' <= h /\ h <= i
    BY <1>4, <1>6, <2>1, <2>2
  <2>. QED
    BY <1>3, <1>4, <1>6, <2>1, <2>3
<1>. HIDE DEF done, asked
<1>7. /\ \A r \in DOMAIN cache : r \in DOMAIN cache' /\ cache'[r] = Owner(r)
      /\ \A r \in DOMAIN cache' : cache'[r] = Owner(r) /\ (r \in DOMAIN cache \/ r \in asked)
      /\ \A r \in asked : r \in DOMAIN cache'
  BY <1>1
<1>8. /\ \A r \in asked : \E i \in R : r = log[i].request
      /\ \A i \in R : i <= last' /\ LooksUp(i) => log[i].request \in asked
  BY <1>5 DEF asked
<1>9. rows' = {i \in R : i > last'}
  <2>1. PICK d \in Int : d = last'
    BY <1>3, <1>4
  <2>2. \A i \in R : ~(i <= d) <=> i > d
    OBVIOUS
  <2>. QED
    BY <1>1, <1>5, <2>1, <2>2
<1>. QED
  BY <1>1, <1>3, <1>4, <1>5, <1>6, <1>7, <1>8, <1>9

-----------------------------------------------------------------------------
(* What she is due: the events of her requests that exist, and the         *)
(* creations of all.  What is due now was due when it was read, and then   *)
(* the filter let it pass.                                                 *)

Due(i) == Mine(log[i].request) \/ log[i] = Created(log[i].request, Me)

CacheOK == \A r \in DOMAIN cache :
             /\ r \in drawn
             /\ cache[r] \in Clients \cup {None}
             /\ Mine(r) => cache[r] = Me

TalkInv == LogInv /\ AllDrawn /\ Final

LEMMA TalkStep == ASSUME TalkInv, [LogNext]_logVars  PROVE TalkInv'
<1>1. LogInv'
  BY LogInvStep DEF TalkInv
<1>2. CASE LogNext
  BY <1>1, <1>2, FinalStep DEF TalkInv, LogInv
<1>3. CASE UNCHANGED logVars
  BY <1>1, <1>3 DEF TalkInv, AllDrawn, Final, Last, logVars, vars, tables, events
<1>. QED
  BY <1>2, <1>3

LEMMA MineStays ==
  ASSUME TalkInv, LogNext, NEW r \in drawn, Mine(r)'
  PROVE  Mine(r)
<1>1. \A c : ~CreateRequest(r, c)
  BY DEF CreateRequest, InsertRequest, Draw
<1>2. Inv /\ Next
  BY DEF TalkInv, LogInv, LogNext
<1>. QED
  BY <1>1, <1>2, RequestsStep DEF Mine

LEMMA DueStays ==
  ASSUME TalkInv, LogNext, NEW i \in 1..seq, Due(i)'
  PROVE  Due(i)
<1>1. log'[i] = log[i] /\ log[i].request \in drawn
  BY LogStep DEF TalkInv, LogInv, AllDrawn
<1>2. CASE Mine(log[i].request)'
  <2>1. PICK r \in drawn : r = log[i].request
    BY <1>1
  <2>2. Mine(r)'
    BY <1>1, <1>2, <2>1 DEF Mine
  <2>. QED
    BY <2>1, <2>2, MineStays DEF Due
<1>3. CASE log'[i] = Created(log'[i].request, Me)
  BY <1>1, <1>3 DEF Due
<1>. QED
  BY <1>2, <1>3 DEF Due

LEMMA OwnerMine ==
  ASSUME CacheOK, NEW r, Mine(r)
  PROVE  Owner(r) = Me
BY DEF CacheOK, Owner, OwnerNow, Mine

LEMMA DueMatches ==
  ASSUME TalkInv, CacheOK, NEW i \in 1..seq, Due(i)
  PROVE  Matches(i)
<1>1. CASE log[i].kind = "request.created"
  <2>1. log[i] \in Events
    BY DEF TalkInv, LogInv, LogOK
  <2>2. PICK r \in Requests, c \in Clients : log[i] = Created(r, c)
    BY <1>1, <2>1, CreationIs
  <2>3. log[i].request = r /\ log[i].client = c
    BY <2>2 DEF Created
  <2>4. c = Me
    <3>1. CASE log[i] = Created(r, Me)
      BY <2>3, <3>1 DEF Created
    <3>2. CASE Mine(r)
      <4>1. r \in drawn /\ CreatedBy(r, c)
        BY <2>2, <2>3 DEF TalkInv, AllDrawn, CreatedBy
      <4>2. PICK d \in Clients : AllBy(r, d)
        BY <4>1 DEF TalkInv, LogInv, Births
      <4>. QED
        BY <3>2, <4>1, <4>2 DEF AllBy, Mine
    <3>. QED
      BY <2>3, <3>1, <3>2 DEF Due
  <2>. QED
    BY <1>1, <2>3, <2>4 DEF Matches, LooksUp
<1>2. CASE log[i].kind # "request.created"
  <2>1. Mine(log[i].request)
    BY <1>2 DEF Due, Created
  <2>. QED
    BY <1>2, <2>1, OwnerMine DEF Matches
<1>. QED
  BY <1>1, <1>2

-----------------------------------------------------------------------------
(* The stream's books.  Received before sent before to be reached; a row   *)
(* between two fetched rows is fetched; everything due behind last_id, and *)
(* behind a received frame, was delivered; and whom the connection has     *)
(* told of an answer or a closing, the cache knows.                        *)

Shape ==
  /\ got \cup sent \cup rows \subseteq 1..seq /\ last \in 0..seq
  /\ \A i \in rows : last < i
  /\ \A i \in sent : i <= last
  /\ open => \A i \in got : i <= last
  /\ \A i \in got, j \in sent : i < j
  /\ ~open => last = 0 /\ rows = {} /\ sent = {} /\ DOMAIN cache = {}

Dense == \A i \in table, j \in rows : last < i /\ i <= j => i \in rows

Delivered == \A i \in table : i <= last /\ Due(i) => i \in Heard

Received == \A i \in table, j \in got : i <= j /\ Due(i) => i \in got

Recalled == \A j \in sent :
  LooksUp(j) => log[j].request \in DOMAIN cache /\ cache[log[j].request] = Me

LastTold == \A i \in table, j \in sent :
  /\ j < i /\ i <= last
  /\ log[i].kind = "request.deleted"
  /\ LooksUp(j) /\ log[j].request = log[i].request
  => i \in sent

Books == /\ Shape /\ CacheOK /\ Dense /\ Delivered
         /\ Received /\ Recalled /\ LastTold

ReadInv == TalkInv /\ Books

LEMMA BooksAdvance ==
  ASSUME ReadInv, NEW R, R \subseteq 1..seq, R # {}, open, Advance(R), UNCHANGED logVars,
         \A i \in R : last < i,
         \A i \in table, j \in R : last < i /\ i <= j => i \in R
  PROVE  Books'
<1>0. seq \in Nat /\ table \subseteq 1..seq /\ Shape /\ CacheOK
  BY LimitAssumption DEF ReadInv, Books, TalkInv, LogInv, Inv, ControlOK
<1>1. /\ seq' = seq /\ table' = table /\ drawn' = drawn /\ log' = log
      /\ \A i : Due(i)' = Due(i)
      /\ \A i : LooksUp(i)' = LooksUp(i)
      /\ \A r : Mine(r)' = Mine(r)
  BY DEF Due, Mine, LooksUp, logVars, vars, tables, events
<1>2. PICK d \in R : d = last'
  BY <1>0, AdvanceReads
<1>3. /\ rows' = {i \in R : i > d}
      /\ sent' = sent \cup {i \in R : i <= d /\ Matches(i)}
      /\ \A i \in R : i <= d /\ Matches(i) => i = d
      /\ UNCHANGED <<open, got>>
  BY <1>0, <1>2, AdvanceReads
<1>4. /\ \A r \in DOMAIN cache : r \in DOMAIN cache' /\ cache'[r] = Owner(r)
      /\ \A r \in DOMAIN cache' :
           /\ cache'[r] = Owner(r)
           /\ r \in DOMAIN cache \/ \E i \in R : r = log[i].request
      /\ \A i \in R : i <= d /\ LooksUp(i) => log[i].request \in DOMAIN cache'
  BY <1>0, <1>2, AdvanceReads
<1>5. d \in 1..seq /\ last < d /\ last \in Int /\ R \subseteq Int
  BY <1>0, <1>2 DEF Shape
<1>6. Shape'
  <2>1. got' \cup sent' \cup rows' \subseteq 1..seq' /\ last' \in 0..seq'
    <3>1. last' \in 0..seq'
      BY <1>1, <1>2, <1>5
    <3>2. got' \cup sent' \cup rows' \subseteq got \cup sent \cup R
      BY <1>3
    <3>3. got \cup sent \cup R \subseteq 1..seq'
      BY <1>0, <1>1 DEF Shape
    <3>. QED
      BY <3>1, <3>2, <3>3
  <2>2. \A i \in rows' : last' < i
    BY <1>2, <1>3, <1>5
  <2>3. \A i \in sent' : i <= last'
    BY <1>0, <1>2, <1>3, <1>5 DEF Shape
  <2>4. \A i \in got' : i <= last'
    BY <1>0, <1>2, <1>3, <1>5 DEF Shape
  <2>5. ASSUME NEW i \in got', NEW j \in sent'  PROVE i < j
    <3>1. i \in got /\ i <= last /\ i \in Int
      BY <1>0, <1>3, <2>5 DEF Shape
    <3>2. CASE j \in sent
      BY <1>0, <3>1, <3>2 DEF Shape
    <3>3. CASE j \in R
      <4>1. last < j /\ j \in Int
        BY <1>5, <3>3
      <4>. QED
        BY <1>5, <3>1, <4>1
    <3>. QED
      BY <1>3, <2>5, <3>2, <3>3
  <2>. QED
    BY <1>3, <2>1, <2>2, <2>3, <2>4, <2>5 DEF Shape
<1>7. CacheOK'
  <2>. SUFFICES ASSUME NEW r \in DOMAIN cache'
                PROVE  /\ r \in drawn
                       /\ cache'[r] \in Clients \cup {None}
                       /\ Mine(r) => cache'[r] = Me
    BY <1>1 DEF CacheOK
  <2>1. r \in drawn
    BY <1>0, <1>4 DEF CacheOK, ReadInv, TalkInv, AllDrawn
  <2>2. Owner(r) \in Clients \cup {None}
    BY <1>0 DEF CacheOK, Owner, OwnerNow, ReadInv, TalkInv, LogInv, Inv, Consistent, RowsOK,
       RequestRow
  <2>3. Mine(r) => Owner(r) = Me
    BY <1>0, OwnerMine
  <2>. QED
    BY <1>4, <2>1, <2>2, <2>3
<1>8. Dense'
  BY <1>0, <1>1, <1>2, <1>3, <1>5 DEF Dense
<1>9. ASSUME NEW i \in table, i <= d, i > last  PROVE i \in R
  BY <1>0, <1>2, <1>9
<1>10. Delivered'
  <2>. SUFFICES ASSUME NEW i \in table, i <= d, Due(i)  PROVE i \in Heard'
    BY <1>1, <1>2 DEF Delivered
  <2>1. CASE i <= last
    BY <1>3, <2>1 DEF ReadInv, Books, Delivered, Heard
  <2>2. CASE i > last
    <3>1. i \in R /\ i \in 1..seq
      BY <1>0, <1>9, <2>2
    <3>2. Matches(i)
      BY <1>0, <3>1, DueMatches DEF ReadInv
    <3>. QED
      BY <1>3, <3>1, <3>2 DEF Heard
  <2>3. i \in Int
    BY <1>0
  <2>. QED
    BY <1>5, <2>1, <2>2, <2>3
<1>11. Received'
  BY <1>1, <1>3 DEF ReadInv, Books, Received
<1>12. Recalled'
  <2>. SUFFICES ASSUME NEW j \in sent', LooksUp(j)
                PROVE  log[j].request \in DOMAIN cache' /\ cache'[log[j].request] = Me
    BY <1>1 DEF Recalled
  <2>1. CASE j \in sent
    <3>1. log[j].request \in DOMAIN cache /\ cache[log[j].request] = Me
      BY <2>1 DEF ReadInv, Books, Recalled
    <3>. QED
      BY <1>4, <3>1 DEF Owner
  <2>2. CASE j \in R /\ j <= d /\ Matches(j)
    <3>1. Owner(log[j].request) = Me
      BY <2>2 DEF Matches, LooksUp
    <3>. QED
      BY <1>4, <2>2, <3>1
  <2>. QED
    BY <1>3, <2>1, <2>2
<1>13. LastTold'
  <2>. SUFFICES ASSUME NEW i \in table, NEW j \in sent', j < i, i <= d,
                       log[i].kind = "request.deleted", LooksUp(j),
                       log[j].request = log[i].request
                PROVE  i \in sent'
    BY <1>1, <1>2 DEF LastTold
  <2>0. i \in Int
    BY <1>0
  <2>1. CASE j \in R
    <3>1. j = d
      BY <1>0, <1>3, <1>5, <2>1 DEF Shape
    <3>. QED
      BY <1>5, <2>0, <3>1
  <2>2. CASE j \in sent /\ i <= last
    BY <1>3, <2>2 DEF ReadInv, Books, LastTold
  <2>3. CASE j \in sent /\ i > last
    <3>1. i \in R
      BY <1>9, <2>3
    <3>2. log[i].request \in DOMAIN cache /\ cache[log[i].request] = Me
      BY <2>3 DEF ReadInv, Books, Recalled
    <3>3. Matches(i)
      BY <3>2 DEF Matches, LooksUp, Owner
    <3>. QED
      BY <1>3, <3>1, <3>3
  <2>. QED
    BY <1>3, <1>5, <2>0, <2>1, <2>2, <2>3
<1>. QED
  BY <1>6, <1>7, <1>8, <1>10, <1>11, <1>12, <1>13 DEF Books

(* The server moves on under a stream.                                     *)
LEMMA BooksWait ==
  ASSUME ReadInv, LogNext, UNCHANGED stream
  PROVE  Books'
<1>0. /\ Inv /\ Next /\ seq \in Nat /\ Shape /\ CacheOK
      /\ drawn \subseteq drawn'
  BY LimitAssumption, RequestsStep
     DEF ReadInv, Books, TalkInv, LogInv, LogNext, Inv, ControlOK
<1>1. /\ seq <= seq' /\ seq' \in Nat
      /\ \A i \in 1..seq : log'[i] = log[i]
      /\ \A i \in 1..seq : Due(i)' => Due(i)
      /\ \A i \in 1..seq : LooksUp(i)' = LooksUp(i)
      /\ \A i \in table' : i \in table \/ i > seq
  BY <1>0, LogStep, DueStays, TableStep DEF ReadInv, TalkInv, LogInv, LooksUp
<1>2. table \subseteq 1..seq /\ table' \subseteq 1..seq'
  BY <1>0, InvStep DEF Inv, ControlOK
<1>3. UNCHANGED <<open, last, rows, cache, sent, got>> /\ Heard' = Heard
  BY DEF stream, Heard
<1>4. Shape'
  <2>1. 1..seq \subseteq 1..seq' /\ 0..seq \subseteq 0..seq'
    BY <1>0, <1>1
  <2>. QED
    BY <1>0, <1>3, <2>1 DEF Shape
<1>5. CacheOK'
  <2>. SUFFICES ASSUME NEW r \in DOMAIN cache
                PROVE  r \in drawn' /\ cache[r] \in Clients \cup {None}
                       /\ (Mine(r)' => cache[r] = Me)
    BY <1>3 DEF CacheOK
  <2>1. r \in drawn
    BY <1>0 DEF CacheOK
  <2>2. Mine(r)' => Mine(r)
    BY <2>1, MineStays DEF ReadInv
  <2>. QED
    BY <1>0, <2>1, <2>2 DEF CacheOK
(* A row that is new lies behind no row, frame or position of the stream.  *)
<1>6. ASSUME NEW i \in table', NEW j \in 0..seq, i <= j  PROVE i \in table /\ i \in 1..seq
  BY <1>0, <1>1, <1>2, <1>6
<1>7. got \subseteq 0..seq /\ sent \subseteq 0..seq /\ rows \subseteq 0..seq /\ last \in 0..seq
  BY <1>0 DEF Shape
<1>8. Dense'
  BY <1>3, <1>6, <1>7 DEF ReadInv, Books, Dense
<1>9. Delivered'
  BY <1>1, <1>3, <1>6, <1>7 DEF ReadInv, Books, Delivered
<1>10. Received'
  BY <1>1, <1>3, <1>6, <1>7 DEF ReadInv, Books, Received
<1>11. sent \subseteq 1..seq
  BY <1>0 DEF Shape
<1>12. Recalled'
  BY <1>1, <1>3, <1>11 DEF ReadInv, Books, Recalled
<1>13. LastTold'
  BY <1>1, <1>3, <1>6, <1>7, <1>11 DEF ReadInv, Books, LastTold
<1>. QED
  BY <1>4, <1>5, <1>8, <1>9, <1>10, <1>12, <1>13 DEF Books

(* The stream ends, by a break or with the server.                         *)
LEMMA BooksClose ==
  ASSUME ReadInv, [LogNext]_logVars, Close
  PROVE  Books'
<1>0. seq \in Nat /\ Inv /\ [Next]_vars /\ Shape
  BY LimitAssumption
     DEF ReadInv, Books, TalkInv, LogInv, LogNext, logVars, Inv, ControlOK
<1>1. /\ seq <= seq' /\ seq' \in Nat
      /\ \A i \in 1..seq : Due(i)' => Due(i)
  <2>1. CASE LogNext
    BY <2>1, LogStep, DueStays DEF ReadInv, TalkInv, LogInv
  <2>2. CASE UNCHANGED logVars
    BY <1>0, <2>2 DEF Due, Mine, logVars, vars, tables, events
  <2>. QED
    BY <2>1, <2>2
<1>2. /\ open' = FALSE /\ rows' = {} /\ cache' = << >> /\ last' = 0 /\ sent' = {}
  BY DEF Close
<1>3. PICK k \in {0} \cup sent : got' = got \cup {i \in sent : i <= k}
  BY DEF Close
<1>4. got' \subseteq 1..seq /\ 1..seq \subseteq 1..seq' /\ k \in 0..seq
  BY <1>0, <1>1, <1>3 DEF Shape
<1>5. Shape'
  BY <1>1, <1>2, <1>4 DEF Shape
<1>6. table' \subseteq 1..seq' /\ \A i \in table' : i \in table \/ i > seq
  BY <1>0, InvStep, TableStep DEF Inv, ControlOK
<1>7. Received'
  <2>. SUFFICES ASSUME NEW i \in table', NEW j \in got', i <= j, Due(i)'
                PROVE  i \in got'
    BY DEF Received
  <2>1. i \in table /\ i \in 1..seq /\ Due(i)
    <3>1. i \in Int /\ j \in Int /\ 1 <= i /\ j <= seq
      BY <1>0, <1>1, <1>4, <1>6
    <3>2. i <= seq
      BY <1>0, <3>1
    <3>3. i \in 1..seq
      BY <1>0, <3>1, <3>2
    <3>4. i \in table
      BY <1>0, <1>6, <3>1, <3>2
    <3>. QED
      BY <1>1, <3>3, <3>4
  <2>2. CASE j \in got
    BY <1>3, <2>1, <2>2 DEF ReadInv, Books, Received
  <2>3. CASE j \in sent /\ j <= k
    <3>1. j \in 1..seq /\ j <= last /\ last \in Int
      BY <1>0, <2>3 DEF Shape
    <3>2. i <= last /\ i <= k
      BY <1>4, <2>1, <2>3, <3>1
    <3>3. i \in got \cup sent
      BY <2>1, <3>2 DEF ReadInv, Books, Delivered, Heard
    <3>. QED
      BY <1>3, <3>2, <3>3
  <2>. QED
    BY <1>3, <2>2, <2>3
<1>8. Delivered'
  <2>1. \A i \in table' : ~(i <= 0)
    BY <1>6
  <2>. QED
    BY <1>2, <2>1 DEF Delivered
<1>. QED
  BY <1>2, <1>5, <1>7, <1>8 DEF Books, CacheOK, Dense, Recalled, LastTold

LEMMA BooksConnect ==
  ASSUME ReadInv, Connect
  PROVE  Books'
<1>. DEFINE G == {0} \cup got
<1>0. /\ seq \in Nat /\ Shape /\ ~open /\ table \subseteq 1..seq
      /\ rows = {} /\ sent = {} /\ DOMAIN cache = {}
  BY LimitAssumption DEF ReadInv, Books, TalkInv, LogInv, Inv, ControlOK, Connect, Shape
<1>1. /\ UNCHANGED <<logVars, rows, cache, sent, got>> /\ last' = Greatest(G)
      /\ UNCHANGED <<seq, table, log, drawn>>
  BY DEF Connect, logVars, vars, tables, events
<1>2. G \in SUBSET (0..seq) /\ G # {}
  BY <1>0 DEF Shape
<1>3. last' \in G /\ \A i \in G : i <= last'
  BY <1>0, <1>1, <1>2, GreatestExists
<1>4. Shape'
  BY <1>0, <1>1, <1>2, <1>3 DEF Shape, Connect
<1>5. /\ \A i : Due(i)' = Due(i)
      /\ \A i : LooksUp(i)' = LooksUp(i)
  BY <1>1 DEF Due, Mine, LooksUp, logVars, vars, tables
<1>6. Received'
  BY <1>1, <1>5 DEF ReadInv, Books, Received
<1>7. Delivered'
  <2>. SUFFICES ASSUME NEW i \in table, i <= last', Due(i)
                PROVE  i \in got
    BY <1>1, <1>5 DEF Delivered, Heard
  <2>1. last' # 0
    BY <1>0
  <2>2. last' \in got
    BY <1>3, <2>1
  <2>. QED
    BY <2>2 DEF ReadInv, Books, Received
<1>. QED
  BY <1>0, <1>1, <1>4, <1>6, <1>7 DEF Books, CacheOK, Dense, Recalled, LastTold

LEMMA ReadStep == ASSUME ReadInv, [SubNext]_subVars  PROVE ReadInv'
<1>1. [LogNext]_logVars
  BY DEF SubNext, ServerStep, Connect, Poll, Resume, Break, subVars
<1>2. TalkInv'
  BY <1>1, TalkStep DEF ReadInv
<1>3. seq \in Nat /\ table \subseteq 1..seq /\ Shape /\ Dense
  BY LimitAssumption DEF ReadInv, Books, TalkInv, LogInv, Inv, ControlOK
<1>4. CASE ServerStep
  <2>1. LogNext /\ (UNCHANGED stream \/ Close)
    BY <1>4 DEF ServerStep
  <2>. QED
    BY <1>1, <1>2, <2>1, BooksWait, BooksClose DEF ReadInv
<1>5. CASE Poll
  <2>1. /\ Unread \subseteq table
        /\ \A i \in Unread : last < i
        /\ \A i \in table, j \in Unread : last < i /\ i <= j => i \in Unread
    <3>1. last \in Nat
      BY <1>3 DEF Shape
    <3>. QED
      BY <1>3, <3>1, BatchReads, BatchAssumption DEF Unread
  <2>2. Unread \subseteq 1..seq /\ Unread # {} /\ open /\ Advance(Unread) /\ UNCHANGED logVars
    BY <1>3, <1>5, <2>1 DEF Poll
  <2>. QED
    BY <1>2, <2>1, <2>2, BooksAdvance DEF ReadInv
<1>6. CASE Resume
  <2>1. rows \subseteq 1..seq /\ rows # {} /\ open /\ Advance(rows) /\ UNCHANGED logVars
    BY <1>3, <1>6 DEF Resume, Shape
  <2>2. /\ \A i \in rows : last < i
        /\ \A i \in table, j \in rows : last < i /\ i <= j => i \in rows
    BY <1>3 DEF Shape, Dense
  <2>. QED
    BY <1>2, <2>1, <2>2, BooksAdvance DEF ReadInv
<1>7. CASE Break
  BY <1>1, <1>2, <1>7, BooksClose DEF Break, ReadInv
<1>8. CASE Connect
  BY <1>2, <1>8, BooksConnect DEF ReadInv
<1>9. CASE UNCHANGED subVars
  BY <1>2, <1>9 DEF ReadInv, Books, Shape, CacheOK, Dense, Delivered, Received, Recalled,
     LastTold, Due, Mine, LooksUp, Heard, subVars, stream, logVars, vars, tables, events
<1>. QED
  BY <1>4, <1>5, <1>6, <1>7, <1>8, <1>9 DEF SubNext

LEMMA ReadAlways == SubSpec => []ReadInv
<1>1. SubInit => ReadInv
  <2>. SUFFICES ASSUME SubInit  PROVE ReadInv
    OBVIOUS
  <2>1. /\ seq = 0 /\ job = Idle /\ table = {} /\ open = FALSE /\ last = 0 /\ rows = {}
        /\ cache = << >> /\ sent = {} /\ got = {}
    BY DEF SubInit, LogInit, Init
  <2>2. AllDrawn /\ Final
    BY <2>1 DEF AllDrawn, Final, Idle
  <2>3. Books
    BY <2>1 DEF Books, Shape, CacheOK, Dense, Delivered, Received, Recalled, LastTold
  <2>. QED
    BY <2>2, <2>3, LogInvInit DEF ReadInv, TalkInv, SubInit
<1>. QED
  BY <1>1, ReadStep, PTL DEF SubSpec

(* The stream's state keeps its shape: what was received was sent before   *)
(* what is under way, and that before what is still to be reached.         *)
THEOREM StreamShapeCorrect == SubSpec => []StreamOK
<1>1. ReadInv => StreamOK
  BY DEF ReadInv, TalkInv, LogInv, LogOK, Books, Shape, CacheOK, StreamOK
<1>. QED
  BY <1>1, ReadAlways, PTL

(* An asker whose stream has nothing left to read has heard every event in *)
(* the buffer about her requests that exist, and the creation of those     *)
(* that do not (sse.py:33-51).                                             *)
THEOREM HearsAllHerOwn == SubSpec => []HearsOwn
<1>1. ReadInv => HearsOwn
  <2>. SUFFICES ASSUME ReadInv, Unread = {}, NEW i \in table, Due(i)
                PROVE  i \in Heard
    BY DEF HearsOwn, Due
  <2>1. seq \in Nat /\ table \subseteq 1..seq /\ last \in Nat
    BY LimitAssumption DEF ReadInv, Books, Shape, TalkInv, LogInv, Inv, ControlOK
  <2>2. i <= last
    BY <2>1, BatchReads, BatchAssumption DEF Unread
  <2>. QED
    BY <2>2 DEF ReadInv, Books, Delivered
<1>. QED
  BY <1>1, ReadAlways, PTL

(* A connection that has told her of an answer to a request, or of its     *)
(* closing, also tells her of its deletion (sse.py:25-29).                 *)
THEOREM HearsOfDeletion == SubSpec => []HearsDeletion
<1>1. ReadInv => HearsDeletion
  <2>. SUFFICES ASSUME ReadInv, NEW i \in table, log[i].kind = "request.deleted", i <= last,
                       NEW j \in sent \cap About(log[i].request),
                       log[j].kind \in {"answer.created", "request.closed"}
                PROVE  i \in sent
    BY DEF HearsDeletion
  <2>1. /\ i \in 1..seq /\ j \in 1..seq /\ log[j].request = log[i].request
    BY DEF About, ReadInv, TalkInv, LogInv, Inv, ControlOK
  <2>2. j <= i /\ j # i
    BY <2>1 DEF ReadInv, TalkInv, Final
  <2>3. j < i /\ LooksUp(j)
    BY <2>1, <2>2 DEF LooksUp
  <2>. QED
    BY <2>1, <2>3 DEF ReadInv, Books, LastTold
<1>. QED
  BY <1>1, ReadAlways, PTL

-----------------------------------------------------------------------------
(* The read endpoints.  The buffer is a run of the youngest events, at     *)
(* least the last EventBuffer of them, and one more for each event that    *)
(* was cut off from its trim since the last one.                           *)

BufferIs(lo) ==
  /\ table = lo..seq
  /\ lo = 1 \/ lo <= seq - EventBuffer + 1
  /\ seq - lo <= EventBuffer + untrimmed
  /\ job.at # "trim" => seq - lo < EventBuffer + untrimmed

Buffer == \E lo \in 1..(seq + 1) : BufferIs(lo)

LEMMA BufferAppended ==
  ASSUME Inv, Buffer, AppendEvent
  PROVE  Buffer'
<1>1. PICK lo \in 1..(seq + 1) : BufferIs(lo)
  BY DEF Buffer
<1>2. /\ seq \in Nat /\ untrimmed \in Nat /\ untrimmed' = untrimmed /\ EventBuffer \in Nat
      /\ lo \in Nat /\ 1 <= lo /\ lo <= seq + 1
  BY LimitAssumption, BufferAssumption DEF Inv, ControlOK, AppendEvent, ghosts
<1>3. job.at = "append" /\ job # Idle
  BY DEF AppendEvent, Idle
<1>4. PICK at \in {"append", "trim", "prune"}, e \in Events : job = [at |-> at, event |-> e]
  BY <1>3 DEF Inv, ControlOK, JobOK
<1>5. seq' = seq + 1 /\ table' = table \cup {seq + 1} /\ job'.at = "trim"
  BY <1>4 DEF AppendEvent
<1>6. table' = lo..seq'
  BY <1>1, <1>2, <1>5 DEF BufferIs
<1>7. seq' - lo <= EventBuffer + untrimmed
  BY <1>1, <1>2, <1>3, <1>5 DEF BufferIs
<1>8. BufferIs(lo)'
  BY <1>1, <1>2, <1>5, <1>6, <1>7 DEF BufferIs
<1>9. lo \in 1..(seq' + 1)
  BY <1>2, <1>5
<1>. QED
  BY <1>8, <1>9 DEF Buffer

LEMMA BufferTrimmed ==
  ASSUME Inv, Buffer, TrimEvents
  PROVE  Buffer'
<1>1. PICK lo \in 1..(seq + 1) : BufferIs(lo)
  BY DEF Buffer
<1>2. /\ seq \in Nat /\ untrimmed \in Nat /\ EventBuffer \in Nat
      /\ lo \in Nat /\ 1 <= lo /\ lo <= seq + 1
      /\ seq' = seq /\ untrimmed' = 0
  BY <1>1, LimitAssumption, BufferAssumption DEF BufferIs, Inv, ControlOK, TrimEvents, ghosts
<1>3. table' = {i \in lo..seq : i > seq - EventBuffer}
  <2>1. table' = Trimmed(lo..seq, EventBuffer)
    BY <1>1 DEF BufferIs, TrimEvents
  <2>. QED
    BY <1>2, <2>1, TrimmedInterval, Zenon
<1>4. CASE lo > seq - EventBuffer
  <2>1. table' = lo..seq'
    BY <1>2, <1>3, <1>4
  <2>2. seq - lo < EventBuffer
    BY <1>2, <1>4
  <2>3. BufferIs(lo)'
    BY <1>1, <1>2, <2>1, <2>2 DEF BufferIs
  <2>. QED
    BY <1>2, <2>3 DEF Buffer
<1>5. CASE ~(lo > seq - EventBuffer)
  <2>1. PICK first \in Nat : first = seq - EventBuffer + 1
    BY <1>2, <1>5
  <2>2. table' = first..seq' /\ first \in 1..(seq' + 1)
    BY <1>2, <1>3, <1>5, <2>1
  <2>3. seq - first < EventBuffer
    BY <1>2, <2>1
  <2>4. BufferIs(first)'
    BY <1>2, <2>1, <2>2, <2>3 DEF BufferIs
  <2>. QED
    BY <2>2, <2>4 DEF Buffer
<1>. QED
  BY <1>4, <1>5

LEMMA BufferKept ==
  ASSUME Inv, Buffer, [Next]_vars
  PROVE  Buffer'
<1>. USE DEF tables, events, ghosts
<1>0. seq \in Nat /\ untrimmed \in Nat /\ EventBuffer \in Nat
  BY LimitAssumption, BufferAssumption DEF Inv, ControlOK
<1>1. ASSUME UNCHANGED <<table, seq, untrimmed>>, job.at = "trim" => job'.at = "trim"
      PROVE  Buffer'
  BY <1>1 DEF Buffer, BufferIs
<1>2. ASSUME UNCHANGED <<events, job, ghosts>>  PROVE Buffer'
  BY <1>1, <1>2
<1>3. ASSUME NEW e, Start(e)  PROVE Buffer'
  BY <1>1, <1>3 DEF Start, Idle
<1>4. CASE \/ \E r \in Requests, c \in Clients : CreateRequest(r, c)
           \/ \E r \in Requests, a \in Answers, c \in Clients :
                CreateAnswer(r, a, c) \/ AcceptAnswer(r, a, c)
           \/ \E r \in Requests : CloseRequest(r) \/ DeleteRequest(r)
           \/ \E a \in Answers, v \in Clients : ToggleVote(a, v)
  BY <1>3, <1>4 DEF CreateRequest, CreateAnswer, AcceptAnswer, CloseRequest, DeleteRequest,
     ToggleVote
<1>5. CASE \/ \E r \in Requests : GrowOld(r)
           \/ \E f \in Files, o \in Requests \cup Answers : Upload(f, o) \/ BeginUpload(f, o)
           \/ \E u \in uploads : EndUpload(u) \/ RefuseUpload(u)
           \/ Boot \/ UNCHANGED vars
  BY <1>2, <1>5 DEF GrowOld, Upload, BeginUpload, EndUpload, RefuseUpload, Boot, vars
<1>6. CASE Prune
  BY <1>1, <1>6 DEF Prune
<1>7. CASE Kill
  <2>1. PICK lo \in 1..(seq + 1) : BufferIs(lo)
    BY DEF Buffer
  <2>2. /\ UNCHANGED <<table, seq>>
        /\ untrimmed' = IF job.at = "trim" THEN untrimmed + 1 ELSE untrimmed
    BY <1>7 DEF Kill
  <2>3. lo \in Nat
    BY <1>0
  <2>4. seq - lo < EventBuffer + untrimmed'
    <3>1. CASE job.at = "trim"
      BY <1>0, <2>1, <2>2, <2>3, <3>1 DEF BufferIs
    <3>2. CASE job.at # "trim"
      BY <1>0, <2>1, <2>2, <2>3, <3>2 DEF BufferIs
    <3>. QED
      BY <3>1, <3>2
  <2>5. BufferIs(lo)'
    BY <1>0, <2>1, <2>2, <2>3, <2>4 DEF BufferIs
  <2>. QED
    BY <2>2, <2>5 DEF Buffer
<1>. QED
  BY <1>4, <1>5, <1>6, <1>7, BufferAppended, BufferTrimmed DEF Next

LEMMA BufferAlways == Spec => [](Inv /\ Buffer)
<1>1. Init => Buffer
  <2>. SUFFICES ASSUME Init  PROVE Buffer
    OBVIOUS
  <2>1. seq = 0 /\ table = {} /\ untrimmed = 0 /\ job = Idle
    BY DEF Init
  <2>2. BufferIs(1)
    BY <2>1, BufferAssumption DEF BufferIs, Idle
  <2>. QED
    BY <2>1, <2>2 DEF Buffer
<1>2. Inv /\ Buffer /\ [Next]_vars => Buffer'
  BY BufferKept
<1>. QED
  BY <1>1, <1>2, InvInit, InvStep, PTL DEF Spec

(* The gauge of buffered events never shows more than the buffer's size,   *)
(* one for the event a running handler has appended, and one for each that *)
(* a kill cut off from its trim since the last trim: however many were cut *)
(* off, the next trim takes the table back to its size (db.py:276-282).    *)
THEOREM BufferStaysBounded == Spec => []BufferBounded
<1>1. Inv /\ Buffer => BufferBounded
  <2>. SUFFICES ASSUME Inv, Buffer  PROVE BufferBounded
    OBVIOUS
  <2>1. PICK lo \in 1..(seq + 1) : BufferIs(lo)
    BY DEF Buffer
  <2>2. /\ seq \in Int /\ lo \in Int /\ lo <= seq + 1 /\ untrimmed \in Int
        /\ EventBuffer \in Int
    BY LimitAssumption, BufferAssumption DEF Inv, ControlOK
  <2>3. Cardinality(lo..seq) = IF lo > seq THEN 0 ELSE seq - lo + 1
    BY <2>2, FS_Interval, Zenon
  <2>4. PICK n \in Int : n = EventsBuffered /\ n = seq - lo + 1
    BY <2>1, <2>2, <2>3 DEF EventsBuffered, BufferIs
  <2>5. CASE job.at = "trim"
    <3>1. n <= EventBuffer + untrimmed + 1
      BY <2>1, <2>2, <2>4 DEF BufferIs
    <3>. QED
      BY <2>4, <2>5, <3>1 DEF BufferBounded
  <2>6. CASE job.at # "trim"
    <3>1. n <= EventBuffer + untrimmed + 0
      BY <2>1, <2>2, <2>4, <2>6 DEF BufferIs
    <3>. QED
      BY <2>4, <2>6, <3>1 DEF BufferBounded
  <2>. QED
    BY <2>5, <2>6
<1>. QED
  BY <1>1, BufferAlways, PTL

-----------------------------------------------------------------------------
(* The statistics: no client has answered a request of its own.            *)

ByOthers == \A a \in DOMAIN answers :
              requests[answers[a].request].client # answers[a].solver

Praise == IsFiniteSet(DOMAIN requests) /\ ByOthers

LEMMA PraiseStep ==
  ASSUME Inv, Praise, [Next]_vars
  PROVE  Praise'
<1>1. CASE UNCHANGED vars
  BY <1>1 DEF Praise, ByOthers, vars, tables
<1>2. CASE Next
  <2>1. /\ \A a \in DOMAIN answers : answers[a].request \in DOMAIN requests
        /\ \A a \in DOMAIN answers' : answers'[a].request \in DOMAIN requests'
    BY InvStep DEF Inv, Consistent, ReferentialIntegrity
  <2>2. \A r \in DOMAIN requests \cap DOMAIN requests' : requests'[r].client = requests[r].client
    <3>1. \A r \in DOMAIN requests : r \in drawn
      BY DEF Inv, Consistent, RowsOK
    <3>2. \A r, c : CreateRequest(r, c) => r \notin drawn
      BY DEF CreateRequest, InsertRequest, Draw
    <3>. QED
      BY <1>2, <3>1, <3>2, RequestsStep
  <2>3. ByOthers'
    BY <2>1, <2>2, AnswersStep DEF Praise, ByOthers
  <2>4. IsFiniteSet(DOMAIN requests')
    <3>1. ASSUME NEW r, NEW c, CreateRequest(r, c)
          PROVE  DOMAIN requests' = DOMAIN requests \cup {r}
      <4>. DEFINE row == [client |-> c, status |-> "open", accepted |-> None]
      <4>1. requests' = Put(requests, r, row)
        BY <3>1 DEF CreateRequest, InsertRequest
      <4>. HIDE DEF row
      <4>. QED
        BY <4>1 DEF Put
    <3>2. CASE \E r \in Requests, c \in Clients : CreateRequest(r, c)
      <4>1. PICK r \in Requests : DOMAIN requests' = DOMAIN requests \cup {r}
        BY <3>1, <3>2
      <4>2. IsFiniteSet(DOMAIN requests \cup {r})
        BY FS_AddElement DEF Praise
      <4>. QED
        BY <4>1, <4>2
    <3>3. CASE ~ \E r \in Requests, c \in Clients : CreateRequest(r, c)
      <4>1. ASSUME NEW r \in DOMAIN requests'  PROVE r \in DOMAIN requests
        <5>1. r \in Requests
          BY InvStep DEF Inv, Consistent, RowsOK
        <5>. QED
          BY <1>2, <3>3, <5>1, RequestsStep
      <4>. QED
        BY <4>1, FS_Subset DEF Praise
    <3>. QED
      BY <3>2, <3>3
  <2>. QED
    BY <2>3, <2>4 DEF Praise
<1>. QED
  BY <1>1, <1>2

(* A client's asks add up, and neither its answered asks nor the answers   *)
(* it gave include one of its own (routes/answers.py:19-20).               *)
THEOREM NobodyPraisesHerself == Spec => []NoSelfPraise
<1>1. Init => Praise
  BY FS_EmptySet DEF Init, Praise, ByOthers
<1>2. Inv /\ Praise /\ [Next]_vars => Praise'
  BY PraiseStep
<1>3. Inv /\ Praise => NoSelfPraise
  <2>. SUFFICES ASSUME Inv, Praise, NEW c \in Clients
       PROVE  LET s == ClientStats(c)
                  helped == {answers[a].request :
                               a \in {b \in DOMAIN answers : answers[b].solver # c}}
                  others == UNION {AnswersTo(r) : r \in DOMAIN requests \ Asks(c)}
              IN  /\ s.total = s.open + s.closed
                  /\ s.received = Cardinality(Asks(c) \cap helped)
                  /\ s.given = Cardinality({a \in others : answers[a].solver = c})
    BY DEF NoSelfPraise
  <2>. DEFINE Opened == {r \in Asks(c) : requests[r].status = "open"}
              Closed == {r \in Asks(c) : requests[r].status = "closed"}
              helped == {answers[a].request :
                           a \in {b \in DOMAIN answers : answers[b].solver # c}}
              others == UNION {AnswersTo(r) : r \in DOMAIN requests \ Asks(c)}
  <2>0. /\ \A a \in DOMAIN answers : answers[a].request \in DOMAIN requests
        /\ \A a \in DOMAIN answers : requests[answers[a].request].client # answers[a].solver
        /\ \A r \in DOMAIN requests : requests[r].status \in {"open", "closed"}
    BY DEF Inv, Consistent, RowsOK, RequestRow, ReferentialIntegrity, Praise, ByOthers
  <2>1. Cardinality(Asks(c)) = Cardinality(Opened) + Cardinality(Closed)
    <3>1. IsFiniteSet(Asks(c)) /\ Opened \in SUBSET Asks(c) /\ Closed \in SUBSET Asks(c)
      BY FS_Subset DEF Asks, Praise
    <3>2. /\ IsFiniteSet(Opened) /\ IsFiniteSet(Closed)
          /\ Cardinality(Opened) \in Nat /\ Cardinality(Closed) \in Nat
      BY <3>1, FS_Subset, FS_CardinalityType
    <3>3. Asks(c) = Opened \cup Closed /\ Opened \cap Closed = {}
      BY <2>0 DEF Asks
    <3>4. Cardinality(Opened \cup Closed)
            = Cardinality(Opened) + Cardinality(Closed) - Cardinality(Opened \cap Closed)
      BY <3>2, FS_Union
    <3>5. Cardinality(Opened \cap Closed) = 0
      BY <3>3, FS_EmptySet
    <3>6. Cardinality(Asks(c)) = Cardinality(Opened) + Cardinality(Closed) - 0
      BY <3>3, <3>4, <3>5
    <3>7. PICK m \in Nat, n \in Nat : m = Cardinality(Opened) /\ n = Cardinality(Closed)
      BY <3>2
    <3>8. m + n - 0 = m + n
      OBVIOUS
    <3>. QED
      BY <3>6, <3>7, <3>8
  <2>2. {answers[a].request : a \in DOMAIN answers} \cap Asks(c) = Asks(c) \cap helped
    BY <2>0 DEF Asks
  <2>3. {a \in DOMAIN answers : answers[a].solver = c} = {a \in others : answers[a].solver = c}
    BY <2>0 DEF Asks, AnswersTo
  <2>. QED
    BY <2>1, <2>2, <2>3 DEF ClientStats
<1>. QED
  BY <1>1, <1>2, <1>3, InvAlways, InvInit, InvStep, PTL DEF Spec

-----------------------------------------------------------------------------
(* The feed.                                                               *)

FeedInv == Inv /\ LogOK /\ Buffer /\ Once

LEMMA FeedInvStep == ASSUME FeedInv, [LogNext]_logVars  PROVE FeedInv'
<1>1. CASE LogNext
  BY <1>1, InvStep, LogStep, BufferKept, OnceStep DEF FeedInv, LogNext
<1>2. CASE UNCHANGED logVars
  <2>1. UNCHANGED vars /\ UNCHANGED log
    BY <1>2 DEF logVars
  <2>2. LogOK' /\ Once'
    BY <2>1 DEF FeedInv, LogOK, Once, Pending, vars, tables, events
  <2>. QED
    BY <2>1, <2>2, InvStep, BufferKept DEF FeedInv
<1>. QED
  BY <1>1, <1>2

(* Every ask and answer that still exists shows up in the activity feed,   *)
(* once, unless it is older than the buffer or than RecentLimit others     *)
(* (db.py:305-322).                                                        *)
THEOREM FeedAlwaysShows == LogSpec => []FeedShows
<1>1. LogInit => FeedInv
  <2>. SUFFICES ASSUME LogInit  PROVE FeedInv
    OBVIOUS
  <2>1. Init /\ log = << >> /\ seq = 0 /\ table = {} /\ untrimmed = 0 /\ job = Idle
    BY DEF LogInit, Init
  <2>2. BufferIs(1)
    BY <2>1, BufferAssumption DEF BufferIs, Idle
  <2>3. LogOK /\ Once
    BY <2>1 DEF LogOK, Once, Pending, Idle
  <2>. QED
    BY <2>1, <2>2, <2>3, InvInit DEF FeedInv, Buffer
<1>2. FeedInv /\ [LogNext]_logVars => FeedInv'
  BY FeedInvStep
<1>3. FeedInv => FeedShows
  <2>. SUFFICES ASSUME FeedInv  PROVE FeedShows
    OBVIOUS
  <2>. DEFINE made == {i \in 1..seq : log[i].kind \in {"request.created", "answer.created"}}
  <2>1. PICK lo \in 1..(seq + 1) : BufferIs(lo)
    BY DEF FeedInv, Buffer
  <2>2. seq \in Nat /\ EventBuffer \in Nat /\ RecentLimit \in Nat /\ table = lo..seq
    BY <2>1, LimitAssumption, BufferAssumption, RecentAssumption
       DEF BufferIs, FeedInv, Inv, ControlOK
  <2>3. ASSUME NEW i \in made, Alive(log[i]), i > seq - EventBuffer,
               Cardinality({j \in made : j > i}) < RecentLimit
        PROVE  i \in Recent(RecentLimit)
    <3>1. i \in table
      BY <2>1, <2>2, <2>3 DEF BufferIs
    <3>2. {j \in made : j > i} \in SUBSET (1..seq) /\ IsFiniteSet(1..seq)
      BY <2>2, FS_Interval
    <3>3. IsFiniteSet({j \in made : j > i})
      BY <3>2, FS_Subset
    <3>4. {j \in Creations : j > i} \in SUBSET {j \in made : j > i}
      BY <2>2 DEF Creations
    <3>5. PICK m \in Nat, n \in Nat : /\ m = Cardinality({j \in Creations : j > i})
                                      /\ n = Cardinality({j \in made : j > i})
                                      /\ m <= n
      <4>. DEFINE S == {j \in made : j > i}
                  T == {j \in Creations : j > i}
      <4>1. IsFiniteSet(S) /\ T \in SUBSET S
        BY <3>3, <3>4
      <4>. HIDE DEF S, T
      <4>2. IsFiniteSet(T) /\ Cardinality(T) <= Cardinality(S)
        BY <4>1, FS_Subset
      <4>3. Cardinality(S) \in Nat /\ Cardinality(T) \in Nat
        BY <4>1, <4>2, FS_CardinalityType
      <4>4. \E m \in Nat, n \in Nat : m = Cardinality(T) /\ n = Cardinality(S) /\ m <= n
        BY <4>2, <4>3
      <4>. QED
        BY <4>4 DEF S, T
    <3>6. m < RecentLimit
      BY <2>2, <2>3, <3>5
    <3>7. i \in Newest(Creations, RecentLimit)
      BY <2>2, <3>1, <3>5, <3>6 DEF Newest, Creations
    <3>. QED
      BY <2>3, <3>7 DEF Recent
  <2>4. ASSUME NEW i \in Recent(RecentLimit), NEW j \in Recent(RecentLimit), log[i] = log[j]
        PROVE  i = j
    <3>1. i \in Creations /\ j \in Creations
      BY <2>2 DEF Recent, Newest
    <3>2. i \in 1..seq /\ j \in 1..seq /\ Creation(log[i])
      BY <2>2, <3>1 DEF Creations, Creation
    <3>. QED
      BY <2>4, <3>2 DEF FeedInv, Once
  <2>. QED
    BY <2>3, <2>4 DEF FeedShows
<1>. QED
  BY <1>1, <1>2, <1>3, PTL DEF LogSpec
=============================================================================
