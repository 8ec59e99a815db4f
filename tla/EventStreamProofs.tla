-------------------------- MODULE EventStreamProofs -------------------------
(***************************************************************************)
(* Proofs about EventStream, for every number of clients and every value   *)
(* of the settings and bounds.                                             *)
(***************************************************************************)
EXTENDS EventStream, EventTableProofs, SequenceTheorems

-----------------------------------------------------------------------------
(* The buffer.  Contiguous alone is not inductive: that a trim leaves the  *)
(* last EventBuffer ids needs that the table ends at seq.                  *)

BufferInv == seq \in Nat /\ RetainsLatest /\ Contiguous

LEMMA BufferInit == Init => BufferInv
<1>. SUFFICES ASSUME Init PROVE BufferInv
  OBVIOUS
<1>1. seq = 0 /\ table = {}
  BY DEF Init
<1>2. 1 \in 1..(seq + 1) /\ table = 1..seq
  BY <1>1
<1>. QED
  BY <1>1, <1>2, BufferAssumption DEF BufferInv, RetainsLatest, Contiguous

LEMMA BufferAppend == BufferInv /\ AppendEvent => BufferInv'
<1>. SUFFICES ASSUME BufferInv, AppendEvent PROVE BufferInv'
  OBVIOUS
<1>1. seq' = seq + 1 /\ table' = table \cup {seq + 1}
  BY DEF AppendEvent
<1>2. PICK lo \in 1..(seq + 1) : table = lo..seq
  BY DEF BufferInv, Contiguous
<1>3. lo \in 1..(seq' + 1) /\ table' = lo..seq'
  BY <1>1, <1>2 DEF BufferInv
<1>4. RetainsLatest'
  BY <1>1, BufferAssumption DEF BufferInv, RetainsLatest
<1>. QED
  BY <1>1, <1>3, <1>4 DEF BufferInv, Contiguous

LEMMA BufferTrim == BufferInv /\ TrimEvents => BufferInv'
<1>. SUFFICES ASSUME BufferInv, TrimEvents PROVE BufferInv'
  OBVIOUS
<1>1. seq' = seq /\ table' = Trimmed(table, EventBuffer)
  BY DEF TrimEvents
<1>2. PICK lo \in 1..(seq + 1) : table = lo..seq
  BY DEF BufferInv, Contiguous
<1>3. table' = {i \in lo..seq : i > seq - EventBuffer}
  BY <1>1, <1>2, TrimmedInterval, BufferAssumption DEF BufferInv
<1>. DEFINE first == IF lo > seq - EventBuffer THEN lo ELSE seq - EventBuffer + 1
<1>4. first \in 1..(seq' + 1) /\ table' = first..seq'
  <2>1. seq \in Nat /\ lo \in Nat /\ lo >= 1 /\ lo <= seq + 1 /\ EventBuffer \in Nat
    BY <1>2, BufferAssumption DEF BufferInv
  <2>2. CASE lo > seq - EventBuffer
    BY <1>1, <1>3, <2>1, <2>2
  <2>3. CASE ~ (lo > seq - EventBuffer)
    BY <1>1, <1>3, <2>1, <2>3
  <2>. QED
    BY <2>2, <2>3
<1>5. RetainsLatest'
  BY <1>1, <1>2, <1>3, BufferAssumption DEF BufferInv, RetainsLatest
<1>. QED
  BY <1>1, <1>4, <1>5 DEF BufferInv, Contiguous

LEMMA BufferStep == BufferInv /\ [Next]_vars => BufferInv'
<1>. SUFFICES ASSUME BufferInv, [Next]_vars PROVE BufferInv'
  OBVIOUS
<1>1. CASE AppendEvent
  BY <1>1, BufferAppend
<1>2. CASE TrimEvents
  BY <1>2, BufferTrim
<1>3. CASE UNCHANGED <<seq, table>>
  BY <1>3 DEF BufferInv, RetainsLatest, Contiguous
<1>4. ASSUME NEW c \in Clients,
             Open(c) \/ Poll(c) \/ Send(c) \/ Dispatch(c) \/ Drop(c) \/ Finish(c)
      PROVE  UNCHANGED <<seq, table>>
  BY <1>4 DEF Open, Poll, Send, SendRow, Dispatch, Drop, Finish, server
<1>5. Kill \/ Boot \/ UNCHANGED vars => UNCHANGED <<seq, table>>
  BY DEF Kill, Boot, vars, server
<1>. QED
  BY <1>1, <1>2, <1>3, <1>4, <1>5 DEF Next

LEMMA BufferAlways == Spec => []BufferInv
BY BufferInit, BufferStep, PTL DEF Spec

(* However many kills fall between an append and its trim, the events      *)
(* table has no holes (db.py:276).                                         *)
THEOREM BufferUnbroken == Spec => []Contiguous
<1>1. BufferInv => Contiguous
  BY DEF BufferInv
<1>. QED
  BY <1>1, BufferAlways, PTL

(* Nor does it ever hold fewer than the last EventBuffer events: the trim  *)
(* leaves the youngest alone, whatever it has to make up for.              *)
THEOREM LatestRetained == Spec => []RetainsLatest
<1>1. BufferInv => RetainsLatest
  BY DEF BufferInv
<1>. QED
  BY <1>1, BufferAlways, PTL

-----------------------------------------------------------------------------
(* Type correctness.  One lemma per kind of step.                          *)

LEMMA TypeInit == Init => TypeOK
<1>. SUFFICES ASSUME Init PROVE TypeOK
  OBVIOUS
<1>1. \A c \in Clients : StreamTypeOK(stream[c])
  BY DEF Init, Closed, StreamTypeOK
<1>2. wire \in [Clients -> Seq(0..seq)] /\ heard \in [Clients -> Seq(0..seq)]
  <2>1. << >> \in Seq(0..seq)
    BY EmptySeq
  <2>. QED
    BY <2>1, Zenon DEF Init
<1>3. /\ cursor \in [Clients -> 0..seq] /\ missed \in [Clients -> SUBSET (1..seq)]
      /\ seq \in Nat /\ table \subseteq 1..seq /\ failures \in 0..MaxFailures
  BY BoundAssumption DEF Init
<1>. QED
  BY <1>1, <1>2, <1>3 DEF Init, TypeOK

(* A new event only widens the range of ids.                               *)
LEMMA TypeAppend == TypeOK /\ AppendEvent => TypeOK'
<1>. SUFFICES ASSUME TypeOK, AppendEvent PROVE TypeOK'
  OBVIOUS
<1>1. seq \in Nat /\ seq' = seq + 1 /\ 0..seq \subseteq 0..seq' /\ 1..seq \subseteq 1..seq'
  BY DEF TypeOK, AppendEvent
<1>2. \A c \in Clients : StreamTypeOK(stream[c])'
  <2>. SUFFICES ASSUME NEW c \in Clients PROVE StreamTypeOK(stream[c])'
    OBVIOUS
  <2>1. StreamTypeOK(stream[c]) /\ stream' = stream
    BY DEF TypeOK, AppendEvent
  <2>. QED
    BY <1>1, <2>1 DEF StreamTypeOK
<1>3. wire' \in [Clients -> Seq(0..seq')] /\ heard' \in [Clients -> Seq(0..seq')]
  <2>1. \A s \in Seq(0..seq) : s \in Seq(0..seq')
    BY <1>1, SeqMonotonic
  <2>. QED
    BY <2>1 DEF TypeOK, AppendEvent, client
<1>4. cursor' \in [Clients -> 0..seq'] /\ missed' \in [Clients -> SUBSET (1..seq')]
  BY <1>1, Zenon DEF TypeOK, AppendEvent, client
<1>5. seq' \in Nat /\ table' \subseteq 1..seq' /\ trimming' \in BOOLEAN /\ up' \in BOOLEAN
      /\ DOMAIN stream' = Clients /\ failures' \in 0..MaxFailures
  BY <1>1 DEF TypeOK, AppendEvent
<1>. QED
  BY <1>2, <1>3, <1>4, <1>5 DEF TypeOK

LEMMA TypeTrim == TypeOK /\ TrimEvents => TypeOK'
<1>. SUFFICES ASSUME TypeOK, TrimEvents PROVE TypeOK'
  OBVIOUS
<1>1. table' \subseteq table
  BY DEF TrimEvents, Trimmed
<1>2. \A c \in Clients : StreamTypeOK(stream[c])'
  BY DEF TypeOK, TrimEvents, StreamTypeOK
<1>3. missed' \in [Clients -> SUBSET (1..seq)]
  <2>1. ASSUME NEW c \in Clients  PROVE missed[c] \cup MissedBy(c, table \ table') \subseteq 1..seq
    <3>1. MissedBy(c, table \ table') \subseteq table
      BY DEF MissedBy
    <3>. QED
      BY <3>1 DEF TypeOK
  <2>. QED
    BY <2>1, Zenon DEF TrimEvents
<1>. QED
  BY <1>1, <1>2, <1>3 DEF TypeOK, TrimEvents, client

LEMMA TypeOpen == ASSUME NEW c \in Clients, TypeOK, Open(c) PROVE TypeOK'
<1>1. InitialLastId(c) \in 0..seq
  BY DEF TypeOK, InitialLastId
<1>2. \A d \in Clients : StreamTypeOK(stream[d])'
  BY <1>1 DEF TypeOK, Open, StreamTypeOK, server
<1>3. << >> \in Seq(0..seq) /\ <<Gap>> \in Seq(0..seq)
  BY DEF TypeOK, Gap
<1>4. wire' \in [Clients -> Seq(0..seq)]
  BY <1>3 DEF TypeOK, Open
<1>. QED
  BY <1>2, <1>4 DEF TypeOK, Open, server, client

LEMMA TypePoll == ASSUME NEW c \in Clients, TypeOK, Poll(c) PROVE TypeOK'
<1>. DEFINE rows == RowsAfter(table, stream[c].last, Batch)
<1>1. rows \subseteq (stream[c].last + 1)..seq /\ rows # {} /\ stream[c].last \in 0..seq
  <2>1. stream[c].last \in 0..seq /\ seq \in Nat
    BY DEF TypeOK, StreamTypeOK
  <2>2. rows \subseteq table /\ \A i \in rows : i > stream[c].last
    BY Zenon DEF RowsAfter
  <2>3. rows # {} /\ table \subseteq 1..seq
    BY DEF TypeOK, Poll
  <2>4. ASSUME NEW i \in rows  PROVE i \in (stream[c].last + 1)..seq
    <3>1. i \in 1..seq /\ i > stream[c].last
      BY <2>2, <2>3, <2>4, Zenon
    <3>. QED
      BY <2>1, <3>1
  <2>. QED
    BY <2>1, <2>3, <2>4, Zenon
<1>2. \A d \in Clients : StreamTypeOK(stream[d])'
  BY <1>1 DEF TypeOK, Poll, StreamTypeOK, server
<1>. QED
  BY <1>2 DEF TypeOK, Poll, server, client

(* The row sent is the least of those fetched, so the rest lie beyond it.  *)
LEMMA LeastRow ==
  ASSUME NEW c \in Clients, TypeOK, stream[c].at = "send"
  PROVE  /\ Least(stream[c].rows) \in stream[c].rows
         /\ \A j \in stream[c].rows : Least(stream[c].rows) <= j
         /\ Least(stream[c].rows) \in (stream[c].last + 1)..seq
<1>1. StreamTypeOK(stream[c])
  BY DEF TypeOK
<1>2. stream[c].rows \in SUBSET Nat /\ stream[c].rows # {}
  BY <1>1 DEF StreamTypeOK
<1>. QED
  BY <1>1, <1>2, LeastExists DEF StreamTypeOK

LEMMA TypeSend == ASSUME NEW c \in Clients, TypeOK, Send(c) PROVE TypeOK'
<1>. DEFINE id == Least(stream[c].rows)
            rest == stream[c].rows \ {id}
<1>1. SendRow(c, id) /\ stream[c].at = "send" /\ StreamTypeOK(stream[c])
  BY DEF Send, Running, TypeOK
<1>2. id \in 1..seq /\ rest \subseteq (id + 1)..seq
  BY <1>1, LeastRow DEF StreamTypeOK
<1>3. \A d \in Clients : StreamTypeOK(stream[d])'
  <2>. SUFFICES ASSUME NEW d \in Clients PROVE StreamTypeOK(stream[d])'
    OBVIOUS
  <2>1. CASE d = c
    <3>1. stream'[c] = [at |-> IF rest = {} THEN "poll" ELSE "send", last |-> id, rows |-> rest]
      BY <1>1 DEF SendRow, TypeOK
    <3>2. seq' = seq
      BY <1>1 DEF SendRow, server
    <3>. QED
      BY <1>2, <3>1, <3>2, <2>1 DEF StreamTypeOK
  <2>2. CASE d # c
    BY <1>1, <2>2 DEF SendRow, server, TypeOK, StreamTypeOK
  <2>. QED
    BY <2>1, <2>2
<1>4. Append(wire[c], id) \in Seq(0..seq)
  BY <1>2, AppendProperties DEF TypeOK
<1>5. wire' \in [Clients -> Seq(0..seq)]
  BY <1>1, <1>4 DEF SendRow, TypeOK
<1>. QED
  BY <1>1, <1>3, <1>5 DEF TypeOK, SendRow, server, client

LEMMA TypeDispatch == ASSUME NEW c \in Clients, TypeOK, Dispatch(c) PROVE TypeOK'
<1>1. wire[c] \in Seq(0..seq) /\ wire[c] # << >>
  BY DEF TypeOK, Dispatch
<1>2. Head(wire[c]) \in 0..seq /\ Tail(wire[c]) \in Seq(0..seq)
  BY <1>1, HeadTailProperties
<1>3. Append(heard[c], Head(wire[c])) \in Seq(0..seq)
  BY <1>2, AppendProperties DEF TypeOK
<1>4. /\ wire' \in [Clients -> Seq(0..seq)]
      /\ heard' \in [Clients -> Seq(0..seq)]
      /\ cursor' \in [Clients -> 0..seq]
  BY <1>2, <1>3 DEF TypeOK, Dispatch
<1>5. \A d \in Clients : StreamTypeOK(stream[d])'
  BY DEF TypeOK, Dispatch, StreamTypeOK, server
<1>. QED
  BY <1>4, <1>5 DEF TypeOK, Dispatch, server

LEMMA TypeBroken ==
  ASSUME NEW c \in Clients, TypeOK, Drop(c) \/ Finish(c) PROVE TypeOK'
<1>1. /\ failures' \in 0..MaxFailures
      /\ UNCHANGED <<server, client, missed>>
      /\ stream' = [stream EXCEPT ![c] = Closed]
      /\ wire' = [wire EXCEPT ![c] = << >>] \/ wire' = wire
  BY BoundAssumption DEF TypeOK, Drop, Finish, Fail
<1>2. \A d \in Clients : StreamTypeOK(stream[d])'
  BY <1>1 DEF TypeOK, StreamTypeOK, Closed, server
<1>3. wire' \in [Clients -> Seq(0..seq)]
  BY <1>1, EmptySeq DEF TypeOK
<1>. QED
  BY <1>1, <1>2, <1>3 DEF TypeOK, server, client

LEMMA TypeKill == TypeOK /\ Kill => TypeOK'
<1>. SUFFICES ASSUME TypeOK, Kill PROVE TypeOK'
  OBVIOUS
<1>1. failures' \in 0..MaxFailures
  BY BoundAssumption DEF TypeOK, Kill, Fail
<1>2. \A d \in Clients : StreamTypeOK(stream[d])'
  BY DEF TypeOK, Kill, StreamTypeOK, Closed
<1>. QED
  BY <1>1, <1>2 DEF TypeOK, Kill, client

LEMMA TypeStep == TypeOK /\ [Next]_vars => TypeOK'
<1>. SUFFICES ASSUME TypeOK, [Next]_vars PROVE TypeOK'
  OBVIOUS
<1>1. CASE Boot
  BY <1>1 DEF TypeOK, Boot, StreamTypeOK, client
<1>2. CASE UNCHANGED vars
  BY <1>2 DEF TypeOK, vars, StreamTypeOK, client
<1>. QED
  BY <1>1, <1>2, TypeAppend, TypeTrim, TypeOpen, TypePoll, TypeSend, TypeDispatch,
     TypeBroken, TypeKill DEF Next

(* Every variable keeps its type; in particular an open stream holds rows  *)
(* exactly while it is in its inner loop, all beyond its last_id.          *)
THEOREM TypeCorrect == Spec => []TypeOK
BY TypeInit, TypeStep, PTL DEF Spec

-----------------------------------------------------------------------------
(* The implementation of EventFeed.  What makes it inductive is a chain    *)
(* from the page's cursor over the frames on the wire to the generator's   *)
(* last_id and on to the rows it has fetched: each link ascends, and every *)
(* event it passes over has left the table.                                *)

Leads(tab, i, j) == i < j /\ \A k \in (i + 1)..(j - 1) : k \notin tab

(* The event id a page with cursor cur holds when frame n of w arrives.    *)
Before(w, cur, n) == IF n = 1 \/ w[n - 1] = Gap THEN cur ELSE w[n - 1]

GapFirst(w) == \A n \in 1..Len(w) : w[n] = Gap => n = 1

WireLinked(tab, w, cur) ==
  \A n \in 1..Len(w) : w[n] # Gap => Leads(tab, Before(w, cur, n), w[n])

StreamLinked(w, cur, s) == s.at # "closed" => s.last = Before(w, cur, Len(w) + 1)

RowsLinked(tab, s) ==
  \A j \in s.rows : \A i \in (s.last + 1)..(j - 1) : i \in s.rows \/ i \notin tab

Chain(c) == /\ GapFirst(wire[c])
            /\ WireLinked(table, wire[c], cursor[c])
            /\ StreamLinked(wire[c], cursor[c], stream[c])
            /\ RowsLinked(table, stream[c])

FeedInv == TypeOK /\ BufferInv /\ \A c \in Resuming : Chain(c)

-----------------------------------------------------------------------------
(* What the ends of the wire do to a chain.                                *)

LEMMA WireAppend ==
  ASSUME NEW tab, NEW w \in Seq(Nat), NEW cur \in Nat, NEW id \in Nat, id # Gap,
         GapFirst(w), WireLinked(tab, w, cur),
         Leads(tab, Before(w, cur, Len(w) + 1), id)
  PROVE  /\ GapFirst(Append(w, id))
         /\ WireLinked(tab, Append(w, id), cur)
         /\ Before(Append(w, id), cur, Len(Append(w, id)) + 1) = id
<1>. DEFINE v == Append(w, id)
<1>1. /\ Len(w) \in Nat /\ Len(v) = Len(w) + 1 /\ v[Len(w) + 1] = id
      /\ \A n \in 1..Len(w) : v[n] = w[n]
  BY AppendProperties, LenProperties
<1>. HIDE DEF v
<1>2. \A n \in 1..(Len(w) + 1) : Before(v, cur, n) = Before(w, cur, n)
  BY <1>1 DEF Before
<1>3. WireLinked(tab, v, cur)
  <2>. SUFFICES ASSUME NEW n \in 1..(Len(w) + 1), v[n] # Gap
                PROVE  Leads(tab, Before(v, cur, n), v[n])
    BY <1>1 DEF WireLinked
  <2>1. CASE n = Len(w) + 1
    BY <1>1, <1>2, <2>1
  <2>2. CASE n \in 1..Len(w)
    BY <1>1, <1>2, <2>2 DEF WireLinked
  <2>. QED
    BY <1>1, <2>1, <2>2
<1>4. GapFirst(v)
  BY <1>1 DEF GapFirst
<1>5. Before(v, cur, Len(v) + 1) = id
  BY <1>1 DEF Before
<1>. QED
  BY <1>3, <1>4, <1>5 DEF v

LEMMA WireTail ==
  ASSUME NEW tab, NEW w \in Seq(Nat), w # << >>, NEW cur \in Nat,
         NEW new, new = IF Head(w) = Gap THEN cur ELSE Head(w),
         GapFirst(w), WireLinked(tab, w, cur)
  PROVE  /\ GapFirst(Tail(w))
         /\ WireLinked(tab, Tail(w), new)
         /\ Before(Tail(w), new, Len(Tail(w)) + 1) = Before(w, cur, Len(w) + 1)
<1>. DEFINE v == Tail(w)
<1>1. /\ Len(w) \in Nat \ {0} /\ Head(w) = w[1] /\ Len(v) = Len(w) - 1
      /\ \A n \in 1..Len(v) : v[n] = w[n + 1]
  BY HeadTailProperties, EmptySeq
<1>. HIDE DEF v
<1>2. ASSUME NEW n \in 1..Len(w)  PROVE Before(v, new, n) = Before(w, cur, n + 1)
  <2>1. CASE n = 1
    BY <1>1, <2>1 DEF Before
  <2>2. CASE n # 1
    <3>1. n - 1 \in 1..Len(v) /\ (n + 1) - 1 = n /\ (n - 1) + 1 = n /\ n + 1 # 1
      BY <1>1, <1>2, <2>2
    <3>2. v[n - 1] = w[n]
      BY <1>1, <3>1
    <3>3. w[n] # Gap
      BY <1>2, <2>2 DEF GapFirst
    <3>. QED
      BY <2>2, <3>1, <3>2, <3>3 DEF Before
  <2>. QED
    BY <2>1, <2>2
<1>3. WireLinked(tab, v, new)
  <2>. SUFFICES ASSUME NEW n \in 1..Len(v), v[n] # Gap
                PROVE  Leads(tab, Before(v, new, n), v[n])
    BY DEF WireLinked
  <2>1. n \in 1..Len(w) /\ n + 1 \in 1..Len(w) /\ v[n] = w[n + 1]
    BY <1>1
  <2>. QED
    BY <1>2, <2>1 DEF WireLinked
<1>4. GapFirst(v)
  <2>. SUFFICES ASSUME NEW n \in 1..Len(v), v[n] = Gap PROVE FALSE
    BY DEF GapFirst
  <2>1. n + 1 \in 1..Len(w) /\ w[n + 1] = Gap /\ n + 1 # 1
    BY <1>1
  <2>. QED
    BY <2>1 DEF GapFirst
<1>5. Before(v, new, Len(v) + 1) = Before(w, cur, Len(w) + 1)
  <2>1. Len(w) \in 1..Len(w) /\ Len(v) + 1 = Len(w)
    BY <1>1
  <2>. QED
    BY <1>2, <2>1
<1>. QED
  BY <1>3, <1>4, <1>5 DEF v

-----------------------------------------------------------------------------
(* The chain of one client through every kind of step.                     *)

LEMMA ChainInit == Init => \A c \in Resuming : Chain(c)
BY DEF Init, Resuming, Chain, GapFirst, WireLinked, StreamLinked, RowsLinked, Before, Closed

(* What the chain's links are made of.                                     *)
LEMMA ChainTypes ==
  ASSUME TypeOK, NEW c \in Clients
  PROVE  /\ seq \in Nat /\ table \subseteq 1..seq /\ StreamTypeOK(stream[c])
         /\ stream[c].rows \subseteq 1..seq /\ stream[c].last \in 0..seq
         /\ wire[c] \in Seq(0..seq) /\ wire[c] \in Seq(Nat)
         /\ \A n \in 1..Len(wire[c]) : wire[c][n] \in 0..seq
         /\ cursor[c] \in 0..seq
<1>1. /\ seq \in Nat /\ table \subseteq 1..seq /\ StreamTypeOK(stream[c])
      /\ wire[c] \in Seq(0..seq) /\ cursor[c] \in 0..seq
  BY DEF TypeOK
<1>2. stream[c].rows \subseteq 1..seq /\ stream[c].last \in 0..seq
  BY <1>1 DEF StreamTypeOK
<1>3. wire[c] \in Seq(Nat)
  <2>1. 0..seq \subseteq Nat
    BY <1>1
  <2>. QED
    BY <1>1, <2>1, SeqMonotonic
<1>4. \A n \in 1..Len(wire[c]) : wire[c][n] \in 0..seq
  BY <1>1, ElementOfSeq
<1>. QED
  BY <1>1, <1>2, <1>3, <1>4

(* Rows leave the table and new ones come in beyond all ids in use: no     *)
(* link is broken.                                                         *)
LEMMA ChainTable ==
  ASSUME TypeOK, NEW c \in Clients, Chain(c),
         table' \subseteq table \cup {seq + 1},
         UNCHANGED <<stream, wire, cursor>>
  PROVE  Chain(c)'
<1>1. WireLinked(table', wire[c], cursor[c])
  <2>. SUFFICES ASSUME NEW n \in 1..Len(wire[c]), wire[c][n] # Gap
                PROVE  Leads(table', Before(wire[c], cursor[c], n), wire[c][n])
    BY DEF WireLinked
  <2>1. Leads(table, Before(wire[c], cursor[c], n), wire[c][n])
    BY DEF Chain, WireLinked
  <2>2. wire[c][n] \in 0..seq /\ Before(wire[c], cursor[c], n) \in 0..seq /\ seq \in Nat
    BY ChainTypes DEF Before
  <2>. QED
    BY <2>1, <2>2 DEF Leads
<1>2. RowsLinked(table', stream[c])
  <2>1. seq \in Nat /\ stream[c].rows \subseteq 1..seq /\ stream[c].last \in 0..seq
    BY ChainTypes
  <2>. QED
    BY <2>1 DEF Chain, RowsLinked
<1>. QED
  BY <1>1, <1>2 DEF Chain

LEMMA ChainOpen == ASSUME TypeOK, NEW c \in Resuming, Open(c) PROVE Chain(c)'
<1>1. c \in Clients /\ wire[c] = << >> /\ InitialLastId(c) = cursor[c]
  BY DEF Open, Resuming, InitialLastId
<1>2. /\ stream'[c] = [at |-> "poll", last |-> cursor[c], rows |-> {}] /\ cursor' = cursor
      /\ wire'[c] = <<Gap>> \/ wire'[c] = << >>
  BY <1>1 DEF Open, TypeOK, client
<1>3. CASE wire'[c] = << >>
  BY <1>2, <1>3 DEF Chain, GapFirst, WireLinked, StreamLinked, RowsLinked, Before
<1>4. CASE wire'[c] = <<Gap>>
  <2>1. Len(wire'[c]) = 1 /\ wire'[c][1] = Gap
    BY <1>4
  <2>. QED
    BY <1>2, <2>1 DEF Chain, GapFirst, WireLinked, StreamLinked, RowsLinked, Before
<1>. QED
  BY <1>2, <1>3, <1>4

LEMMA ChainPoll == ASSUME TypeOK, NEW c \in Clients, Chain(c), Poll(c) PROVE Chain(c)'
<1>. DEFINE last == stream[c].last
            rows == RowsAfter(table, last, Batch)
<1>1. /\ stream'[c] = [at |-> "send", last |-> last, rows |-> rows]
      /\ stream[c].at = "poll"
      /\ UNCHANGED <<wire, cursor, table>>
  BY DEF Poll, Running, TypeOK, server, client
<1>2. table \in SUBSET Nat /\ IsFiniteSet(table) /\ last \in Nat /\ Batch \in Nat
  <2>1. table \subseteq 1..seq /\ seq \in Nat /\ last \in 0..seq
    BY ChainTypes
  <2>2. IsFiniteSet(1..seq)
    BY <2>1, FS_Interval
  <2>3. IsFiniteSet(table)
    BY <2>1, <2>2, FS_Subset
  <2>. QED
    BY <2>1, <2>3, BatchAssumption
<1>3. ASSUME NEW j \in rows, NEW i \in (last + 1)..(j - 1)
      PROVE  i \in rows \/ i \notin table
  <2>1. j \in Nat
    BY <1>2, <1>3 DEF RowsAfter
  <2>2. last < i /\ i < j
    BY <1>2, <1>3, <2>1
  <2>. QED
    BY <1>2, <1>3, <2>2, BatchDense
<1>. HIDE DEF rows
<1>4. RowsLinked(table', stream'[c])
  BY <1>1, <1>3 DEF RowsLinked
<1>5. StreamLinked(wire'[c], cursor'[c], stream'[c])
  BY <1>1 DEF StreamLinked, Chain
<1>. QED
  BY <1>1, <1>4, <1>5 DEF Chain

LEMMA ChainSend == ASSUME TypeOK, NEW c \in Clients, Chain(c), Send(c) PROVE Chain(c)'
<1>. DEFINE id == Least(stream[c].rows)
<1>1. /\ wire'[c] = Append(wire[c], id)
      /\ stream'[c].last = id /\ stream'[c].rows = stream[c].rows \ {id}
      /\ UNCHANGED <<cursor, table, seq>>
      /\ stream[c].at = "send"
  BY DEF Send, SendRow, Running, TypeOK, server, client
<1>2. /\ id \in stream[c].rows /\ id \in (stream[c].last + 1)..seq
      /\ \A j \in stream[c].rows : id <= j
  BY <1>1, LeastRow
<1>. HIDE DEF id
<1>3. /\ wire[c] \in Seq(Nat) /\ cursor[c] \in Nat /\ id \in Nat /\ id # Gap
      /\ stream[c].last \in Nat /\ stream[c].rows \subseteq Nat
  BY <1>2, ChainTypes DEF Gap
<1>4. Leads(table, stream[c].last, id)
  <2>1. ASSUME NEW k \in (stream[c].last + 1)..(id - 1)  PROVE k \notin table
    <3>1. k \notin stream[c].rows
      BY <1>2, <1>3, <2>1
    <3>. QED
      BY <1>2, <2>1, <3>1 DEF Chain, RowsLinked
  <2>. QED
    BY <1>2, <1>3, <2>1 DEF Leads
<1>5. /\ GapFirst(Append(wire[c], id))
      /\ WireLinked(table, Append(wire[c], id), cursor[c])
      /\ Before(Append(wire[c], id), cursor[c], Len(Append(wire[c], id)) + 1) = id
  <2>1. Leads(table, Before(wire[c], cursor[c], Len(wire[c]) + 1), id)
    BY <1>1, <1>4 DEF Chain, StreamLinked
  <2>. QED
    BY <1>3, <2>1, WireAppend DEF Chain
<1>6. RowsLinked(table', stream'[c])
  BY <1>1, <1>2, <1>3 DEF Chain, RowsLinked
<1>. QED
  BY <1>1, <1>5, <1>6 DEF Chain, StreamLinked

LEMMA ChainDispatch ==
  ASSUME TypeOK, NEW c \in Clients, Chain(c), Dispatch(c) PROVE Chain(c)'
<1>1. /\ wire[c] # << >> /\ wire'[c] = Tail(wire[c])
      /\ UNCHANGED <<stream, table>>
      /\ cursor'[c] = IF Head(wire[c]) = Gap THEN cursor[c] ELSE Head(wire[c])
  BY DEF Dispatch, TypeOK, server
<1>2. wire[c] \in Seq(Nat) /\ cursor[c] \in Nat
  BY ChainTypes
<1>3. /\ GapFirst(wire'[c])
      /\ WireLinked(table, wire'[c], cursor'[c])
      /\ Before(wire'[c], cursor'[c], Len(wire'[c]) + 1)
           = Before(wire[c], cursor[c], Len(wire[c]) + 1)
  BY <1>1, <1>2, WireTail DEF Chain
<1>. QED
  BY <1>1, <1>3 DEF Chain, StreamLinked

LEMMA ChainClosed ==
  ASSUME TypeOK, NEW c \in Clients, Chain(c),
         stream'[c] = Closed, wire'[c] = wire[c] \/ wire'[c] = << >>,
         UNCHANGED <<table, cursor>>
  PROVE  Chain(c)'
<1>1. StreamLinked(wire'[c], cursor'[c], stream'[c]) /\ RowsLinked(table', stream'[c])
  BY DEF StreamLinked, RowsLinked, Closed
<1>2. GapFirst(<< >>) /\ WireLinked(table, << >>, cursor[c])
  BY DEF GapFirst, WireLinked
<1>. QED
  BY <1>1, <1>2 DEF Chain

(* A step of one client leaves the chains of the others alone.             *)
LEMMA ChainOther ==
  ASSUME TypeOK, NEW c \in Clients, NEW d \in Clients, c # d, Chain(d),
         Open(c) \/ Poll(c) \/ Send(c) \/ Dispatch(c) \/ Drop(c) \/ Finish(c)
  PROVE  Chain(d)'
<1>1. UNCHANGED <<stream[d], wire[d], cursor[d], table>>
  BY DEF Open, Poll, Send, SendRow, Dispatch, Drop, Finish, TypeOK, server, client
<1>. QED
  BY <1>1 DEF Chain

LEMMA ChainStep ==
  ASSUME TypeOK, [Next]_vars, NEW d \in Resuming, Chain(d)
  PROVE  Chain(d)'
<1>1. d \in Clients
  BY DEF Resuming
<1>2. CASE AppendEvent
  BY <1>1, <1>2, ChainTable DEF AppendEvent, client
<1>3. CASE TrimEvents
  <2>1. table' \subseteq table
    BY <1>3 DEF TrimEvents, Trimmed
  <2>. QED
    BY <1>1, <1>3, <2>1, ChainTable DEF TrimEvents, client
<1>4. CASE Kill
  <2>1. stream'[d] = Closed /\ UNCHANGED <<table, cursor, wire>>
    BY <1>1, <1>4 DEF Kill, client
  <2>. QED
    BY <1>1, <2>1, ChainClosed
<1>5. ASSUME NEW c \in Clients,
             Open(c) \/ Poll(c) \/ Send(c) \/ Dispatch(c) \/ Drop(c) \/ Finish(c)
      PROVE  Chain(d)'
  <2>1. CASE c # d
    BY <1>1, <1>5, <2>1, ChainOther
  <2>2. CASE c = d /\ (Drop(d) \/ Finish(d))
    <3>1. /\ stream'[d] = Closed
          /\ wire'[d] = wire[d] \/ wire'[d] = << >>
          /\ UNCHANGED <<table, cursor>>
      BY <1>1, <2>2 DEF Drop, Finish, TypeOK, server, client
    <3>. QED
      BY <1>1, <3>1, ChainClosed
  <2>. QED
    BY <1>1, <1>5, <2>1, <2>2, ChainOpen, ChainPoll, ChainSend, ChainDispatch
<1>6. CASE Boot \/ UNCHANGED vars
  BY <1>6 DEF Boot, vars, client, Chain
<1>. QED
  BY <1>2, <1>3, <1>4, <1>5, <1>6 DEF Next

-----------------------------------------------------------------------------
(* Initial states map to initial states, and every step to a step of the   *)
(* feed or to a stutter.                                                   *)

LEMMA FeedInit == Init => Feed!Init
BY DEF Init, Feed!Init, Resuming

LEMMA FeedPublish ==
  ASSUME TypeOK, AppendEvent PROVE Feed!Publish
<1>1. seq' = seq + 1 /\ table' = table \cup {seq + 1} /\ cursor' = cursor
  BY DEF AppendEvent, client
<1>2. table \subseteq 1..seq /\ seq \in Nat
  BY DEF TypeOK
<1>3. (1..seq') \ table' = (1..seq) \ table
  BY <1>1, <1>2
<1>. QED
  BY <1>1, <1>3 DEF Feed!Publish

LEMMA FeedExpire ==
  ASSUME TypeOK, Contiguous', TrimEvents PROVE Feed!Expire
<1>1. seq' = seq /\ table' \subseteq table /\ cursor' = cursor /\ seq \in Nat
  BY DEF TrimEvents, Trimmed, client, TypeOK
<1>2. PICK lo \in 1..(seq + 1) : table' = lo..seq
  BY <1>1 DEF Contiguous
<1>3. (1..seq) \ table' = 1..(lo - 1) /\ lo - 1 \in 0..seq
  BY <1>1, <1>2
<1>4. (1..seq) \ table \subseteq 1..(lo - 1)
  BY <1>1, <1>3
<1>. QED
  BY <1>1, <1>3, <1>4 DEF Feed!Expire

LEMMA FeedGive ==
  ASSUME TypeOK, NEW c \in Clients, c \in Resuming => Chain(c), Dispatch(c)
  PROVE  Feed!Next \/ UNCHANGED Feed!vars
<1>. DEFINE id == Head(wire[c])
<1>1. UNCHANGED <<seq, table>>
  BY DEF Dispatch, server
<1>2. CASE c \notin Resuming \/ id = Gap
  <2>1. \A d \in Resuming : cursor'[d] = cursor[d]
    BY <1>2 DEF Dispatch, TypeOK, Resuming
  <2>. QED
    BY <1>1, <2>1 DEF Feed!vars
<1>3. CASE c \in Resuming /\ id # Gap
  <2>1. /\ wire[c] \in Seq(Nat) /\ wire[c] # << >> /\ seq \in Nat
        /\ \A n \in 1..Len(wire[c]) : wire[c][n] \in 0..seq
        /\ cursor[c] \in 0..seq
    BY ChainTypes DEF Dispatch
  <2>2. 1 \in 1..Len(wire[c]) /\ id = wire[c][1]
    BY <2>1, EmptySeq
  <2>3. Leads(table, cursor[c], id) /\ id \in 0..seq
    BY <1>3, <2>1, <2>2 DEF Chain, WireLinked, Before
  <2>4. id \in (cursor[c] + 1)..seq /\ (cursor[c] + 1)..(id - 1) \subseteq (1..seq) \ table
    BY <2>1, <2>3 DEF Leads
  <2>5. [d \in Resuming |-> cursor'[d]]
          = [[d \in Resuming |-> cursor[d]] EXCEPT ![c] = id]
    BY <1>3 DEF Dispatch, TypeOK, Resuming
  <2>6. Feed!Give(c)
    BY <1>1, <1>3, <2>4, <2>5 DEF Feed!Give
  <2>. QED
    BY <1>3, <2>6 DEF Feed!Next
<1>. QED
  BY <1>2, <1>3

LEMMA FeedStep ==
  ASSUME TypeOK, Contiguous', \A c \in Resuming : Chain(c), [Next]_vars
  PROVE  [Feed!Next]_(Feed!vars)
<1>1. CASE AppendEvent
  BY <1>1, FeedPublish DEF Feed!Next
<1>2. CASE TrimEvents
  BY <1>2, FeedExpire DEF Feed!Next
<1>3. ASSUME NEW c \in Clients, Dispatch(c)  PROVE [Feed!Next]_(Feed!vars)
  BY <1>3, FeedGive
<1>4. CASE UNCHANGED <<seq, table, cursor>>
  BY <1>4 DEF Feed!vars
<1>5. ASSUME NEW c \in Clients, Open(c) \/ Poll(c) \/ Send(c) \/ Drop(c) \/ Finish(c)
      PROVE  UNCHANGED <<seq, table, cursor>>
  BY <1>5 DEF Open, Poll, Send, SendRow, Drop, Finish, server, client
<1>6. Kill \/ Boot \/ UNCHANGED vars => UNCHANGED <<seq, table, cursor>>
  BY DEF Kill, Boot, vars, client
<1>. QED
  BY <1>1, <1>2, <1>3, <1>4, <1>5, <1>6 DEF Next

LEMMA FeedAlways == Spec => []FeedInv
<1>1. Init => FeedInv
  BY TypeInit, BufferInit, ChainInit DEF FeedInv
<1>2. FeedInv /\ [Next]_vars => FeedInv'
  <2>. SUFFICES ASSUME FeedInv, [Next]_vars PROVE FeedInv'
    OBVIOUS
  <2>1. TypeOK' /\ BufferInv'
    BY TypeStep, BufferStep DEF FeedInv
  <2>2. (\A c \in Resuming : Chain(c))'
    BY ChainStep DEF FeedInv, Resuming
  <2>. QED
    BY <2>1, <2>2 DEF FeedInv
<1>. QED
  BY <1>1, <1>2, PTL DEF Spec

(* The polled, batched, trimmed and interrupted path from the events table *)
(* to a resuming page implements the feed: it delivers in order, at most   *)
(* once, and skips only what has left the buffer.                          *)
THEOREM StreamImplementsFeed == Spec => FeedSpec
<1>1. FeedInv /\ FeedInv' /\ [Next]_vars => [Feed!Next]_(Feed!vars)
  BY FeedStep DEF FeedInv, BufferInv
<1>. QED
  BY <1>1, FeedAlways, FeedInit, PTL DEF Spec, FeedSpec, Feed!Spec

-----------------------------------------------------------------------------
(* No silent gap.  The frames a page was given and those under way to it   *)
(* form one story; what it leaves out was trimmed behind the stream's      *)
(* back.  That needs to know what the next frame may leave out: what an    *)
(* open stream has still to read is there, fetched, or trimmed meanwhile.  *)

Given(c, n) ==
  IF n <= Len(heard[c]) THEN heard[c][n] ELSE wire[c][n - Len(heard[c])]

Count(c) == Len(heard[c]) + Len(wire[c])

Excused(c) == \A n \in 1..(Count(c) - 1) :
  Given(c, n) # Gap /\ Given(c, n + 1) # Gap =>
    \A i \in (Given(c, n) + 1)..(Given(c, n + 1) - 1) : i \in missed[c]

Stock(c) == table \cup stream[c].rows

(* After an event the stream misses nothing but what is excused ...        *)
NextExcused(c) ==
  stream[c].at # "closed" /\ Count(c) > 0 /\ Given(c, Count(c)) # Gap =>
    /\ stream[c].last = Given(c, Count(c))
    /\ \A i \in (stream[c].last + 1)..seq : i \in Stock(c) \cup missed[c]

(* ... and after a gap nothing beyond the first row it finds.              *)
RestExcused(c) ==
  stream[c].at # "closed" =>
    \A i \in (stream[c].last + 1)..seq : \A j \in (stream[c].last + 1)..(i - 1) :
      j \in Stock(c) => i \in Stock(c) \cup missed[c]

CursorHeard(c) ==
  LET n == Len(heard[c]) IN n > 0 /\ heard[c][n] # Gap => cursor[c] = heard[c][n]

Story(c) == Excused(c) /\ NextExcused(c) /\ RestExcused(c) /\ CursorHeard(c)

LEMMA StoryTypes ==
  ASSUME TypeOK, NEW c \in Clients
  PROVE  /\ Len(heard[c]) \in Nat /\ Len(wire[c]) \in Nat /\ Count(c) \in Nat
         /\ heard[c] \in Seq(0..seq)
         /\ \A n \in 1..Len(heard[c]) : heard[c][n] \in 0..seq
         /\ \A n \in 1..Count(c) : Given(c, n) \in 0..seq
         /\ missed[c] \subseteq 1..seq
<1>1. /\ heard[c] \in Seq(0..seq) /\ wire[c] \in Seq(0..seq)
      /\ missed[c] \subseteq 1..seq
  BY DEF TypeOK
<1>2. Len(heard[c]) \in Nat /\ Len(wire[c]) \in Nat
  BY <1>1, LenProperties
<1>3. /\ \A n \in 1..Len(heard[c]) : heard[c][n] \in 0..seq
      /\ \A n \in 1..Len(wire[c]) : wire[c][n] \in 0..seq
  BY <1>1, ElementOfSeq
<1>. DEFINE h == Len(heard[c])
            w == Len(wire[c])
<1>. HIDE DEF h, w
<1>4. Count(c) = h + w /\ h \in Nat /\ w \in Nat
  BY <1>2 DEF Count, h, w
<1>5. Count(c) \in Nat
  BY <1>4
<1>6. ASSUME NEW n \in 1..Count(c)  PROVE Given(c, n) \in 0..seq
  <2>1. n \in 1..h \/ (n - h \in 1..w /\ ~ (n <= h))
    BY <1>4
  <2>2. CASE n \in 1..h
    <3>1. n <= h
      BY <1>4, <2>2
    <3>. QED
      BY <1>3, <2>2, <3>1 DEF Given, h
  <2>3. CASE n - h \in 1..w /\ ~ (n <= h)
    BY <1>3, <2>3 DEF Given, h, w
  <2>. QED
    BY <2>1, <2>2, <2>3
<1>. QED
  BY <1>1, <1>2, <1>3, <1>5, <1>6

LEMMA StoryLengths ==
  ASSUME TypeOK, NEW c \in Clients
  PROVE  \E h, w \in Nat : h = Len(heard[c]) /\ w = Len(wire[c]) /\ Count(c) = h + w
BY StoryTypes DEF Count

LEMMA StoryInit == Init => \A c \in Resuming : Story(c)
<1>. SUFFICES ASSUME Init, NEW c \in Resuming  PROVE Story(c)
  OBVIOUS
<1>1. heard[c] = << >> /\ wire[c] = << >> /\ stream[c] = Closed
  BY DEF Init, Resuming
<1>2. Len(heard[c]) = 0 /\ Count(c) = 0 /\ stream[c].at = "closed"
  BY <1>1 DEF Count, Closed
<1>. QED
  BY <1>2 DEF Story, Excused, NextExcused, RestExcused, CursorHeard

LEMMA StoryAppend ==
  ASSUME TypeOK, NEW c \in Clients, Story(c), AppendEvent
  PROVE  Story(c)'
<1>1. /\ seq' = seq + 1 /\ table' = table \cup {seq + 1}
      /\ UNCHANGED <<stream, wire, heard, cursor, missed>> /\ seq \in Nat
      /\ stream[c].last \in 0..seq
  BY ChainTypes DEF AppendEvent, client
<1>2. /\ Excused(c)' /\ CursorHeard(c)'
      /\ \A n : Given(c, n)' = Given(c, n) /\ Count(c)' = Count(c)
  BY <1>1 DEF Story, Excused, CursorHeard, Given, Count
<1>3. Stock(c)' = Stock(c) \cup {seq + 1}
  BY <1>1 DEF Stock
<1>4. NextExcused(c)'
  BY <1>1, <1>2, <1>3 DEF Story, NextExcused
<1>5. RestExcused(c)'
  BY <1>1, <1>3 DEF Story, RestExcused
<1>. QED
  BY <1>2, <1>4, <1>5 DEF Story

(* What the trim takes from an open stream is excused at that moment.      *)
LEMMA StoryTrim ==
  ASSUME TypeOK, NEW c \in Clients, Story(c), TrimEvents
  PROVE  Story(c)'
<1>1. /\ table' \subseteq table
      /\ UNCHANGED <<seq, stream, wire, heard, cursor>>
      /\ missed'[c] = missed[c] \cup MissedBy(c, table \ table')
  BY DEF TrimEvents, Trimmed, client
<1>2. /\ CursorHeard(c)' /\ Count(c)' = Count(c)
      /\ \A n : Given(c, n)' = Given(c, n)
  BY <1>1 DEF Story, CursorHeard, Given, Count
<1>3. Excused(c)'
  BY <1>1, <1>2 DEF Story, Excused
<1>4. ASSUME stream[c].at # "closed", NEW i \in (stream[c].last + 1)..seq,
             i \in Stock(c) \cup missed[c]
      PROVE  i \in (Stock(c) \cup missed[c])'
  <2>1. stream[c].last \in Nat /\ seq \in Nat
    BY ChainTypes
  <2>2. i > stream[c].last
    BY <1>4, <2>1
  <2>. QED
    BY <1>1, <1>4, <2>2 DEF MissedBy, Stock
<1>5. NextExcused(c)'
  BY <1>1, <1>2, <1>4 DEF Story, NextExcused
<1>6. RestExcused(c)'
  <2>1. Stock(c)' \subseteq Stock(c)
    BY <1>1 DEF Stock
  <2>. QED
    BY <1>1, <1>4, <2>1 DEF Story, RestExcused
<1>. QED
  BY <1>2, <1>3, <1>5, <1>6 DEF Story

(* A connection that is let through without a gap frame has everything     *)
(* after its cursor before it.                                             *)
LEMMA NothingBefore ==
  ASSUME TypeOK, BufferInv, EventBuffer > 0, NEW cur \in 1..seq, ~GapBefore(cur)
  PROVE  (cur + 1)..seq \subseteq table
<1>1. PICK lo \in 1..(seq + 1) : table = lo..seq
  BY DEF BufferInv, Contiguous
<1>2. seq \in Nat /\ cur \in Nat /\ cur > 0 /\ seq > 0 /\ EventBuffer \in Nat
  BY BufferAssumption DEF TypeOK
<1>3. seq \in table
  BY <1>2 DEF BufferInv, RetainsLatest
<1>4. lo \in table
  BY <1>1, <1>2, <1>3
<1>5. Least(table) = lo
  <2>1. table \in SUBSET Nat /\ table # {}
    BY <1>3 DEF TypeOK
  <2>2. Least(table) \in table /\ \A j \in table : Least(table) <= j
    BY <2>1, LeastExists
  <2>. QED
    BY <1>1, <1>2, <1>4, <2>2
<1>6. lo <= cur + 1
  BY <1>1, <1>2, <1>3, <1>5 DEF GapBefore, MinEventId
<1>. QED
  BY <1>1, <1>2, <1>6

LEMMA StoryOpen ==
  ASSUME TypeOK, BufferInv, EventBuffer > 0, NEW c \in Resuming, Story(c), Open(c)
  PROVE  Story(c)'
<1>1. c \in Clients /\ wire[c] = << >> /\ InitialLastId(c) = cursor[c]
  BY DEF Open, Resuming, InitialLastId
<1>2. /\ stream'[c] = [at |-> "poll", last |-> cursor[c], rows |-> {}]
      /\ wire'[c] = IF GapBefore(cursor[c]) THEN <<Gap>> ELSE << >>
      /\ UNCHANGED <<seq, table, cursor, heard, missed>>
  BY <1>1 DEF Open, TypeOK, client, server
<1>3. /\ Len(heard[c]) \in Nat /\ cursor[c] \in 0..seq /\ seq \in Nat
      /\ \A n \in 1..Len(heard[c]) : heard[c][n] \in 0..seq
  BY <1>1, StoryTypes, ChainTypes
<1>4. Count(c) = Len(heard[c]) /\ \A n \in 1..Len(heard[c]) : Given(c, n) = heard[c][n]
  BY <1>1, <1>3 DEF Count, Given
<1>5. \A n \in 1..Len(heard[c]) : Given(c, n)' = Given(c, n)
  BY <1>2, <1>3, <1>4 DEF Given
<1>6. CursorHeard(c)'
  BY <1>2 DEF Story, CursorHeard
<1>7. RestExcused(c)'
  <2>1. PICK lo \in 1..(seq + 1) : table = lo..seq
    BY DEF BufferInv, Contiguous
  <2>2. Stock(c)' = lo..seq
    BY <1>2, <2>1 DEF Stock
  <2>. QED
    BY <1>2, <1>3, <2>1, <2>2 DEF RestExcused
<1>8. CASE GapBefore(cursor[c])
  <2>0. PICK n \in Nat : n = Len(heard[c]) /\ Count(c) = n /\ Len(heard'[c]) = n
    BY <1>2, <1>3, <1>4
  <2>1. Len(wire'[c]) = 1 /\ wire'[c][1] = Gap
    BY <1>2, <1>8
  <2>2. Count(c)' = n + 1 /\ Given(c, n + 1)' = Gap
    BY <2>0, <2>1 DEF Count, Given
  <2>3. NextExcused(c)'
    BY <2>0, <2>2 DEF NextExcused
  <2>4. Excused(c)'
    <3>. SUFFICES ASSUME NEW m \in 1..n, Given(c, m)' # Gap, Given(c, m + 1)' # Gap,
                         NEW i \in (Given(c, m)' + 1)..(Given(c, m + 1)' - 1)
                  PROVE  i \in missed'[c]
      BY <2>0, <2>2 DEF Excused
    <3>1. m \in 1..(n - 1) /\ m + 1 \in 1..n
      BY <2>0, <2>2
    <3>2. Given(c, m)' = Given(c, m) /\ Given(c, m + 1)' = Given(c, m + 1)
      BY <1>5, <2>0, <3>1
    <3>. QED
      BY <1>2, <2>0, <3>1, <3>2 DEF Story, Excused
  <2>. QED
    BY <1>6, <1>7, <2>3, <2>4 DEF Story
<1>9. CASE ~GapBefore(cursor[c])
  <2>1. wire'[c] = wire[c]
    BY <1>1, <1>2, <1>9
  <2>2. Count(c)' = Count(c) /\ \A n : Given(c, n)' = Given(c, n)
    BY <1>2, <2>1 DEF Count, Given
  <2>3. Excused(c)'
    BY <1>2, <2>2 DEF Story, Excused
  <2>4. ASSUME Count(c) > 0, Given(c, Count(c)) # Gap
        PROVE  /\ cursor[c] = Given(c, Count(c))
               /\ (cursor[c] + 1)..seq \subseteq table
    <3>1. Len(heard[c]) \in 1..Len(heard[c]) /\ Given(c, Count(c)) = heard[c][Len(heard[c])]
      BY <1>3, <1>4, <2>4
    <3>2. cursor[c] = heard[c][Len(heard[c])]
      BY <1>3, <2>4, <3>1 DEF Story, CursorHeard
    <3>3. cursor[c] \in 1..seq
      BY <1>3, <2>4, <3>1, <3>2 DEF Gap
    <3>. QED
      BY <1>9, <3>1, <3>2, <3>3, NothingBefore
  <2>5. NextExcused(c)'
    BY <1>2, <2>2, <2>4 DEF NextExcused, Stock
  <2>. QED
    BY <1>6, <1>7, <2>3, <2>5 DEF Story
<1>. QED
  BY <1>8, <1>9

LEMMA StoryPoll ==
  ASSUME TypeOK, NEW c \in Clients, Story(c), Poll(c)
  PROVE  Story(c)'
<1>1. /\ stream[c].at = "poll"
      /\ stream'[c] = [at |-> "send", last |-> stream[c].last,
                       rows |-> RowsAfter(table, stream[c].last, Batch)]
      /\ UNCHANGED <<seq, table, wire, heard, cursor, missed>>
  BY DEF Poll, Running, TypeOK, server, client
<1>2. stream[c].rows = {} /\ Stock(c)' = Stock(c)
  BY <1>1, ChainTypes DEF StreamTypeOK, Stock, RowsAfter
<1>3. /\ CursorHeard(c)' /\ Count(c)' = Count(c)
      /\ \A n : Given(c, n)' = Given(c, n)
  BY <1>1 DEF Story, CursorHeard, Given, Count
<1>4. Excused(c)'
  BY <1>1, <1>3 DEF Story, Excused
<1>5. NextExcused(c)' /\ RestExcused(c)'
  BY <1>1, <1>2, <1>3 DEF Story, NextExcused, RestExcused
<1>. QED
  BY <1>3, <1>4, <1>5 DEF Story

LEMMA StorySend ==
  ASSUME TypeOK, NEW c \in Clients, Chain(c), Story(c), Send(c)
  PROVE  Story(c)'
<1>0. PICK h \in Nat, w \in Nat : h = Len(heard[c]) /\ w = Len(wire[c]) /\ Count(c) = h + w
  BY StoryLengths
<1>. DEFINE id == Least(stream[c].rows)
<1>1. /\ wire'[c] = Append(wire[c], id) /\ stream[c].at = "send"
      /\ stream'[c].last = id /\ stream'[c].rows = stream[c].rows \ {id}
      /\ UNCHANGED <<seq, table, heard, cursor, missed>>
  BY DEF Send, SendRow, Running, TypeOK, server, client
<1>2. /\ id \in stream[c].rows /\ id \in (stream[c].last + 1)..seq
      /\ \A j \in stream[c].rows : id <= j
  BY <1>1, LeastRow
<1>. HIDE DEF id
<1>3. seq \in Nat /\ stream[c].last \in Nat /\ id \in Nat /\ id # Gap
  BY <1>2, ChainTypes DEF Gap
<1>4. PICK n \in Nat :
        /\ Count(c) = n /\ Count(c)' = n + 1
        /\ Given(c, n + 1)' = id /\ \A m \in 1..n : Given(c, m)' = Given(c, m)
  <2>1. PICK n \in Nat : n = h + w /\ n + 1 = h + (w + 1)
    OBVIOUS
  <2>2. /\ Len(wire'[c]) = w + 1 /\ wire'[c][w + 1] = id
        /\ \A m \in 1..w : wire'[c][m] = wire[c][m]
        /\ heard'[c] = heard[c]
    <3>1. wire[c] \in Seq(Nat)
      BY ChainTypes
    <3>. QED
      BY <1>0, <1>1, <1>3, <3>1, AppendProperties
  <2>3. Count(c) = n /\ Count(c)' = n + 1
    BY <1>0, <2>1, <2>2 DEF Count
  <2>4. ~ (n + 1 <= h) /\ (n + 1) - h = w + 1
    BY <2>1
  <2>5. Given(c, n + 1)' = id
    BY <1>0, <2>2, <2>4 DEF Given
  <2>6. ASSUME NEW m \in 1..n  PROVE Given(c, m)' = Given(c, m)
    <3>1. CASE m <= h
      BY <1>0, <2>2, <3>1 DEF Given
    <3>2. CASE ~ (m <= h)
      <4>1. m - h \in 1..w
        BY <2>1, <3>2
      <4>2. Given(c, m)' = wire'[c][m - h] /\ Given(c, m) = wire[c][m - h]
        BY <1>0, <2>2, <3>2 DEF Given
      <4>. QED
        BY <2>2, <4>1, <4>2
    <3>. QED
      BY <3>1, <3>2
  <2>. QED
    BY <2>3, <2>5, <2>6
<1>5. Stock(c) = Stock(c)' \cup {id}
  BY <1>1, <1>2 DEF Stock
<1>6. CursorHeard(c)'
  BY <1>1 DEF Story, CursorHeard
<1>7. \A i \in (id + 1)..seq : i \in (Stock(c) \cup missed[c])'
  <2>. SUFFICES ASSUME NEW i \in (id + 1)..seq  PROVE i \in Stock(c) \cup missed[c]
    BY <1>1, <1>3, <1>5
  <2>1. i \in (stream[c].last + 1)..seq /\ id \in (stream[c].last + 1)..(i - 1)
    BY <1>2, <1>3
  <2>. QED
    BY <1>1, <1>2, <2>1 DEF Story, RestExcused, Stock
<1>8. NextExcused(c)' /\ RestExcused(c)'
  <2>1. stream'[c].last = id /\ seq' = seq
    BY <1>1
  <2>2. NextExcused(c)'
    BY <1>4, <1>7, <2>1 DEF NextExcused
  <2>. QED
    BY <1>7, <2>1, <2>2 DEF RestExcused
<1>9. Excused(c)'
  <2>. SUFFICES ASSUME NEW m \in 1..n, Given(c, m)' # Gap, Given(c, m + 1)' # Gap,
                       NEW i \in (Given(c, m)' + 1)..(Given(c, m + 1)' - 1)
                PROVE  i \in missed[c]
    BY <1>1, <1>4 DEF Excused
  <2>1. CASE m \in 1..(n - 1)
    <3>1. m + 1 \in 1..n
      BY <1>4, <2>1
    <3>. QED
      BY <1>4, <2>1, <3>1 DEF Story, Excused
  <2>2. CASE m = n
    <3>1. /\ stream[c].last = Given(c, n)
          /\ \A k \in (stream[c].last + 1)..seq : k \in Stock(c) \cup missed[c]
      BY <1>1, <1>4, <2>2 DEF Story, NextExcused
    <3>2. i \in (stream[c].last + 1)..(id - 1) /\ i \in (stream[c].last + 1)..seq
      <4>1. Given(c, m)' = stream[c].last /\ Given(c, m + 1)' = id
        BY <1>4, <2>2, <3>1
      <4>2. i \in (stream[c].last + 1)..(id - 1)
        BY <4>1
      <4>. QED
        BY <1>2, <1>3, <4>2
    <3>3. i \notin stream[c].rows
      BY <1>2, <1>3, <3>2
    <3>4. i \notin table
      BY <1>2, <3>2, <3>3 DEF Chain, RowsLinked
    <3>. QED
      BY <3>1, <3>2, <3>3, <3>4 DEF Stock
  <2>. QED
    BY <1>4, <2>1, <2>2
<1>. QED
  BY <1>6, <1>8, <1>9 DEF Story

(* A frame that is dispatched stays where it is in the story.              *)
LEMMA StoryDispatch ==
  ASSUME TypeOK, NEW c \in Clients, Story(c), Dispatch(c)
  PROVE  Story(c)'
<1>0. PICK h \in Nat, w \in Nat : h = Len(heard[c]) /\ w = Len(wire[c]) /\ Count(c) = h + w
  BY StoryLengths
<1>1. /\ wire[c] # << >> /\ wire'[c] = Tail(wire[c])
      /\ heard'[c] = Append(heard[c], Head(wire[c]))
      /\ cursor'[c] = IF Head(wire[c]) = Gap THEN cursor[c] ELSE Head(wire[c])
      /\ UNCHANGED <<seq, table, stream, missed>>
  BY DEF Dispatch, TypeOK, server
<1>2. /\ w > 0 /\ Head(wire[c]) = wire[c][1]
      /\ Len(wire'[c]) = w - 1 /\ \A m \in 1..(w - 1) : wire'[c][m] = wire[c][m + 1]
      /\ Len(heard'[c]) = h + 1 /\ heard'[c][h + 1] = wire[c][1]
      /\ \A m \in 1..h : heard'[c][m] = heard[c][m]
  <2>1. wire[c] \in Seq(0..seq) /\ heard[c] \in Seq(0..seq)
    BY StoryTypes, ChainTypes
  <2>2. w > 0 /\ Head(wire[c]) = wire[c][1]
    BY <1>0, <1>1, <2>1, EmptySeq
  <2>3. Head(wire[c]) \in 0..seq
    BY <1>1, <2>1, HeadTailProperties
  <2>4. Len(wire'[c]) = w - 1 /\ \A m \in 1..(w - 1) : wire'[c][m] = wire[c][m + 1]
    BY <1>0, <1>1, <2>1, HeadTailProperties
  <2>. QED
    BY <1>0, <1>1, <2>1, <2>2, <2>3, <2>4, AppendProperties
<1>3. PICK n \in Nat : Count(c) = n /\ Count(c)' = n /\ n = h + w
  <2>1. (h + 1) + (w - 1) = h + w
    OBVIOUS
  <2>2. Count(c)' = (h + 1) + (w - 1)
    BY <1>2 DEF Count
  <2>3. h + w \in Nat
    OBVIOUS
  <2>. QED
    BY <1>0, <2>1, <2>2, <2>3
<1>4. ASSUME NEW m \in 1..n  PROVE Given(c, m)' = Given(c, m)
  <2>1. CASE m \in 1..h
    <3>1. m <= h /\ m <= h + 1
      BY <2>1
    <3>. QED
      BY <1>0, <1>2, <2>1, <3>1 DEF Given
  <2>2. CASE m = h + 1
    <3>1. ~ (m <= h) /\ m - h = 1 /\ m <= h + 1
      BY <2>2
    <3>. QED
      BY <1>0, <1>2, <2>2, <3>1 DEF Given
  <2>3. CASE m \notin 1..(h + 1)
    <3>1. /\ ~ (m <= h) /\ ~ (m <= h + 1)
          /\ m - (h + 1) \in 1..(w - 1) /\ (m - (h + 1)) + 1 = m - h
      BY <1>3, <2>3
    <3>2. Given(c, m)' = wire'[c][m - (h + 1)] /\ Given(c, m) = wire[c][m - h]
      BY <1>0, <1>2, <3>1 DEF Given
    <3>. QED
      BY <1>2, <3>1, <3>2
  <2>. QED
    BY <2>1, <2>2, <2>3
<1>5. Excused(c)'
  <2>1. \A m \in 1..(n - 1) : m \in 1..n /\ m + 1 \in 1..n
    OBVIOUS
  <2>. QED
    BY <1>1, <1>3, <1>4, <2>1 DEF Story, Excused
<1>6. NextExcused(c)' /\ RestExcused(c)'
  <2>1. Stock(c)' = Stock(c)
    BY <1>1 DEF Stock
  <2>2. n > 0 => n \in 1..n
    OBVIOUS
  <2>. QED
    BY <1>1, <1>3, <1>4, <2>1, <2>2 DEF Story, NextExcused, RestExcused
<1>7. CursorHeard(c)'
  BY <1>1, <1>2 DEF CursorHeard
<1>. QED
  BY <1>5, <1>6, <1>7 DEF Story

LEMMA StoryClosed ==
  ASSUME TypeOK, NEW c \in Clients, Story(c),
         stream'[c] = Closed, wire'[c] = wire[c] \/ wire'[c] = << >>,
         UNCHANGED <<cursor, heard, missed>>
  PROVE  Story(c)'
<1>1. NextExcused(c)' /\ RestExcused(c)' /\ CursorHeard(c)'
  BY DEF Story, NextExcused, RestExcused, CursorHeard, Closed
<1>2. PICK h \in Nat, w \in Nat : h = Len(heard[c]) /\ w = Len(wire[c]) /\ Count(c) = h + w
  BY StoryLengths
<1>3. CASE wire'[c] = wire[c]
  <2>1. Count(c)' = Count(c) /\ \A n : Given(c, n)' = Given(c, n)
    BY <1>3 DEF Count, Given
  <2>. QED
    BY <1>1, <2>1 DEF Story, Excused
<1>4. CASE wire'[c] = << >>
  <2>1. Count(c)' = h
    BY <1>2, <1>4 DEF Count
  <2>2. \A n \in 1..h : Given(c, n)' = Given(c, n)
    BY <1>2 DEF Given
  <2>3. \A n \in 1..(h - 1) : n \in 1..h /\ n + 1 \in 1..h /\ n \in 1..(h + w - 1)
    OBVIOUS
  <2>4. PICK k \in Nat : k = Count(c) /\ k = h + w
    <3>1. h + w \in Nat
      OBVIOUS
    <3>. QED
      BY <1>2, <3>1
  <2>5. \A n \in 1..(h - 1) : Given(c, n)' = Given(c, n) /\ Given(c, n + 1)' = Given(c, n + 1)
    BY <2>2, <2>3
  <2>6. \A n \in 1..(h - 1) : n \in 1..(k - 1)
    BY <2>4
  <2>7. Excused(c)'
    BY <2>1, <2>4, <2>5, <2>6 DEF Story, Excused
  <2>. QED
    BY <1>1, <2>7 DEF Story
<1>. QED
  BY <1>3, <1>4

LEMMA StoryOther ==
  ASSUME TypeOK, NEW c \in Clients, NEW d \in Clients, c # d, Story(d),
         Open(c) \/ Poll(c) \/ Send(c) \/ Dispatch(c) \/ Drop(c) \/ Finish(c)
  PROVE  Story(d)'
<1>1. /\ stream'[d] = stream[d] /\ wire'[d] = wire[d] /\ cursor'[d] = cursor[d]
      /\ heard'[d] = heard[d] /\ UNCHANGED <<seq, table, missed>>
  BY DEF Open, Poll, Send, SendRow, Dispatch, Drop, Finish, TypeOK, server, client
<1>2. Count(d)' = Count(d) /\ \A n : Given(d, n)' = Given(d, n)
  BY <1>1 DEF Count, Given
<1>. QED
  BY <1>1, <1>2 DEF Story, Excused, NextExcused, RestExcused, CursorHeard, Stock

LEMMA StoryStep ==
  ASSUME FeedInv, EventBuffer > 0, [Next]_vars, NEW d \in Resuming, Story(d)
  PROVE  Story(d)'
<1>1. d \in Clients /\ TypeOK /\ BufferInv /\ Chain(d)
  BY DEF Resuming, FeedInv
<1>2. CASE AppendEvent \/ TrimEvents
  BY <1>1, <1>2, StoryAppend, StoryTrim
<1>3. CASE Kill
  <2>1. stream'[d] = Closed /\ UNCHANGED <<cursor, heard, missed, wire>>
    BY <1>1, <1>3 DEF Kill, client
  <2>. QED
    BY <1>1, <2>1, StoryClosed
<1>4. ASSUME NEW c \in Clients,
             Open(c) \/ Poll(c) \/ Send(c) \/ Dispatch(c) \/ Drop(c) \/ Finish(c)
      PROVE  Story(d)'
  <2>1. CASE c # d
    BY <1>1, <1>4, <2>1, StoryOther
  <2>2. CASE c = d /\ (Drop(d) \/ Finish(d))
    <3>1. /\ stream'[d] = Closed
          /\ wire'[d] = wire[d] \/ wire'[d] = << >>
          /\ UNCHANGED <<cursor, heard, missed>>
      BY <1>1, <2>2 DEF Drop, Finish, TypeOK, client
    <3>. QED
      BY <1>1, <3>1, StoryClosed
  <2>. QED
    BY <1>1, <1>4, <2>1, <2>2, StoryOpen, StoryPoll, StorySend, StoryDispatch
<1>5. CASE Boot \/ UNCHANGED vars
  <2>1. UNCHANGED <<seq, table, stream, wire, cursor, heard, missed>>
    BY <1>5 DEF Boot, vars, client
  <2>2. Count(d)' = Count(d) /\ \A n : Given(d, n)' = Given(d, n)
    BY <2>1 DEF Count, Given
  <2>. QED
    BY <2>1, <2>2 DEF Story, Excused, NextExcused, RestExcused, CursorHeard, Stock
<1>. QED
  BY <1>2, <1>3, <1>4, <1>5 DEF Next

LEMMA StoryTells ==
  ASSUME TypeOK, NEW c \in Clients, Story(c)
  PROVE  SilentlySkipped(c) \subseteq missed[c]
<1>. SUFFICES ASSUME NEW i \in 1..seq, NEW n \in 1..(Len(heard[c]) - 1),
                     heard[c][n] # Gap, heard[c][n + 1] # Gap,
                     heard[c][n] < i, i < heard[c][n + 1]
              PROVE  i \in missed[c]
  BY DEF SilentlySkipped
<1>1. PICK h \in Nat, w \in Nat : h = Len(heard[c]) /\ w = Len(wire[c]) /\ Count(c) = h + w
  BY StoryLengths
<1>2. n \in 1..h /\ n + 1 \in 1..h /\ n \in 1..(Count(c) - 1)
  <2>1. n \in 1..(h - 1)
    BY <1>1
  <2>2. PICK k \in Nat : k = Count(c) /\ k = h + w
    <3>1. h + w \in Nat
      OBVIOUS
    <3>. QED
      BY <1>1, <3>1
  <2>3. n \in 1..h /\ n + 1 \in 1..h /\ n \in 1..(k - 1)
    BY <2>1, <2>2
  <2>. QED
    BY <2>2, <2>3
<1>3. Given(c, n) = heard[c][n] /\ Given(c, n + 1) = heard[c][n + 1]
  BY <1>1, <1>2 DEF Given
<1>4. Given(c, n) \in 0..seq /\ Given(c, n + 1) \in 0..seq /\ seq \in Nat
  BY <1>1, <1>2, <1>3, StoryTypes, ChainTypes
<1>5. i \in (Given(c, n) + 1)..(Given(c, n + 1) - 1)
  BY <1>3, <1>4
<1>6. Given(c, n) # Gap /\ Given(c, n + 1) # Gap
  BY <1>3
<1>. QED
  BY <1>2, <1>5, <1>6 DEF Story, Excused

(* A page that resumes is told of every gap, but for rows trimmed behind   *)
(* the back of its own open stream (sse.py:63-69).                         *)
THEOREM GapsAlwaysTold == Spec => []GapsTold
<1>. DEFINE StoryInv == EventBuffer > 0 => \A c \in Resuming : Story(c)
<1>1. Init => StoryInv
  BY StoryInit
<1>2. FeedInv /\ StoryInv /\ [Next]_vars => StoryInv'
  BY StoryStep DEF Resuming
<1>3. FeedInv /\ StoryInv => GapsTold
  BY StoryTells DEF FeedInv, GapsTold, Resuming
<1>. HIDE DEF StoryInv
<1>. QED
  BY <1>1, <1>2, <1>3, FeedAlways, PTL DEF Spec

-----------------------------------------------------------------------------
(* No false gap.  A gap frame on the wire is ahead of all others, and the  *)
(* event it stands for comes right after the last one that was heard.      *)

TrueGap(c, n) ==
  \E m \in 1..(n - 1) : /\ heard[c][m] # Gap
                        /\ \A k \in (m + 1)..n : heard[c][k] = Gap
                        /\ heard[c][m] + 1 \in (1..seq) \ table

LastHeard(c) ==
  cursor[c] > 0 => \E m \in 1..Len(heard[c]) :
                     /\ heard[c][m] = cursor[c]
                     /\ \A k \in (m + 1)..Len(heard[c]) : heard[c][k] = Gap

GapPending(c) ==
  wire[c] # << >> /\ Head(wire[c]) = Gap =>
    cursor[c] > 0 /\ cursor[c] + 1 \in (1..seq) \ table

Honest(c) == /\ \A n \in 1..Len(heard[c]) : heard[c][n] = Gap => TrueGap(c, n)
             /\ LastHeard(c) /\ GapPending(c)

(* What is gone from the table does not come back.                         *)
LEMMA HonestTable ==
  ASSUME TypeOK, NEW c \in Clients, Honest(c),
         table' \subseteq table \cup {seq + 1}, seq' \in {seq, seq + 1},
         heard'[c] = heard[c], cursor'[c] = cursor[c],
         wire'[c] = wire[c] \/ wire'[c] = << >>
  PROVE  Honest(c)'
<1>1. (1..seq) \ table \subseteq (1..seq') \ table'
  BY DEF TypeOK
<1>2. ASSUME NEW n, TrueGap(c, n)  PROVE TrueGap(c, n)'
  BY <1>1, <1>2 DEF TrueGap
<1>3. LastHeard(c)' /\ GapPending(c)'
  BY <1>1 DEF Honest, LastHeard, GapPending
<1>. QED
  BY <1>2, <1>3 DEF Honest

LEMMA HonestOpen ==
  ASSUME TypeOK, NEW c \in Resuming, Honest(c), Open(c)
  PROVE  Honest(c)'
<1>1. c \in Clients /\ InitialLastId(c) = cursor[c]
  BY DEF Resuming, InitialLastId
<1>2. /\ wire'[c] = IF GapBefore(cursor[c]) THEN <<Gap>> ELSE << >>
      /\ UNCHANGED <<seq, table, cursor, heard>>
  BY <1>1 DEF Open, TypeOK, client, server
<1>3. GapPending(c)'
  <2>. SUFFICES ASSUME GapBefore(cursor[c])
                PROVE  cursor[c] > 0 /\ cursor[c] + 1 \in (1..seq) \ table
    BY <1>2 DEF GapPending
  <2>1. cursor[c] \in Nat /\ seq \in Nat /\ table \subseteq 1..seq /\ cursor[c] \in 0..seq
    BY <1>1 DEF TypeOK
  <2>2. cursor[c] > 0 /\ table # {} /\ cursor[c] < Least(table) - 1
    BY DEF GapBefore, MinEventId
  <2>3. Least(table) \in table /\ \A j \in table : Least(table) <= j
    <3>1. table \in SUBSET Nat
      BY <2>1
    <3>. QED
      BY <2>2, <3>1, LeastExists
  <2>4. PICK lo \in table : lo = Least(table)
    BY <2>3
  <2>5. lo \in 1..seq /\ cursor[c] < lo - 1 /\ \A j \in table : lo <= j
    BY <2>1, <2>2, <2>3, <2>4
  <2>6. cursor[c] + 1 \in 1..seq /\ cursor[c] + 1 < lo
    BY <2>1, <2>5
  <2>7. cursor[c] + 1 \notin table
    BY <2>5, <2>6
  <2>. QED
    BY <2>2, <2>6, <2>7
<1>4. LastHeard(c)' /\ \A n : TrueGap(c, n) => TrueGap(c, n)'
  BY <1>2 DEF Honest, TrueGap, LastHeard
<1>. QED
  BY <1>2, <1>3, <1>4 DEF Honest

(* Rows have ids, so a row sent is no gap.                                 *)
LEMMA HonestSend ==
  ASSUME TypeOK, NEW c \in Clients, Honest(c), Send(c)
  PROVE  Honest(c)'
<1>1. PICK id \in stream[c].rows : wire'[c] = Append(wire[c], id)
  <2>1. stream[c].at = "send" /\ stream[c].rows # {} /\ stream[c].rows \in SUBSET Nat
    BY ChainTypes DEF Send, Running, StreamTypeOK
  <2>2. Least(stream[c].rows) \in stream[c].rows
    BY <2>1, LeastExists
  <2>3. wire'[c] = Append(wire[c], Least(stream[c].rows))
    BY DEF Send, SendRow, TypeOK
  <2>. QED
    BY <2>2, <2>3
<1>2. UNCHANGED <<seq, table, cursor, heard>>
  BY DEF Send, SendRow, client, server
<1>3. id # Gap /\ wire[c] \in Seq(Nat) /\ id \in Nat
  BY <1>1, ChainTypes DEF Gap
<1>4. GapPending(c)'
  <2>1. CASE wire[c] = << >>
    <3>1. Head(wire'[c]) = id
      BY <1>1, <2>1
    <3>. QED
      BY <1>3, <3>1 DEF GapPending
  <2>2. CASE wire[c] # << >>
    <3>1. Head(wire'[c]) = Head(wire[c])
      BY <1>1, <1>3, <2>2
    <3>. QED
      BY <1>2, <2>2, <3>1 DEF Honest, GapPending
  <2>. QED
    BY <2>1, <2>2
<1>. QED
  BY <1>2, <1>4 DEF Honest, TrueGap, LastHeard

LEMMA HonestDispatch ==
  ASSUME TypeOK, NEW c \in Clients, Chain(c), Honest(c), Dispatch(c)
  PROVE  Honest(c)'
<1>1. PICK f, h : f = Head(wire[c]) /\ h = Len(heard[c])
  OBVIOUS
<1>2. /\ wire[c] # << >> /\ wire'[c] = Tail(wire[c])
      /\ heard'[c] = Append(heard[c], f)
      /\ cursor'[c] = IF f = Gap THEN cursor[c] ELSE f
      /\ UNCHANGED <<seq, table>>
  BY <1>1 DEF Dispatch, TypeOK, server
<1>3. /\ wire[c] \in Seq(Nat) /\ f \in 0..seq /\ h \in Nat /\ heard[c] \in Seq(0..seq)
      /\ cursor[c] \in Nat /\ seq \in Nat
  <2>1. wire[c] \in Seq(0..seq)
    BY ChainTypes
  <2>2. f \in 0..seq
    BY <1>1, <1>2, <2>1, HeadTailProperties
  <2>. QED
    BY <1>1, <2>2, ChainTypes, StoryTypes
<1>4. /\ Len(heard'[c]) = h + 1 /\ heard'[c][h + 1] = f
      /\ \A m \in 1..h : heard'[c][m] = heard[c][m]
  BY <1>1, <1>2, <1>3, AppendProperties
<1>5. ASSUME NEW n \in 1..h, heard[c][n] = Gap  PROVE TrueGap(c, n)'
  <2>1. PICK m \in 1..(n - 1) : /\ heard[c][m] # Gap
                                /\ \A k \in (m + 1)..n : heard[c][k] = Gap
                                /\ heard[c][m] + 1 \in (1..seq) \ table
    BY <1>1, <1>5 DEF Honest, TrueGap
  <2>2. m \in 1..h /\ \A k \in (m + 1)..n : k \in 1..h
    BY <1>3
  <2>. QED
    BY <1>2, <1>4, <2>1, <2>2 DEF TrueGap
<1>6. CASE f = Gap
  <2>1. cursor[c] > 0 /\ cursor[c] + 1 \in (1..seq) \ table
    BY <1>1, <1>2, <1>6 DEF Honest, GapPending
  <2>2. PICK m \in 1..h : heard[c][m] = cursor[c] /\ \A k \in (m + 1)..h : heard[c][k] = Gap
    BY <1>1, <2>1 DEF Honest, LastHeard
  <2>3. m \in 1..(h + 1) /\ heard'[c][m] = cursor[c] /\ cursor[c] # Gap
    <3>1. m \in 1..(h + 1)
      BY <1>3
    <3>2. heard'[c][m] = cursor[c]
      BY <1>4, <2>2
    <3>3. cursor[c] # Gap
      BY <1>3, <2>1 DEF Gap
    <3>. QED
      BY <3>1, <3>2, <3>3
  <2>4. \A k \in (m + 1)..(h + 1) : heard'[c][k] = Gap
    <3>. SUFFICES ASSUME NEW k \in (m + 1)..(h + 1)  PROVE heard'[c][k] = Gap
      OBVIOUS
    <3>1. CASE k = h + 1
      BY <1>4, <1>6, <3>1
    <3>2. CASE k # h + 1
      <4>1. k \in (m + 1)..h /\ k \in 1..h
        BY <1>3, <3>2
      <4>. QED
        BY <1>4, <2>2, <4>1
    <3>. QED
      BY <3>1, <3>2
  <2>5. LastHeard(c)'
    BY <1>2, <1>4, <1>6, <2>3, <2>4 DEF LastHeard
  <2>6. TrueGap(c, h + 1)'
    <3>1. m \in 1..((h + 1) - 1)
      BY <1>3
    <3>. QED
      BY <1>2, <2>1, <2>3, <2>4, <3>1 DEF TrueGap
  <2>7. GapPending(c)'
    <3>1. ASSUME Tail(wire[c]) # << >>  PROVE Head(Tail(wire[c])) # Gap
      <4>1. 2 \in 1..Len(wire[c]) /\ Head(Tail(wire[c])) = wire[c][2]
        BY <1>2, <1>3, <3>1
      <4>. QED
        BY <4>1 DEF Chain, GapFirst
    <3>. QED
      BY <1>2, <3>1 DEF GapPending
  <2>8. ASSUME NEW n \in 1..(h + 1), heard'[c][n] = Gap  PROVE TrueGap(c, n)'
    <3>1. n = h + 1 \/ n \in 1..h
      BY <1>3
    <3>. QED
      BY <1>4, <1>5, <2>6, <2>8, <3>1
  <2>. QED
    BY <1>4, <2>5, <2>7, <2>8 DEF Honest
<1>7. CASE f # Gap
  <2>1. LastHeard(c)'
    <3>1. h + 1 \in 1..(h + 1) /\ \A k \in (h + 1 + 1)..(h + 1) : FALSE
      BY <1>3
    <3>. QED
      BY <1>2, <1>4, <1>7, <3>1 DEF LastHeard
  <2>2. GapPending(c)'
    <3>1. ASSUME Tail(wire[c]) # << >>  PROVE Head(Tail(wire[c])) # Gap
      <4>1. 2 \in 1..Len(wire[c]) /\ Head(Tail(wire[c])) = wire[c][2]
        BY <1>2, <1>3, <3>1
      <4>. QED
        BY <4>1 DEF Chain, GapFirst
    <3>. QED
      BY <1>2, <3>1 DEF GapPending
  <2>3. ASSUME NEW n \in 1..(h + 1), heard'[c][n] = Gap  PROVE TrueGap(c, n)'
    <3>1. n \in 1..h
      BY <1>3, <1>4, <1>7, <2>3
    <3>. QED
      BY <1>4, <1>5, <2>3, <3>1
  <2>. QED
    BY <1>4, <2>1, <2>2, <2>3 DEF Honest
<1>. QED
  BY <1>6, <1>7

LEMMA HonestStep ==
  ASSUME FeedInv, [Next]_vars, NEW d \in Resuming, Honest(d)
  PROVE  Honest(d)'
<1>1. d \in Clients /\ TypeOK /\ Chain(d)
  BY DEF Resuming, FeedInv
<1>2. CASE AppendEvent \/ TrimEvents \/ Kill \/ Boot \/ UNCHANGED vars
  <2>1. /\ UNCHANGED <<wire, heard, cursor>> /\ seq' \in {seq, seq + 1}
        /\ table' \subseteq table \cup {seq + 1}
    BY <1>2 DEF AppendEvent, TrimEvents, Trimmed, Kill, Boot, vars, client
  <2>. QED
    BY <1>1, <2>1, HonestTable
<1>3. ASSUME NEW c \in Clients,
             Open(c) \/ Poll(c) \/ Send(c) \/ Dispatch(c) \/ Drop(c) \/ Finish(c)
      PROVE  Honest(d)'
  <2>1. CASE c # d \/ Poll(c) \/ Drop(c) \/ Finish(c)
    <3>1. /\ heard'[d] = heard[d] /\ cursor'[d] = cursor[d] /\ UNCHANGED <<seq, table>>
          /\ wire'[d] = wire[d] \/ wire'[d] = << >>
      BY <1>1, <1>3, <2>1 DEF Open, Poll, Send, SendRow, Dispatch, Drop, Finish, TypeOK,
         server, client
    <3>. QED
      BY <1>1, <3>1, HonestTable
  <2>2. CASE c = d /\ (Open(c) \/ Send(c) \/ Dispatch(c))
    BY <1>1, <2>2, HonestOpen, HonestSend, HonestDispatch
  <2>. QED
    BY <1>3, <2>1, <2>2
<1>. QED
  BY <1>2, <1>3 DEF Next

(* A page that resumes is told of no gap that is none (sse.py:63-69).      *)
THEOREM GapsAlwaysTrue == Spec => []GapsTrue
<1>. DEFINE HonestInv == \A c \in Resuming : Honest(c)
<1>1. Init => HonestInv
  BY DEF Init, Resuming, Honest, LastHeard, GapPending
<1>2. FeedInv /\ HonestInv /\ [Next]_vars => HonestInv'
  BY HonestStep DEF Resuming
<1>3. ASSUME FeedInv, HonestInv  PROVE GapsTrue
  <2>1. ASSUME NEW c \in Resuming  PROVE DOMAIN heard[c] = 1..Len(heard[c])
    <3>1. heard[c] \in Seq(0..seq)
      BY <1>3, <2>1 DEF FeedInv, TypeOK, Resuming
    <3>. QED
      BY <3>1, LenProperties
  <2>2. ASSUME NEW c \in Resuming, NEW n \in DOMAIN heard[c], heard[c][n] = Gap
        PROVE  TrueGap(c, n)
    BY <1>3, <2>1, <2>2 DEF Honest
  <2>. QED
    BY <2>2 DEF GapsTrue, TrueGap
<1>. HIDE DEF HonestInv
<1>. QED
  BY <1>1, <1>2, <1>3, FeedAlways, PTL DEF Spec
=============================================================================
