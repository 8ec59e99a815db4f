------------------------- MODULE SlidingWindowProofs ------------------------
(***************************************************************************)
(* The limiter admits no burst and decides like the policy on the complete *)
(* history, up to the clock's error, for every set of clients, quota,      *)
(* window, error and bound on time.                                        *)
(***************************************************************************)
EXTENDS SlidingWindow, EventTableProofs, SequenceTheorems

-----------------------------------------------------------------------------
(* The purge.                                                              *)

(* The loop stops: at the first time that is not stale, or at the end.     *)
LEMMA LoopEnds ==
  ASSUME NEW b \in Seq(Int), NEW cutoff \in Int
  PROVE  Stale(b, cutoff) \in 0..Len(b) /\ LoopStops(b, cutoff, Stale(b, cutoff))
<1>. DEFINE fresh == {m \in 1..Len(b) : b[m] >= cutoff}
<1>1. Len(b) \in Nat /\ \A m \in 1..Len(b) : b[m] \in Int
  BY LenProperties, ElementOfSeq
<1>2. \E n \in 0..Len(b) : LoopStops(b, cutoff, n)
  <2>1. CASE fresh = {}
    <3>1. Len(b) \in 0..Len(b) /\ LoopStops(b, cutoff, Len(b))
      BY <1>1, <2>1 DEF LoopStops
    <3>. QED
      BY <3>1
  <2>2. CASE fresh # {}
    <3>1. Least(fresh) \in fresh /\ \A j \in fresh : Least(fresh) <= j
      <4>1. fresh \in SUBSET Nat
        BY <1>1
      <4>. QED
        BY <2>2, <4>1, LeastExists
    <3>. DEFINE first == Least(fresh)
    <3>2. first \in 1..Len(b) /\ b[first] >= cutoff
      BY <3>1
    <3>. HIDE DEF first
    <3>3. ASSUME NEW i \in 1..(first - 1)  PROVE b[i] < cutoff
      <4>1. i \in 1..Len(b) /\ i < first /\ i \in Int /\ first \in Int
        BY <1>1, <3>2, <3>3
      <4>2. ~ (b[i] >= cutoff)
        BY <3>1, <4>1 DEF first
      <4>3. b[i] \in Int
        BY <1>1, <4>1
      <4>. QED
        BY <4>2, <4>3
    <3>4. first - 1 \in 0..Len(b) /\ (first - 1) + 1 = first
      BY <1>1, <3>2
    <3>5. LoopStops(b, cutoff, first - 1)
      BY <3>2, <3>3, <3>4 DEF LoopStops
    <3>. QED
      BY <3>4, <3>5
  <2>. QED
    BY <2>1, <2>2
<1>. QED
  BY <1>2 DEF Stale

-----------------------------------------------------------------------------
(* The queue b of a client whose asks were admitted at the times g: b is   *)
(* the end of g as the clock read it, all that b has lost is out of the    *)
(* window at time t, and Limit admissions take more than a window, both up *)
(* to the clock's error.                                                   *)
Queue(g, b, t) ==
  /\ g \in Seq(Nat) /\ b \in Seq(Int)
  /\ Len(b) <= Len(g) /\ Len(b) <= Limit
  /\ \A i \in 1..Len(g) : g[i] <= t
  /\ \A i, j \in 1..Len(g) : i <= j => g[i] <= g[j]
  /\ \A i \in 1..Len(b) : g[Len(g) - Len(b) + i] - b[i] \in 0..Skew
  /\ \A i \in 1..(Len(g) - Len(b)) : g[i] < t - Window + Skew
  /\ \A i, j \in 1..Len(g) : j = i + Limit => g[j] - g[i] > Window - Skew

LEMMA QueueEmpty == ASSUME NEW t \in Nat PROVE Queue(<< >>, << >>, t)
<1>1. << >> \in Seq(Nat) /\ << >> \in Seq(Int) /\ Len(<< >>) = 0
  BY EmptySeq
<1>. QED
  BY <1>1, LimitAssumption DEF Queue

(* Time only pushes more of the history out of the window.                 *)
LEMMA QueueWaits ==
  ASSUME NEW t \in Nat, NEW u \in Nat, t <= u, NEW g, NEW b, Queue(g, b, t)
  PROVE  Queue(g, b, u)
<1>1. g \in Seq(Nat) /\ b \in Seq(Int) /\ Len(g) \in Nat /\ Len(b) \in Nat
  BY LenProperties DEF Queue
<1>2. \A i \in 1..Len(g) : g[i] \in Nat
  BY <1>1, ElementOfSeq
<1>3. \A i \in 1..Len(g) : g[i] <= u
  BY <1>2 DEF Queue
<1>4. ASSUME NEW i \in 1..(Len(g) - Len(b))  PROVE g[i] < u - Window + Skew
  <2>1. i \in 1..Len(g) /\ g[i] < t - Window + Skew
    BY <1>1, <1>4 DEF Queue
  <2>2. g[i] \in Nat
    BY <1>2, <2>1
  <2>. QED
    BY <2>1, <2>2, WindowAssumption, SkewAssumption
<1>. QED
  BY <1>3, <1>4 DEF Queue

(* The purge at the clock reading w drops times only that are out of the   *)
(* window, and leaves no stale one in front.                               *)
LEMMA QueuePurged ==
  ASSUME NEW t \in Nat, NEW w \in Int, t - w \in 0..Skew,
         NEW g, NEW b, Queue(g, b, t)
  PROVE  /\ Queue(g, Purged(b, w - Window), t)
         /\ Len(Purged(b, w - Window)) > 0 => Purged(b, w - Window)[1] >= w - Window
<1>. DEFINE cutoff == w - Window
            n == Stale(b, cutoff)
            p == Purged(b, cutoff)
<1>1. /\ g \in Seq(Nat) /\ b \in Seq(Int) /\ Len(g) \in Nat /\ Len(b) \in Nat
      /\ Len(b) <= Len(g) /\ Len(b) <= Limit /\ cutoff \in Int
  BY LenProperties, WindowAssumption DEF Queue
<1>2. (\A i \in 1..Len(g) : g[i] \in Nat) /\ (\A i \in 1..Len(b) : b[i] \in Int)
  BY <1>1, ElementOfSeq
<1>3. n \in 0..Len(b) /\ LoopStops(b, cutoff, n)
  BY <1>1, LoopEnds
<1>0. cutoff = w - Window
  OBVIOUS
<1>. HIDE DEF n, cutoff
<1>4. p = SubSeq(b, n + 1, Len(b))
  BY DEF Purged, n, cutoff
<1>. HIDE DEF p
<1>5. /\ p \in Seq(Int) /\ Len(p) = Len(b) - n
      /\ \A i \in 1..Len(p) : p[i] = b[n + i]
  <2>1. n + 1 \in Int /\ Len(b) \in Int /\ \A i \in (n + 1)..Len(b) : b[i] \in Int
    BY <1>1, <1>2, <1>3
  <2>2. /\ p \in Seq(Int)
        /\ Len(p) = IF n + 1 <= Len(b) THEN Len(b) - (n + 1) + 1 ELSE 0
        /\ \A i \in 1..(Len(b) - (n + 1) + 1) : p[i] = b[(n + 1) + i - 1]
    BY <2>1, <1>4, SubSeqProperties
  <2>3. Len(p) = Len(b) - n
    BY <1>1, <1>3, <2>2
  <2>4. ASSUME NEW i \in 1..Len(p)  PROVE p[i] = b[n + i]
    <3>1. i \in 1..(Len(b) - (n + 1) + 1) /\ (n + 1) + i - 1 = n + i
      BY <1>1, <1>3, <2>3
    <3>. QED
      BY <2>2, <3>1
  <2>. QED
    BY <2>2, <2>3, <2>4
<1>6. ASSUME NEW i \in 1..Len(p)  PROVE g[Len(g) - Len(p) + i] - p[i] \in 0..Skew
  <2>1. n + i \in 1..Len(b) /\ Len(g) - Len(b) + (n + i) = Len(g) - Len(p) + i
    BY <1>1, <1>3, <1>5, <1>6
  <2>2. g[Len(g) - Len(b) + (n + i)] - b[n + i] \in 0..Skew
    BY <2>1 DEF Queue
  <2>. QED
    BY <1>5, <1>6, <2>1, <2>2
<1>7. ASSUME NEW i \in 1..(Len(g) - Len(p))  PROVE g[i] < t - Window + Skew
  <2>1. CASE i <= Len(g) - Len(b)
    <3>1. i \in 1..(Len(g) - Len(b))
      BY <1>1, <1>7, <2>1
    <3>. QED
      BY <3>1 DEF Queue
  <2>2. CASE i > Len(g) - Len(b)
    <3>. DEFINE j == i - (Len(g) - Len(b))
    <3>0. /\ Len(g) \in Int /\ Len(b) \in Int /\ n \in Int /\ i \in Int
          /\ n <= Len(b) /\ i <= Len(g) - (Len(b) - n)
      BY <1>1, <1>3, <1>5, <1>7
    <3>1. j \in 1..n /\ j \in 1..Len(b) /\ Len(g) - Len(b) + j = i /\ i \in 1..Len(g)
      BY <1>7, <2>2, <3>0, <1>1
    <3>. HIDE DEF j
    <3>2. g[i] - b[j] \in 0..Skew
      BY <3>1 DEF Queue
    <3>3. b[j] < cutoff
      BY <1>3, <3>1 DEF LoopStops
    <3>4. g[i] \in Int /\ b[j] \in Int
      BY <1>2, <3>1
    <3>. QED
      BY <1>0, <3>2, <3>3, <3>4, WindowAssumption, SkewAssumption
  <2>. QED
    BY <1>1, <1>7, <2>1, <2>2
<1>8. ASSUME Len(p) > 0  PROVE p[1] >= cutoff
  <2>0. Len(b) \in Nat /\ n \in Nat /\ Len(p) \in Nat
    <3>1. Len(b) \in Nat
      BY <1>1
    <3>2. n \in Nat
      BY <1>3, <3>1
    <3>3. Len(p) \in Nat
      BY <1>5
    <3>. QED
      BY <3>1, <3>2, <3>3
  <2>1. 1 \in 1..Len(p) /\ n < Len(b)
    <3>1. Len(p) = Len(b) - n
      BY <1>5
    <3>. QED
      BY <1>8, <2>0, <3>1
  <2>2. b[n + 1] >= cutoff
    BY <1>3, <2>1 DEF LoopStops
  <2>. QED
    BY <1>5, <2>1, <2>2
<1>9. Queue(g, p, t)
  <2>1. Len(p) <= Len(g) /\ Len(p) <= Limit
    BY <1>1, <1>3, <1>5, LimitAssumption
  <2>. QED
    BY <1>5, <1>6, <1>7, <2>1 DEF Queue
<1>. QED
  BY <1>8, <1>9 DEF p, cutoff

(* A queue with room takes the new admission: the one Limit places before  *)
(* it is no longer in the queue, hence out of the window.                  *)
LEMMA QueueAdmits ==
  ASSUME NEW t \in Nat, NEW w \in Int, t - w \in 0..Skew,
         NEW g, NEW p, Queue(g, p, t), Len(p) < Limit
  PROVE  Queue(Append(g, t), Append(p, w), t)
<1>. DEFINE h == Append(g, t)
            q == Append(p, w)
<1>1. /\ g \in Seq(Nat) /\ p \in Seq(Int) /\ Len(g) \in Nat /\ Len(p) \in Nat
      /\ Len(p) <= Len(g) /\ Limit \in Nat /\ Window \in Nat /\ Skew \in Nat
  BY LenProperties, LimitAssumption, WindowAssumption, SkewAssumption DEF Queue
<1>2. /\ h \in Seq(Nat) /\ Len(h) = Len(g) + 1 /\ h[Len(g) + 1] = t
      /\ \A i \in 1..Len(g) : h[i] = g[i]
  BY <1>1, AppendProperties
<1>3. /\ q \in Seq(Int) /\ Len(q) = Len(p) + 1 /\ q[Len(p) + 1] = w
      /\ \A i \in 1..Len(p) : q[i] = p[i]
  BY <1>1, AppendProperties
<1>4. \A i \in 1..Len(g) : g[i] \in Nat
  BY <1>1, ElementOfSeq
<1>. HIDE DEF h, q
<1>5. ASSUME NEW i \in 1..Len(h)  PROVE i \in 1..Len(g) \/ i = Len(g) + 1
  BY <1>1, <1>2, <1>5
<1>6. ASSUME NEW i \in 1..Len(h)  PROVE h[i] <= t
  <2>1. CASE i \in 1..Len(g)
    BY <1>2, <2>1 DEF Queue
  <2>2. CASE i = Len(g) + 1
    BY <1>2, <2>2
  <2>. QED
    BY <1>5, <1>6, <2>1, <2>2
<1>7. ASSUME NEW i \in 1..Len(h), NEW j \in 1..Len(h), i <= j  PROVE h[i] <= h[j]
  <2>1. CASE j = Len(g) + 1
    BY <1>2, <1>6, <1>7, <2>1
  <2>2. CASE j \in 1..Len(g)
    <3>1. i \in 1..Len(g)
      BY <1>1, <1>2, <1>7, <2>2
    <3>2. g[i] <= g[j]
      BY <1>7, <2>2, <3>1 DEF Queue
    <3>. QED
      BY <1>2, <2>2, <3>1, <3>2
  <2>. QED
    BY <1>5, <1>7, <2>1, <2>2
<1>8. ASSUME NEW i \in 1..Len(q)  PROVE h[Len(h) - Len(q) + i] - q[i] \in 0..Skew
  <2>1. CASE i \in 1..Len(p)
    <3>1. Len(h) - Len(q) + i = Len(g) - Len(p) + i /\ Len(g) - Len(p) + i \in 1..Len(g)
      BY <1>1, <1>2, <1>3, <2>1
    <3>2. g[Len(g) - Len(p) + i] - p[i] \in 0..Skew
      BY <2>1 DEF Queue
    <3>. QED
      BY <1>2, <1>3, <2>1, <3>1, <3>2
  <2>2. CASE i = Len(p) + 1
    <3>1. Len(h) - Len(q) + i = Len(g) + 1
      BY <1>1, <1>2, <1>3, <2>2
    <3>. QED
      BY <1>2, <1>3, <2>2, <3>1
  <2>. QED
    BY <1>1, <1>3, <1>8, <2>1, <2>2
<1>9. ASSUME NEW i \in 1..(Len(h) - Len(q))  PROVE h[i] < t - Window + Skew
  <2>1. i \in 1..(Len(g) - Len(p)) /\ i \in 1..Len(g)
    <3>1. Len(h) - Len(q) = Len(g) - Len(p)
      BY <1>1, <1>2, <1>3
    <3>2. i \in 1..(Len(g) - Len(p))
      BY <1>9, <3>1
    <3>. QED
      BY <1>1, <3>2
  <2>2. g[i] < t - Window + Skew
    BY <2>1 DEF Queue
  <2>. QED
    BY <1>2, <2>1, <2>2
<1>10. ASSUME NEW i \in 1..Len(h), NEW j \in 1..Len(h), j = i + Limit
       PROVE  h[j] - h[i] > Window - Skew
  <2>1. CASE j \in 1..Len(g)
    <3>1. i \in 1..Len(g)
      BY <1>1, <1>2, <1>10, <2>1
    <3>2. g[j] - g[i] > Window - Skew
      BY <1>10, <2>1, <3>1 DEF Queue
    <3>. QED
      BY <1>2, <2>1, <3>1, <3>2
  <2>2. CASE j = Len(g) + 1
    <3>1. i \in 1..(Len(h) - Len(q)) /\ i \in 1..Len(g)
      <4>1. Len(h) - Len(q) = Len(g) - Len(p)
        BY <1>1, <1>2, <1>3
      <4>2. i \in Int /\ 1 <= i /\ i = Len(g) + 1 - Limit
        BY <1>1, <1>10, <2>2
      <4>3. 1 <= i /\ i <= Len(g) - Len(p) /\ i <= Len(g)
        BY <1>1, <4>2
      <4>. QED
        BY <1>1, <4>1, <4>2, <4>3
    <3>2. h[i] < t - Window + Skew /\ h[j] = t
      BY <1>2, <1>9, <2>2, <3>1
    <3>3. h[i] \in Nat
      BY <1>2, <1>4, <3>1
    <3>. QED
      BY <1>1, <3>2, <3>3
  <2>. QED
    BY <1>5, <1>10, <2>1, <2>2
<1>11. Len(q) <= Len(h) /\ Len(q) <= Limit
  BY <1>1, <1>2, <1>3
<1>12. Queue(h, q, t)
  BY <1>2, <1>3, <1>6, <1>7, <1>8, <1>9, <1>10, <1>11 DEF Queue
<1>. QED
  BY <1>12 DEF h, q

LEMMA LastOnes ==
  ASSUME NEW m \in Nat, NEW n \in Nat, n <= m
  PROVE  IsFiniteSet((m - n + 1)..m) /\ Cardinality((m - n + 1)..m) = n
<1>1. m - n + 1 \in Int /\ m \in Int
  OBVIOUS
<1>2. /\ IsFiniteSet((m - n + 1)..m)
      /\ Cardinality((m - n + 1)..m) = IF m - n + 1 > m THEN 0 ELSE m - (m - n + 1) + 1
  BY <1>1, FS_Interval, Zenon
<1>. QED
  BY <1>2

(* Whatever is surely in the window is in the queue.                       *)
LEMMA QueueCountsAll ==
  ASSUME NEW t \in Nat, NEW g, NEW p, Queue(g, p, t)
  PROVE  Cardinality({i \in DOMAIN g : g[i] >= t - (Window - Skew)}) <= Len(p)
<1>. DEFINE d == Len(g) - Len(p)
            young == {i \in DOMAIN g : g[i] >= t - (Window - Skew)}
<1>1. /\ g \in Seq(Nat) /\ Len(g) \in Nat /\ Len(p) \in Nat /\ DOMAIN g = 1..Len(g)
      /\ Len(p) <= Len(g) /\ Window \in Nat /\ Skew \in Nat
  BY LenProperties, WindowAssumption, SkewAssumption DEF Queue
<1>2. young \subseteq (d + 1)..Len(g)
  <2>. SUFFICES ASSUME NEW i \in 1..Len(g), g[i] >= t - (Window - Skew), ~ (i > d)
                PROVE  FALSE
    BY <1>1
  <2>1. i \in 1..d
    BY <1>1
  <2>2. g[i] < t - Window + Skew
    BY <2>1 DEF Queue
  <2>3. g[i] \in Nat
    BY <1>1, ElementOfSeq
  <2>. QED
    BY <1>1, <2>2, <2>3
<1>3. Cardinality((d + 1)..Len(g)) = Len(p) /\ IsFiniteSet((d + 1)..Len(g))
  BY <1>1, LastOnes
<1>. HIDE DEF d, young
<1>4. Cardinality(young) <= Len(p)
  BY <1>2, <1>3, FS_Subset
<1>. QED
  BY <1>4 DEF young

(* Whatever is in a purged queue may be in the window.                     *)
LEMMA QueueCountsOnly ==
  ASSUME NEW t \in Nat, NEW w \in Int, t - w \in 0..Skew,
         NEW g, NEW p, Queue(g, p, t), Len(p) > 0 => p[1] >= w - Window
  PROVE  Cardinality({i \in DOMAIN g : g[i] >= t - (Window + Skew)}) >= Len(p)
<1>. DEFINE d == Len(g) - Len(p)
            old == {i \in DOMAIN g : g[i] >= t - (Window + Skew)}
<1>1. /\ g \in Seq(Nat) /\ p \in Seq(Int) /\ Len(g) \in Nat /\ Len(p) \in Nat
      /\ DOMAIN g = 1..Len(g) /\ Len(p) <= Len(g) /\ Window \in Nat /\ Skew \in Nat
  BY LenProperties, WindowAssumption, SkewAssumption DEF Queue
<1>2. (\A i \in 1..Len(g) : g[i] \in Nat) /\ (\A i \in 1..Len(p) : p[i] \in Int)
  BY <1>1, ElementOfSeq
<1>3. (d + 1)..Len(g) \subseteq old
  <2>. SUFFICES ASSUME NEW i \in (d + 1)..Len(g)  PROVE i \in 1..Len(g) /\ g[i] >= t - (Window + Skew)
    BY <1>1
  <2>1. /\ 1 \in 1..Len(p) /\ Len(p) > 0
        /\ d + 1 \in 1..Len(g) /\ i \in 1..Len(g) /\ d + 1 <= i
    BY <1>1
  <2>2. p[1] >= w - Window /\ g[d + 1] - p[1] \in 0..Skew /\ g[d + 1] <= g[i]
    BY <2>1 DEF Queue
  <2>3. g[d + 1] \in Int /\ p[1] \in Int /\ g[i] \in Int
    BY <1>2, <2>1
  <2>. HIDE DEF d
  <2>. QED
    BY <1>1, <2>1, <2>2, <2>3
<1>4. Cardinality((d + 1)..Len(g)) = Len(p) /\ IsFiniteSet((d + 1)..Len(g))
  BY <1>1, LastOnes
<1>5. IsFiniteSet(old)
  <2>1. old \subseteq 1..Len(g) /\ IsFiniteSet(1..Len(g))
    BY <1>1, FS_Interval
  <2>. QED
    BY <2>1, FS_Subset, Zenon
<1>. HIDE DEF d, old
<1>6. Cardinality(old) \in Nat /\ Cardinality((d + 1)..Len(g)) <= Cardinality(old)
  BY <1>3, <1>5, FS_Subset, FS_CardinalityType
<1>7. Cardinality(old) >= Len(p)
  BY <1>1, <1>4, <1>6
<1>. QED
  BY <1>7 DEF old

-----------------------------------------------------------------------------
(* The inductive invariant: NoBurst needs the whole of Queue, since what   *)
(* keeps the burst out is that a time the deque has lost is out of the     *)
(* window.                                                                 *)
LimiterInv == TypeOK /\ \A k \in Keys : Queue(granted[k], buckets[k], time)

LEMMA LimiterInit == Init => LimiterInv
<1>. SUFFICES ASSUME Init PROVE LimiterInv
  OBVIOUS
<1>1. << >> \in Seq(Nat) /\ << >> \in Seq(Int)
  BY EmptySeq
<1>2. Queue(<< >>, << >>, 0)
  BY QueueEmpty
<1>3. TypeOK
  BY <1>1, TimeAssumption DEF Init, TypeOK
<1>. QED
  BY <1>2, <1>3 DEF Init, LimiterInv

LEMMA LimiterTick == LimiterInv /\ Tick => LimiterInv'
<1>. SUFFICES ASSUME LimiterInv, Tick PROVE LimiterInv'
  OBVIOUS
<1>1. time \in Nat /\ time' \in Nat /\ time <= time' /\ time' \in 0..MaxTime
  BY TimeAssumption DEF LimiterInv, TypeOK, Tick
<1>2. ASSUME NEW k \in Keys  PROVE Queue(granted'[k], buckets'[k], time')
  <2>1. Queue(granted[k], buckets[k], time) /\ granted' = granted /\ buckets' = buckets
    BY DEF LimiterInv, Tick
  <2>2. Queue(granted[k], buckets[k], time')
    BY <1>1, <2>1, QueueWaits
  <2>. QED
    BY <2>1, <2>2
<1>3. TypeOK'
  BY <1>1 DEF LimiterInv, TypeOK, Tick
<1>. QED
  BY <1>2, <1>3 DEF LimiterInv

(* Setting the clock changes no reading that is in a queue.                *)
LEMMA LimiterSetClock == LimiterInv /\ SetClock => LimiterInv'
BY DEF LimiterInv, TypeOK, SetClock

LEMMA LimiterRestart == LimiterInv /\ Restart => LimiterInv'
<1>. SUFFICES ASSUME LimiterInv, Restart PROVE LimiterInv'
  OBVIOUS
<1>1. time \in Nat /\ time' = time
  BY DEF LimiterInv, TypeOK, Restart
<1>2. << >> \in Seq(Nat) /\ << >> \in Seq(Int) /\ Queue(<< >>, << >>, time)
  BY <1>1, EmptySeq, QueueEmpty
<1>3. TypeOK'
  BY <1>1, <1>2 DEF LimiterInv, TypeOK, Restart
<1>4. \A k \in Keys : granted'[k] = << >> /\ buckets'[k] = << >>
  BY DEF Restart
<1>. QED
  BY <1>1, <1>2, <1>3, <1>4 DEF LimiterInv

LEMMA LimiterAdmit ==
  ASSUME LimiterInv, NEW k \in Keys, NEW p, Queue(granted[k], p, time),
         Admit(k, p), UNCHANGED <<time, lag>>
  PROVE  LimiterInv'
<1>1. /\ time \in Nat /\ time' = time /\ Len(p) < Limit
      /\ buckets' = [buckets EXCEPT ![k] = Append(p, NowMs)]
      /\ granted' = [granted EXCEPT ![k] = Append(granted[k], time)]
      /\ verdict' = <<k, TRUE>>
      /\ buckets \in [Keys -> Seq(Int)] /\ granted \in [Keys -> Seq(Nat)]
  BY DEF Admit, LimiterInv, TypeOK
<1>2. NowMs \in Int /\ time - NowMs \in 0..Skew
  BY SkewAssumption DEF LimiterInv, TypeOK, NowMs
<1>3. Queue(Append(granted[k], time), Append(p, NowMs), time)
  BY <1>1, <1>2, QueueAdmits
<1>4. Append(granted[k], time) \in Seq(Nat) /\ Append(p, NowMs) \in Seq(Int)
  BY <1>3 DEF Queue
<1>5. TypeOK'
  <2>1. buckets' \in [Keys -> Seq(Int)] /\ granted' \in [Keys -> Seq(Nat)]
    BY <1>1, <1>4, Zenon
  <2>2. verdict' \in Keys \X BOOLEAN
    BY <1>1
  <2>. QED
    BY <1>1, <2>1, <2>2 DEF LimiterInv, TypeOK
<1>6. ASSUME NEW c \in Keys  PROVE Queue(granted'[c], buckets'[c], time')
  <2>1. CASE c = k
    BY <1>1, <1>3, <2>1
  <2>2. CASE c # k
    BY <1>1, <2>2 DEF LimiterInv
  <2>. QED
    BY <2>1, <2>2
<1>. QED
  BY <1>5, <1>6 DEF LimiterInv

LEMMA LimiterRefuse ==
  ASSUME LimiterInv, NEW k \in Keys, NEW p, Queue(granted[k], p, time),
         Refuse(k, p), UNCHANGED <<time, lag>>
  PROVE  LimiterInv'
<1>1. /\ time' = time /\ granted' = granted /\ verdict' = <<k, FALSE>>
      /\ buckets' = [buckets EXCEPT ![k] = p]
      /\ buckets \in [Keys -> Seq(Int)] /\ p \in Seq(Int)
  BY DEF Refuse, LimiterInv, TypeOK, Queue
<1>2. TypeOK'
  <2>1. buckets' \in [Keys -> Seq(Int)]
    BY <1>1, Zenon
  <2>. QED
    BY <1>1, <2>1 DEF LimiterInv, TypeOK
<1>3. ASSUME NEW c \in Keys  PROVE Queue(granted'[c], buckets'[c], time')
  <2>1. CASE c = k
    BY <1>1, <2>1
  <2>2. CASE c # k
    BY <1>1, <2>2 DEF LimiterInv
  <2>. QED
    BY <2>1, <2>2
<1>. QED
  BY <1>2, <1>3 DEF LimiterInv

(* What a call of allow works with: the queue as the purge leaves it.      *)
LEMMA AllowPurges ==
  ASSUME LimiterInv, NEW k \in Keys
  PROVE  LET p == Purged(buckets[k], NowMs - Window)
         IN  /\ time \in Nat /\ NowMs \in Int /\ time - NowMs \in 0..Skew
             /\ Queue(granted[k], p, time)
             /\ Len(p) > 0 => p[1] >= NowMs - Window
<1>1. time \in Nat /\ NowMs \in Int /\ time - NowMs \in 0..Skew
  BY SkewAssumption DEF LimiterInv, TypeOK, NowMs
<1>2. Queue(granted[k], buckets[k], time)
  BY DEF LimiterInv
<1>. QED
  BY <1>1, <1>2, QueuePurged

LEMMA LimiterStep == LimiterInv /\ [Next]_vars => LimiterInv'
<1>. SUFFICES ASSUME LimiterInv, [Next]_vars PROVE LimiterInv'
  OBVIOUS
<1>1. CASE Tick
  BY <1>1, LimiterTick
<1>2. CASE SetClock
  BY <1>2, LimiterSetClock
<1>3. CASE Restart
  BY <1>3, LimiterRestart
<1>4. ASSUME NEW k \in Keys, Allow(k)  PROVE LimiterInv'
  <2>. DEFINE p == Purged(buckets[k], NowMs - Window)
  <2>1. Queue(granted[k], p, time)
    BY AllowPurges
  <2>2. (Admit(k, p) \/ Refuse(k, p)) /\ UNCHANGED <<time, lag>>
    BY <1>4 DEF Allow
  <2>. HIDE DEF p
  <2>. QED
    BY <2>1, <2>2, LimiterAdmit, LimiterRefuse
<1>5. CASE UNCHANGED vars
  BY <1>5 DEF vars, LimiterInv, TypeOK
<1>. QED
  BY <1>1, <1>2, <1>3, <1>4, <1>5 DEF Next

LEMMA LimiterAlways == Spec => []LimiterInv
BY LimiterInit, LimiterStep, PTL DEF Spec

(* The limiter's state keeps its shape.                                    *)
THEOREM LimiterTypeCorrect == Spec => []TypeOK
<1>1. LimiterInv => TypeOK
  BY DEF LimiterInv
<1>. QED
  BY <1>1, LimiterAlways, PTL

(* No client ever gets more than Limit asks through in a window, up to the *)
(* clock's error, although rate_limit.py forgets an admission as soon as   *)
(* the clock says that it has left the window.                             *)
THEOREM NoBurstEver == Spec => []NoBurst
<1>1. LimiterInv => NoBurst
  <2>. SUFFICES ASSUME LimiterInv, NEW k \in Keys
                PROVE  \A i, j \in DOMAIN granted[k] :
                         j = i + Limit => granted[k][j] - granted[k][i] > Window - Skew
    BY DEF NoBurst
  <2>1. Queue(granted[k], buckets[k], time)
    BY DEF LimiterInv
  <2>2. granted[k] \in Seq(Nat) /\ DOMAIN granted[k] = 1..Len(granted[k])
    BY <2>1, LenProperties DEF Queue
  <2>. QED
    BY <2>1, <2>2 DEF Queue
<1>. QED
  BY <1>1, LimiterAlways, PTL

(* No client's queue ever outgrows the quota, wherever the clock is set    *)
(* (rate_limit.py:24).                                                     *)
THEOREM BucketsStayBounded == Spec => []BucketBounded
<1>1. LimiterInv => BucketBounded
  BY DEF LimiterInv, Queue, BucketBounded
<1>. QED
  BY <1>1, LimiterAlways, PTL

-----------------------------------------------------------------------------
(* Refinement.                                                             *)

(* The policy's Cardinality is the one of FiniteSets.                       *)
LEMMA PolicyCardinality == \A S : Policy!Cardinality(S) = Cardinality(S)
BY DEF Policy!Cardinality, Cardinality

LEMMA LimiterDecides ==
  ASSUME LimiterInv, NEW k \in Keys, Allow(k)
  PROVE  Policy!Grant(k) \/ Policy!Deny(k)
<1>. DEFINE p == Purged(buckets[k], NowMs - Window)
<1>1. /\ time \in Nat /\ NowMs \in Int /\ time - NowMs \in 0..Skew
      /\ Queue(granted[k], p, time) /\ (Len(p) > 0 => p[1] >= NowMs - Window)
  BY AllowPurges
<1>2. (Admit(k, p) \/ Refuse(k, p)) /\ UNCHANGED <<time, lag>>
  BY DEF Allow
<1>. HIDE DEF p
<1>3. Len(p) \in Nat /\ IsFiniteSet(DOMAIN granted[k])
  <2>1. granted[k] \in Seq(Nat) /\ p \in Seq(Int)
    BY <1>1 DEF Queue
  <2>2. Len(p) \in Nat /\ Len(granted[k]) \in Nat /\ DOMAIN granted[k] = 1..Len(granted[k])
    BY <2>1, LenProperties
  <2>. QED
    BY <2>2, FS_Interval
<1>4. ASSUME NEW w  PROVE Policy!Granted(k, w) \in Nat
  <2>1. IsFiniteSet({i \in DOMAIN granted[k] : granted[k][i] >= time - w})
    BY <1>3, FS_Subset, Zenon
  <2>. QED
    BY <2>1, FS_CardinalityType, PolicyCardinality DEF Policy!Granted
<1>5. CASE Admit(k, p)
  <2>1. Policy!Granted(k, Window - Skew) <= Len(p)
    BY <1>1, QueueCountsAll, PolicyCardinality DEF Policy!Granted
  <2>2. Policy!Granted(k, Window - Skew) < Limit
    BY <1>3, <1>4, <1>5, <2>1, LimitAssumption DEF Admit
  <2>. QED
    BY <1>2, <1>5, <2>2 DEF Admit, Policy!Grant
<1>6. CASE Refuse(k, p)
  <2>1. Policy!Granted(k, Window + Skew) >= Len(p)
    BY <1>1, QueueCountsOnly, PolicyCardinality DEF Policy!Granted
  <2>2. Policy!Granted(k, Window + Skew) >= Limit
    BY <1>3, <1>4, <1>6, <2>1, LimitAssumption DEF Refuse
  <2>. QED
    BY <1>2, <1>6, <2>2 DEF Refuse, Policy!Deny
<1>. QED
  BY <1>2, <1>5, <1>6

LEMMA LimiterStepIsPolicy == LimiterInv /\ [Next]_vars => [Policy!Next]_Policy!vars
<1>. SUFFICES ASSUME LimiterInv, [Next]_vars PROVE [Policy!Next]_Policy!vars
  OBVIOUS
<1>1. CASE Tick
  <2>1. time' \in Nat /\ time' > time
    BY <1>1 DEF Tick, LimiterInv, TypeOK
  <2>. QED
    BY <1>1, <2>1 DEF Tick, Policy!Next, Policy!Tick
<1>2. CASE SetClock
  BY <1>2 DEF SetClock, Policy!vars
<1>3. CASE Restart
  BY <1>3 DEF Restart, Policy!Next, Policy!Forget, NoVerdict, Policy!NoVerdict
<1>4. ASSUME NEW k \in Keys, Allow(k)  PROVE Policy!Next
  BY <1>4, LimiterDecides DEF Policy!Next
<1>5. CASE UNCHANGED vars
  BY <1>5 DEF vars, Policy!vars
<1>. QED
  BY <1>1, <1>2, <1>3, <1>4, <1>5 DEF Next

(* The queue that rate_limit.py purges lazily answers every ask as         *)
(* counting the complete history on true time would, up to the clock's     *)
(* error.                                                                  *)
THEOREM LimiterImplementsPolicy == Spec => PolicySpec
<1>1. Init => Policy!Init
  BY DEF Init, Policy!Init, NoVerdict, Policy!NoVerdict
<1>. QED
  BY <1>1, LimiterAlways, LimiterStepIsPolicy, PTL DEF Spec, PolicySpec, Policy!Spec
=============================================================================
