---------------------------- MODULE SlidingWindow ---------------------------
(***************************************************************************)
(* The rate limiter of POST /api/requests (server/ai_aid/rate_limit.py):   *)
(* one deque of admission times per client id, purged from the left when   *)
(* the client asks again.  A call of allow() runs under a lock, so it is   *)
(* one action.  The queues live in memory: a restart empties them.         *)
(*                                                                         *)
(* The clock is time.time(), the wall clock.  It runs with true time but   *)
(* may be set back and forth (NTP, a resumed machine, an operator), as     *)
(* long as its readings stay within Skew of each other's truth: it is      *)
(* behind by `lag`, at most Skew.  So the times in a queue need not be in  *)
(* order, and some may lie in the clock's future.                          *)
(***************************************************************************)
EXTENDS Integers, Sequences

CONSTANTS Keys, Limit, Window, Skew,
          MaxTime  \* bound on true time

ASSUME LimitAssumption  == Limit \in Nat
ASSUME WindowAssumption == Window \in Nat
ASSUME SkewAssumption   == Skew \in Nat
ASSUME TimeAssumption   == MaxTime \in Nat

VARIABLES time,     \* true time
          lag,      \* how far the clock is behind it
          buckets,  \* self._buckets: clock readings
          granted,  \* ghost: the true time of every admission since the start
          verdict   \* what the last call of allow returned, and for whom

vars == <<time, lag, buckets, granted, verdict>>

NoVerdict == << >>

NowMs == time - lag

-----------------------------------------------------------------------------
(* `while bucket and bucket[0] < cutoff: popleft`: the loop stops after n  *)
(* rounds when the first n times are stale and the next one is not.        *)
LoopStops(b, cutoff, n) == /\ \A i \in 1..n : b[i] < cutoff
                           /\ n < Len(b) => b[n + 1] >= cutoff

Stale(b, cutoff) == CHOOSE n \in 0..Len(b) : LoopStops(b, cutoff, n)

(* Variants: the boundary instant counts as stale; the first instant past  *)
(* the window does not yet.                                                *)
PurgedTooEarly(b, cutoff) == SubSeq(b, Stale(b, cutoff + 1) + 1, Len(b))
PurgedTooLate(b, cutoff) == SubSeq(b, Stale(b, cutoff - 1) + 1, Len(b))

Purged(b, cutoff) == SubSeq(b, Stale(b, cutoff) + 1, Len(b))

-----------------------------------------------------------------------------
Init == /\ time = 0
        /\ lag \in 0..Skew
        /\ buckets = [k \in Keys |-> << >>]
        /\ granted = [k \in Keys |-> << >>]
        /\ verdict = NoVerdict

Tick == /\ time < MaxTime
        /\ time' = time + 1
        /\ UNCHANGED <<lag, buckets, granted, verdict>>

(* The clock is set.                                                       *)
SetClock == /\ lag' \in (0..Skew) \ {lag}
            /\ UNCHANGED <<time, buckets, granted, verdict>>

(* Variant: a refused ask is recorded as well.                             *)
RefuseRecorded(k, bucket) ==
  /\ Len(bucket) >= Limit
  /\ buckets' = [buckets EXCEPT ![k] = Append(bucket, NowMs)]
  /\ verdict' = <<k, FALSE>>
  /\ UNCHANGED granted

(* The two outcomes of allow(k): the purge stays even when the answer is no. *)
Admit(k, bucket) ==
  /\ Len(bucket) < Limit
  /\ buckets' = [buckets EXCEPT ![k] = Append(bucket, NowMs)]
  /\ granted' = [granted EXCEPT ![k] = Append(@, time)]
  /\ verdict' = <<k, TRUE>>

Refuse(k, bucket) ==
  /\ Len(bucket) >= Limit
  /\ buckets' = [buckets EXCEPT ![k] = bucket]
  /\ verdict' = <<k, FALSE>>
  /\ UNCHANGED granted

Allow(k) ==
  LET bucket == Purged(buckets[k], NowMs - Window)
  IN  /\ Admit(k, bucket) \/ Refuse(k, bucket)
      /\ UNCHANGED <<time, lag>>

(* Variant: a plain dict, which has no deque for an unknown key.           *)
RestartBare == /\ buckets' = << >>
               /\ granted' = [k \in Keys |-> << >>]
               /\ verdict' = NoVerdict
               /\ UNCHANGED <<time, lag>>

(* create_app builds a fresh SlidingWindow.                                *)
Restart == /\ buckets' = [k \in Keys |-> << >>]
           /\ granted' = [k \in Keys |-> << >>]
           /\ verdict' = NoVerdict
           /\ UNCHANGED <<time, lag>>

Next == Tick \/ SetClock \/ Restart \/ \E k \in Keys : Allow(k)

Spec == Init /\ [][Next]_vars

-----------------------------------------------------------------------------
TypeOK == /\ time \in 0..MaxTime
          /\ lag \in 0..Skew
          /\ buckets \in [Keys -> Seq(Int)]
          /\ granted \in [Keys -> Seq(Nat)]
          /\ verdict \in {NoVerdict} \cup (Keys \X BOOLEAN)

(* No client gets more than Limit asks through in any Window of true time, *)
(* up to the clock's error: an admission and the one Limit places later    *)
(* are more than Window - Skew apart, although the limiter has long        *)
(* forgotten the earlier one (rate_limit.py:17-27).                        *)
NoBurst ==
  \A k \in Keys : \A i, j \in DOMAIN granted[k] :
    j = i + Limit => granted[k][j] - granted[k][i] > Window - Skew

(* The memory of a client never exceeds its quota, however often it is     *)
(* refused: a refused ask leaves no trace in the deque (rate_limit.py:24). *)
BucketBounded == \A k \in Keys : Len(buckets[k]) <= Limit

(* The bounded, lazily purged queue decides every ask as the policy on the *)
(* complete history and on true time does, up to the clock's error, the    *)
(* boundary instant included.  In particular a reading that lies in the    *)
(* clock's future holds back the purge behind it, and keeps its client     *)
(* out, for no longer than Skew.                                           *)
Policy == INSTANCE WindowPolicy
PolicySpec == Policy!Spec
=============================================================================
