---------------------------- MODULE WindowPolicy ----------------------------
(***************************************************************************)
(* What POST /api/requests promises about the rate of asks: an ask is      *)
(* admitted exactly when fewer than Limit asks of the same client were     *)
(* admitted during the last Window, judged on the complete history of      *)
(* admissions since the server started and on true time.  A limiter whose  *)
(* clock may be wrong by Skew can tell an age only to within Skew; with a  *)
(* right clock, Skew = 0, the answer to every ask is determined.           *)
(* SlidingWindow, which keeps a bounded queue of clock readings per        *)
(* client, is shown to implement it.                                       *)
(***************************************************************************)
EXTENDS Integers, Sequences, FiniteSets

CONSTANTS Keys,     \* the client ids that ask
          Limit,    \* settings.rate_limit_per_min
          Window,   \* window_ms, in ticks
          Skew      \* how wrong the clock may be, in ticks

VARIABLES time,     \* true time
          granted,  \* for every key, the times of its admitted asks, in order
          verdict   \* the answer last given: to whom, and whether it was yes

vars == <<time, granted, verdict>>

NoVerdict == << >>

(* How many admissions of k are at most w old.                             *)
Granted(k, w) == Cardinality({i \in DOMAIN granted[k] : granted[k][i] >= time - w})

Init == /\ time = 0
        /\ granted = [k \in Keys |-> << >>]
        /\ verdict = NoVerdict

Tick == /\ time' \in Nat
        /\ time' > time
        /\ UNCHANGED <<granted, verdict>>

Grant(k) == /\ Granted(k, Window - Skew) < Limit
            /\ verdict' = <<k, TRUE>>
            /\ granted' = [granted EXCEPT ![k] = Append(@, time)]
            /\ UNCHANGED time

Deny(k) == /\ Granted(k, Window + Skew) >= Limit
           /\ verdict' = <<k, FALSE>>
           /\ UNCHANGED <<time, granted>>

(* A restarted server remembers no admission.                              *)
Forget == /\ granted' = [k \in Keys |-> << >>]
          /\ verdict' = NoVerdict
          /\ UNCHANGED time

Next == Tick \/ Forget \/ \E k \in Keys : Grant(k) \/ Deny(k)

Spec == Init /\ [][Next]_vars
=============================================================================
