------------------------------ MODULE EventLog ------------------------------
(***************************************************************************)
(* AidServer with the rows of its events table: what append_event stored   *)
(* under each id, for the modules whose readers look at payloads.          *)
(***************************************************************************)
EXTENDS AidServer, Sequences

CONSTANT Batch  \* the limit of list_events_after

ASSUME BatchAssumption == Batch \in Nat \ {0}

VARIABLE log  \* the payloads of all events, by id; those in table are rows

logVars == <<vars, log>>

LogInit == Init /\ log = << >>

LogNext == Next /\ log' = IF seq' > seq THEN Append(log, job.event) ELSE log

LogSpec == LogInit /\ [][LogNext]_logVars

(* No handler runs, so the event loop takes up a stream or a read.         *)
Serving == up /\ job = Idle

Greatest(S) == CHOOSE n \in S : \A k \in S : k <= n

About(r) == {i \in 1..seq : log[i].request = r}
=============================================================================
