------------------------------ MODULE EventFeed -----------------------------
(***************************************************************************)
(* What GET /events promises a subscriber that resumes from Last-Event-ID: *)
(* events reach it in the order of their ids and at most once, across any  *)
(* number of reconnections and server restarts, and the only events it     *)
(* never gets are ones that had left the buffer.                           *)
(***************************************************************************)
EXTENDS Integers

CONSTANT Clients

VARIABLES published,  \* how many events there have been
          expired,    \* the ids of those no longer in the buffer
          position    \* for every client, the id of the last event it was given

vars == <<published, expired, position>>

Init == /\ published = 0
        /\ expired = {}
        /\ position = [c \in Clients |-> 0]

Publish == /\ published' = published + 1
           /\ UNCHANGED <<expired, position>>

(* Events expire oldest first, and never come back.                        *)
Expire == \E n \in 0..published : /\ expired \subseteq 1..n
                                  /\ expired' = 1..n
                                  /\ UNCHANGED <<published, position>>

(* A client moves on to a later event, over expired ones only.             *)
Give(c) == \E id \in (position[c] + 1)..published :
             /\ (position[c] + 1)..(id - 1) \subseteq expired
             /\ position' = [position EXCEPT ![c] = id]
             /\ UNCHANGED <<published, expired>>

Next == Publish \/ Expire \/ \E c \in Clients : Give(c)

Spec == Init /\ [][Next]_vars
=============================================================================
