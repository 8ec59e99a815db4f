------------------------------ MODULE HelpBoard -----------------------------
(***************************************************************************)
(* What the server promises the agents, whatever its tables, foreign keys, *)
(* transactions, prunes and restarts look like: a request is asked once,   *)
(* receives answers of others while it is open, may have one of its own    *)
(* answers accepted, is closed once, and when it is gone so is all that    *)
(* belongs to it, for good.                                                *)
(***************************************************************************)
CONSTANTS Requests, Answers, Clients, None

VARIABLES board,  \* for every request its slot
          votes,  \* who votes for which answer
          spent   \* the answers there have been

vars == <<board, votes, spent>>

Unasked == [life |-> "new", asker |-> None, answers |-> {}, accepted |-> None]
Asked(c) == [life |-> "open", asker |-> c, answers |-> {}, accepted |-> None]
Gone == [Unasked EXCEPT !.life = "gone"]

Init == /\ board = [r \in Requests |-> Unasked]
        /\ votes = {} /\ spent = {}

Shown(r) == {x[1] : x \in board[r].answers}

Ask(r, c) ==
  /\ board[r] = Unasked
  /\ board' = [board EXCEPT ![r] = Asked(c)]
  /\ UNCHANGED <<votes, spent>>

Answer(r, a, c) ==
  /\ board[r].life = "open" /\ board[r].asker # c
  /\ a \notin spent
  /\ board' = [board EXCEPT ![r].answers = @ \cup {<<a, c>>}]
  /\ spent' = spent \cup {a}
  /\ UNCHANGED votes

Accept(r, a) ==
  /\ a \in Shown(r)
  /\ board' = [board EXCEPT ![r].accepted = a]
  /\ UNCHANGED <<votes, spent>>

Close(r) ==
  /\ board[r].life = "open"
  /\ board' = [board EXCEPT ![r].life = "closed"]
  /\ UNCHANGED <<votes, spent>>

Toggle(a, v) ==
  /\ \E r \in Requests : a \in Shown(r)
  /\ votes' = IF <<a, v>> \in votes THEN votes \ {<<a, v>>} ELSE votes \cup {<<a, v>>}
  /\ UNCHANGED <<board, spent>>

(* The requests in R go, with their answers and the votes for these.       *)
Drop(R) ==
  /\ board' = [r \in Requests |-> IF r \in R THEN Gone ELSE board[r]]
  /\ votes' = {v \in votes : \A r \in R : v[1] \notin Shown(r)}
  /\ UNCHANGED spent

Delete(r) == board[r].life \in {"open", "closed"} /\ Drop({r})

(* Nobody asked for it, but only closed requests go that way.              *)
Sweep(R) == (\A r \in R : board[r].life = "closed") /\ Drop(R)

Next == \/ \E r \in Requests : \/ \E c \in Clients : Ask(r, c)
                               \/ \E a \in Answers, c \in Clients : Answer(r, a, c)
                               \/ \E a \in Answers : Accept(r, a)
                               \/ Close(r) \/ Delete(r)
        \/ \E a \in Answers, v \in Clients : Toggle(a, v)
        \/ \E R \in SUBSET Requests : Sweep(R)

Spec == Init /\ [][Next]_vars
=============================================================================
