----------------------------- MODULE Migration ------------------------------
(***************************************************************************)
(* apply_migrations of migration_runner.py, which create_app runs before   *)
(* the server serves, over kills, restarts and new images.                 *)
(*                                                                         *)
(* executescript runs in autocommit mode: each statement of a script is a  *)
(* transaction, and the row of _migrations is one more.  A kill can fall   *)
(* between any two.  All statements are CREATE or ADD COLUMN without IF    *)
(* NOT EXISTS: one that has been executed before raises, the exception     *)
(* ends the process, and Docker starts it again.                           *)
(***************************************************************************)
EXTENDS Integers

CONSTANTS N,          \* the scripts migrations/*.sql, in the order of names
          Size,       \* their numbers of statements
          MaxKills,   \* bound on the kills
          MaxDeploys  \* bound on the new images

ASSUME ScriptAssumption == N \in Nat \ {0} /\ Size \in [1..N -> Nat \ {0}]
ASSUME MigrationBounds == MaxKills \in Nat /\ MaxDeploys \in Nat

VARIABLES image,     \* the image holds the scripts 1..image
          recorded,  \* the rows of _migrations
          made,      \* how many statements of each script took effect
          at,        \* where the process is
          applied,   \* the versions it read when it started
          script,    \* the script it is at
          pos,       \* the statements of it that it has executed
          cut,       \* ghost: the scripts a kill has interrupted
          kills, deploys

database == <<recorded, made>>
vars == <<image, database, at, applied, script, pos, cut, kills, deploys>>

(* The database is new, or an image with the first n scripts has left it.  *)
Init == /\ image \in 1..N
        /\ \E n \in 0..N : /\ recorded = 1..n
                           /\ made = [s \in 1..N |-> IF s <= n THEN Size[s] ELSE 0]
        /\ at = "down" /\ applied = {} /\ script = 0 /\ pos = 0
        /\ cut = {} /\ kills = 0 /\ deploys = 0

-----------------------------------------------------------------------------
(* The loop over the files goes on after file s.                           *)
GoOnAfter(s) ==
  LET rest == {t \in 1..image : t > s /\ t \notin applied'}
  IN  /\ pos' = 0
      /\ IF rest = {} THEN at' = "serving" /\ script' = 0
         ELSE /\ at' = "script"
              /\ script' \in rest /\ \A t \in rest : script' <= t

(* Variant: every script is taken for new.                                 *)
BootAnew == /\ at = "down"
            /\ applied' = {}
            /\ GoOnAfter(0)
            /\ UNCHANGED <<image, database, cut, kills, deploys>>

Boot == /\ at = "down"
        /\ applied' = recorded
        /\ GoOnAfter(0)
        /\ UNCHANGED <<image, database, cut, kills, deploys>>

(* Variant: a statement that may be repeated.                              *)
ExecuteAgain == /\ at = "script"
                /\ made' = [made EXCEPT ![script] = @ + 1]
                /\ pos' = pos + 1
                /\ at' = IF pos + 1 = Size[script] THEN "record" ELSE "script"
                /\ UNCHANGED <<image, recorded, applied, script, cut, kills, deploys>>

(* The next statement of the script, for the first time.                   *)
Execute == /\ at = "script"
           /\ made[script] = pos
           /\ made' = [made EXCEPT ![script] = pos + 1]
           /\ pos' = pos + 1
           /\ at' = IF pos + 1 = Size[script] THEN "record" ELSE "script"
           /\ UNCHANGED <<image, recorded, applied, script, cut, kills, deploys>>

(* Variant: the error is swallowed, as the prune's is in create_app.       *)
ClashIgnored == /\ at = "script"
                /\ made[script] > pos
                /\ at' = "record"
                /\ UNCHANGED <<image, database, applied, script, pos, cut, kills, deploys>>

(* "table ... already exists": the exception ends the process.             *)
Clash == /\ at = "script"
         /\ made[script] > pos
         /\ at' = "down"
         /\ UNCHANGED <<image, database, applied, script, pos, cut, kills, deploys>>

(* Variant: the transaction of the INSERT is left open.                    *)
RecordUncommitted ==
  /\ at = "record"
  /\ UNCHANGED applied
  /\ GoOnAfter(script)
  /\ UNCHANGED <<image, database, cut, kills, deploys>>

Record == /\ at = "record"
          /\ recorded' = recorded \cup {script}
          /\ UNCHANGED applied
          /\ GoOnAfter(script)
          /\ UNCHANGED <<image, made, cut, kills, deploys>>

-----------------------------------------------------------------------------
Kill == /\ at # "down" /\ kills < MaxKills
        /\ kills' = kills + 1
        /\ at' = "down"
        /\ cut' = IF at \in {"script", "record"} /\ pos > 0 THEN cut \cup {script} ELSE cut
        /\ UNCHANGED <<image, database, applied, script, pos, deploys>>

(* Another image, newer or older, takes over the data directory.           *)
Deploy(i) == /\ at \in {"down", "serving"} /\ deploys < MaxDeploys
             /\ i # image
             /\ image' = i
             /\ at' = "down"
             /\ deploys' = deploys + 1
             /\ UNCHANGED <<database, applied, script, pos, cut, kills>>

Step == Boot \/ Execute \/ Clash \/ Record

Next == Step \/ Kill \/ \E i \in 1..N : Deploy(i)

Spec == Init /\ [][Next]_vars

(* The process runs on and Docker restarts it (restart: unless-stopped).   *)
FairSpec == Spec /\ WF_vars(Step)

-----------------------------------------------------------------------------
TypeOK ==
  /\ image \in 1..N
  /\ recorded \subseteq 1..N /\ applied \subseteq 1..N /\ cut \subseteq 1..N
  /\ made \in [1..N -> Nat] /\ \A s \in 1..N : made[s] <= Size[s]
  /\ at \in {"down", "script", "record", "serving"}
  /\ script \in 0..N /\ pos \in Nat
  /\ kills \in 0..MaxKills /\ deploys \in 0..MaxDeploys

(* The server serves only if every statement of every script of its image  *)
(* has taken effect and is on record, whatever kills and images came       *)
(* before: a half-made schema is never served, not even at the next start  *)
(* (create_app lets the error through, main.py:14).                        *)
ServesComplete ==
  at = "serving" =>
    \A s \in 1..image : s \in recorded /\ made[s] = Size[s]

(* "second run must not raise" (tests/unit/test_migrations.py:23): a start *)
(* meets a statement that was executed before only in a script that a kill *)
(* has cut off its record; then it must (migration_runner.py:23).          *)
OnlyCutClashes == at = "script" /\ made[script] > pos => script \in cut

(* What was cut off stays so: there is no later start that repairs it.     *)
Wedged == \E s \in cut : s <= image

CutStaysCut == \A s \in cut : s \notin recorded

(* Unless the image holds a script that was cut, the server comes up.      *)
EventuallyServes == ~Wedged ~> (at = "serving" \/ Wedged)
=============================================================================
