-------------------------- MODULE MigrationProofs ---------------------------
(* For any scripts, kills and images: what Migration promises about every  *)
(* start of the server.                                                    *)
EXTENDS Migration, TLAPS

Running == at \in {"script", "record"}

(* What is on record is complete; what was begun and is not on record was  *)
(* cut, or is the work of the running process; what was cut is begun.      *)
Database ==
  /\ \A s \in recorded : made[s] = Size[s]
  /\ \A s \in 1..N : made[s] > 0 /\ s \notin recorded =>
       s \in cut \/ (Running /\ s = script /\ made[s] = pos)
  /\ \A s \in cut : s \notin recorded /\ made[s] > 0

(* The loop has the files before script behind it, and none after it has   *)
(* been recorded since the process read its versions.                      *)
Loop ==
  /\ at # "down" => applied \subseteq recorded
  /\ Running => /\ script \in 1..image
                /\ script \notin applied
                /\ \A t \in 1..image : t < script => t \in recorded
                /\ \A t \in recorded : t \in applied \/ t < script
  /\ at = "serving" => 1..image \subseteq recorded

(* Within a script: a process that has executed a statement has executed   *)
(* all that took effect; a cut script does not let it execute one.         *)
Within ==
  /\ Running /\ pos > 0 => made[script] = pos
  /\ Running /\ script \in cut => at = "script" /\ pos = 0
  /\ at = "script" => pos < Size[script]
  /\ at = "record" => pos = Size[script]

IInv == TypeOK /\ Database /\ Loop /\ Within
-----------------------------------------------------------------------------
(* Where the loop goes: with all files up to s on record, and no later one *)
(* that was not on record at the start, Loop holds and the process is at   *)
(* the beginning of a script or serves.                                    *)
LEMMA LoopGoesOn ==
  ASSUME NEW s \in Nat, GoOnAfter(s),
         image' = image, image \in 1..N, recorded' \subseteq 1..N,
         applied' \subseteq recorded',
         \A t \in 1..image : t <= s => t \in recorded',
         \A t \in recorded' : t \in applied' \/ t <= s
  PROVE  /\ Loop'
         /\ pos' = 0
         /\ \/ at' = "serving" /\ script' = 0
            \/ at' = "script" /\ script' \in 1..N /\ script' \notin recorded'
<1>. DEFINE rest == {t \in 1..image : t > s /\ t \notin applied'}
<1>0. N \in Nat
  BY ScriptAssumption
<1>1. CASE rest = {}
  <2>1. at' = "serving" /\ script' = 0 /\ pos' = 0
    BY <1>1 DEF GoOnAfter
  <2>2. 1..image \subseteq recorded'
    BY <1>0, <1>1
  <2>. QED
    BY <2>1, <2>2 DEF Loop, Running
<1>2. CASE rest # {}
  <2>1. at' = "script" /\ script' \in rest /\ pos' = 0 /\ \A t \in rest : script' <= t
    BY <1>2 DEF GoOnAfter
  <2>2. script' \in 1..image /\ script' > s /\ script' \notin applied' /\ script' \in 1..N
    BY <1>0, <2>1
  <2>3. script' \notin recorded'
    BY <1>0, <2>2
  <2>4. ASSUME NEW t \in 1..image, t < script'  PROVE t \in recorded'
    <3>1. t \notin rest
      BY <1>0, <2>1, <2>2, <2>4
    <3>. QED
      BY <1>0, <3>1
  <2>5. ASSUME NEW t \in recorded', t \notin applied'  PROVE t < script'
    BY <1>0, <2>2, <2>5
  <2>. QED
    BY <2>1, <2>2, <2>3, <2>4, <2>5 DEF Loop, Running
<1>. QED
  BY <1>1, <1>2

LEMMA InitInv == Init => IInv
<1>. SUFFICES ASSUME Init  PROVE IInv
  OBVIOUS
<1>0. N \in Nat \ {0} /\ Size \in [1..N -> Nat \ {0}]
  BY ScriptAssumption
<1>1. TypeOK
  BY <1>0, MigrationBounds DEF Init, TypeOK
<1>2. Database
  <2>1. PICK n \in 0..N : /\ recorded = 1..n
                         /\ made = [s \in 1..N |-> IF s <= n THEN Size[s] ELSE 0]
    BY DEF Init
  <2>2. \A s \in recorded : made[s] = Size[s]
    BY <1>0, <2>1
  <2>3. \A s \in 1..N : s \notin recorded => made[s] = 0
    BY <1>0, <2>1
  <2>4. \A s \in 1..N : ~(made[s] > 0 /\ s \notin recorded)
    BY <2>3
  <2>5. cut = {}
    BY DEF Init
  <2>. QED
    BY <2>2, <2>4, <2>5, Zenon DEF Database
<1>3. Loop /\ Within
  BY DEF Init, Loop, Within, Running
<1>. QED
  BY <1>1, <1>2, <1>3 DEF IInv

(* Each action keeps the invariant.                                        *)
LEMMA NextInv == IInv /\ [Next]_vars => IInv'
<1>. SUFFICES ASSUME IInv, [Next]_vars  PROVE IInv'
  OBVIOUS
<1>0. /\ N \in Nat \ {0} /\ Size \in [1..N -> Nat \ {0}]
      /\ MaxKills \in Nat /\ MaxDeploys \in Nat
  BY ScriptAssumption, MigrationBounds
<1>1. CASE Boot
  <2>1. GoOnAfter(0) /\ applied' = recorded /\ at = "down"
    BY <1>1 DEF Boot
  <2>2. UNCHANGED <<image, recorded, made, cut, kills, deploys>>
    BY <1>1 DEF Boot, database
  <2>3. /\ Loop' /\ pos' = 0
        /\ \/ at' = "serving" /\ script' = 0
           \/ at' = "script" /\ script' \in 1..N /\ script' \notin recorded'
    BY <1>0, <2>1, <2>2, LoopGoesOn DEF IInv, TypeOK
  <2>4. TypeOK'
    BY <1>0, <2>1, <2>2, <2>3 DEF IInv, TypeOK
  <2>5. Database'
    BY <2>1, <2>2 DEF IInv, Database, Running
  <2>6. Within'
    BY <1>0, <2>3 DEF Within, Running
  <2>. QED
    BY <2>3, <2>4, <2>5, <2>6 DEF IInv
<1>2. CASE Execute
  <2>1. /\ at = "script" /\ made[script] = pos
        /\ made' = [made EXCEPT ![script] = pos + 1] /\ pos' = pos + 1
        /\ at' = IF pos + 1 = Size[script] THEN "record" ELSE "script"
        /\ UNCHANGED <<image, recorded, applied, script, cut, kills, deploys>>
    BY <1>2 DEF Execute
  <2>2. /\ script \in 1..N /\ script \notin recorded /\ pos \in Nat
        /\ made \in [1..N -> Nat]
    BY <1>0, <2>1 DEF IInv, TypeOK, Loop, Running
  <2>3. script \notin cut /\ pos < Size[script] /\ Size[script] \in Nat
    BY <1>0, <2>1, <2>2 DEF IInv, Within, Database, Running
  <2>4. TypeOK'
    BY <1>0, <2>1, <2>2, <2>3 DEF IInv, TypeOK
  <2>5. Database'
    BY <1>0, <2>1, <2>2, <2>3 DEF IInv, TypeOK, Database, Running
  <2>6. Loop'
    BY <2>1 DEF IInv, Loop, Running
  <2>7. Within'
    BY <1>0, <2>1, <2>2, <2>3 DEF Within, Running
  <2>. QED
    BY <2>4, <2>5, <2>6, <2>7 DEF IInv
<1>3. CASE Clash
  <2>1. /\ at = "script" /\ made[script] > pos /\ at' = "down"
        /\ UNCHANGED <<image, recorded, made, applied, script, pos, cut, kills, deploys>>
    BY <1>3 DEF Clash, database
  <2>2. /\ script \in 1..N /\ pos \in Nat /\ made \in [1..N -> Nat]
        /\ recorded \subseteq 1..N
    BY <1>0, <2>1 DEF IInv, TypeOK, Loop, Running
  <2>3. made[script] # pos
    BY <2>1, <2>2
  <2>4. TypeOK'
    BY <2>1 DEF IInv, TypeOK
  <2>5. Database'
    BY <2>1, <2>3 DEF IInv, Database, Running
  <2>6. Loop' /\ Within'
    BY <2>1 DEF Loop, Within, Running
  <2>. QED
    BY <2>4, <2>5, <2>6 DEF IInv
<1>4. CASE Record
  <2>1. /\ at = "record" /\ recorded' = recorded \cup {script} /\ applied' = applied
        /\ GoOnAfter(script)
        /\ UNCHANGED <<image, made, cut, kills, deploys>>
    BY <1>4 DEF Record
  <2>2. /\ script \in 1..image /\ script \in 1..N /\ image \in 1..N
        /\ script \notin recorded /\ recorded \subseteq 1..N
        /\ applied \subseteq recorded
        /\ \A t \in 1..image : t < script => t \in recorded
        /\ \A t \in recorded : t \in applied \/ t < script
    BY <1>0, <2>1 DEF IInv, TypeOK, Loop, Running
  <2>3. script \notin cut /\ made[script] = Size[script]
    <3>1. pos = Size[script] /\ pos > 0
      BY <1>0, <2>1, <2>2 DEF IInv, Within
    <3>. QED
      BY <2>1, <3>1 DEF IInv, Within, Running
  <2>4. /\ Loop' /\ pos' = 0
        /\ \/ at' = "serving" /\ script' = 0
           \/ at' = "script" /\ script' \in 1..N /\ script' \notin recorded'
    <3>1. \A t \in 1..image : t <= script => t \in recorded'
      BY <1>0, <2>1, <2>2
    <3>2. \A t \in recorded' : t \in applied' \/ t <= script
      BY <1>0, <2>1, <2>2
    <3>3. recorded' \subseteq 1..N /\ applied' \subseteq recorded' /\ script \in Nat
      BY <1>0, <2>1, <2>2
    <3>. QED
      BY <2>1, <2>2, <3>1, <3>2, <3>3, LoopGoesOn
  <2>5. TypeOK'
    <3>1. /\ recorded' \subseteq 1..N /\ script' \in 0..N /\ pos' \in Nat
          /\ at' \in {"down", "script", "record", "serving"}
      BY <1>0, <2>1, <2>2, <2>4
    <3>. QED
      BY <2>1, <3>1 DEF IInv, TypeOK
  <2>6. Database'
    BY <2>1, <2>2, <2>3, <2>4 DEF IInv, Database, Running
  <2>7. Within'
    BY <1>0, <2>4 DEF Within, Running
  <2>. QED
    BY <2>4, <2>5, <2>6, <2>7 DEF IInv
<1>5. CASE Kill
  <2>1. /\ at # "down" /\ kills < MaxKills /\ kills' = kills + 1 /\ at' = "down"
        /\ cut' = IF at \in {"script", "record"} /\ pos > 0 THEN cut \cup {script} ELSE cut
        /\ UNCHANGED <<image, recorded, made, applied, script, pos, deploys>>
    BY <1>5 DEF Kill, database
  <2>2. Running => script \in 1..N /\ script \notin recorded
    BY <1>0 DEF IInv, TypeOK, Loop, Running
  <2>3. TypeOK'
    BY <1>0, <2>1, <2>2 DEF IInv, TypeOK, Running
  <2>4. Database'
    BY <1>0, <2>1, <2>2 DEF IInv, TypeOK, Database, Within, Running
  <2>5. Loop' /\ Within'
    BY <2>1 DEF Loop, Within, Running
  <2>. QED
    BY <2>3, <2>4, <2>5 DEF IInv
<1>6. ASSUME NEW i \in 1..N, Deploy(i)  PROVE IInv'
  <2>1. /\ at \in {"down", "serving"} /\ at' = "down" /\ image' = i
        /\ deploys < MaxDeploys /\ deploys' = deploys + 1
        /\ UNCHANGED <<recorded, made, applied, script, pos, cut, kills>>
    BY <1>6 DEF Deploy, database
  <2>2. TypeOK'
    BY <1>0, <2>1 DEF IInv, TypeOK
  <2>3. Database' /\ Loop' /\ Within'
    BY <2>1 DEF IInv, Database, Loop, Within, Running
  <2>. QED
    BY <2>2, <2>3 DEF IInv
<1>7. CASE UNCHANGED vars
  BY <1>7 DEF vars, database, IInv, TypeOK, Database, Loop, Within, Running
<1>. QED
  BY <1>1, <1>2, <1>3, <1>4, <1>5, <1>6, <1>7 DEF Next, Step

(* What is said of every start follows from the invariant.                 *)
LEMMA InvSuffices ==
  ASSUME IInv
  PROVE  ServesComplete /\ OnlyCutClashes /\ CutStaysCut
<1>0. N \in Nat \ {0}
  BY ScriptAssumption
<1>1. ServesComplete
  BY <1>0 DEF IInv, TypeOK, Database, Loop, ServesComplete
<1>2. OnlyCutClashes
  <2>. SUFFICES ASSUME at = "script", made[script] > pos  PROVE script \in cut
    BY DEF OnlyCutClashes
  <2>1. script \in 1..N /\ script \notin recorded /\ pos \in Nat /\ made[script] \in Nat
    BY <1>0 DEF IInv, TypeOK, Loop, Running
  <2>. QED
    BY <2>1 DEF IInv, Database
<1>3. CutStaysCut
  BY DEF IInv, Database, CutStaysCut
<1>. QED
  BY <1>1, <1>2, <1>3

(* Whatever the scripts, the kills and the images, the invariant holds.    *)
THEOREM InvAlways == Spec => []IInv
<1>1. Init => IInv
  BY InitInv
<1>2. IInv /\ [Next]_vars => IInv'
  BY NextInv
<1>. QED
  BY <1>1, <1>2, PTL DEF Spec

(* The state keeps its shape, and no script takes effect beyond its end.   *)
THEOREM MigrationTypeCorrect == Spec => []TypeOK
<1>1. IInv => TypeOK
  BY DEF IInv
<1>. QED
  BY <1>1, InvAlways, PTL

(* No incomplete schema is ever served (migration_runner.py:17-28).        *)
THEOREM NeverServesHalfASchema == Spec => []ServesComplete
<1>1. IInv => ServesComplete
  BY InvSuffices
<1>. QED
  BY <1>1, InvAlways, PTL

(* A start fails only over a script that a kill has cut (test_migrations.py:23). *)
THEOREM OnlyKillsBreakStarts == Spec => []OnlyCutClashes
<1>1. IInv => OnlyCutClashes
  BY InvSuffices
<1>. QED
  BY <1>1, InvAlways, PTL

(* ... and such a script is never completed or recorded by a later start.  *)
THEOREM NoStartRepairs == Spec => []CutStaysCut
<1>1. IInv => CutStaysCut
  BY InvSuffices
<1>. QED
  BY <1>1, InvAlways, PTL
=============================================================================
