--------------------------- MODULE StartupProofs ---------------------------
(***************************************************************************)
(* What holds of Startup for every number of instances, pings and          *)
(* environments.                                                           *)
(***************************************************************************)
EXTENDS Startup, SequenceTheorems, TLAPS

-----------------------------------------------------------------------------
(* The script as what its parts make.                                                     *)

LEMMA ScriptParts ==
    /\ Len(Script) = 7
    /\ \A n \in 1..7 : Script[n].sql => Script[n].makes \in Objects
    /\ \A o \in Objects : \E n \in 1..7 : Script[n].sql /\ Script[n].makes = o
<1> DEFINE P == {Migration1[1], Migration1[2], Migration1[3], Migration1[4],
                 Migration2[1], Migration2[2], Migration2[3]}
<1>1. Len(Migration1) = 4 /\ Len(Migration2) = 3 /\ Migration1 \in Seq(P) /\ Migration2 \in Seq(P)
  <2>1. Len(Migration1) = 4 /\ Migration1 \in Seq({Migration1[1], Migration1[2], Migration1[3], Migration1[4]})
    BY DEF Migration1
  <2>2. Len(Migration2) = 3 /\ Migration2 \in Seq({Migration2[1], Migration2[2], Migration2[3]})
    BY DEF Migration2
  <2> QED
    BY <2>1, <2>2
<1>2. /\ Len(Script) = 7
      /\ \A n \in 1..4 : Script[n] = Migration1[n]
      /\ \A n \in 5..7 : Script[n] = Migration2[n - 4]
  <2> HIDE DEF P
  <2>1. /\ Len(Script) = Len(Migration1) + Len(Migration2)
        /\ \A n \in 1..Len(Migration1) + Len(Migration2) :
               Script[n] = IF n <= Len(Migration1) THEN Migration1[n] ELSE Migration2[n - Len(Migration1)]
    BY <1>1, ConcatProperties DEF Script
  <2> QED
    BY <1>1, <2>1
<1>3. /\ Script[1] = Sql("subscriptions", {}) /\ Script[2] = Sql("idx_confirmed", {"subscriptions"})
      /\ Script[3] = Sql("idx_email", {"subscriptions"}) /\ Script[4] = Skipped
  BY <1>2 DEF Migration1
<1>4. /\ Script[5] = Sql("notification_log", {"subscriptions"})
      /\ Script[6] = Sql("idx_log", {"notification_log"}) /\ Script[7] = Skipped
  BY <1>2 DEF Migration2
<1>5. \A m, d : Sql(m, d).sql /\ Sql(m, d).makes = m
  BY DEF Sql
<1>6. ~Skipped.sql
  BY DEF Skipped
<1>7. /\ Script[1].sql /\ Script[1].makes = "subscriptions"
      /\ Script[2].sql /\ Script[2].makes = "idx_confirmed"
      /\ Script[3].sql /\ Script[3].makes = "idx_email"
      /\ ~Script[4].sql
      /\ Script[5].sql /\ Script[5].makes = "notification_log"
      /\ Script[6].sql /\ Script[6].makes = "idx_log"
      /\ ~Script[7].sql
  <2> HIDE DEF P
  <2>1. Script[1].sql /\ Script[1].makes = "subscriptions"
    BY <1>3, <1>5
  <2>2. Script[2].sql /\ Script[2].makes = "idx_confirmed"
    BY <1>3, <1>5
  <2>3. Script[3].sql /\ Script[3].makes = "idx_email"
    BY <1>3, <1>5
  <2>4. Script[5].sql /\ Script[5].makes = "notification_log"
    BY <1>4, <1>5
  <2>5. Script[6].sql /\ Script[6].makes = "idx_log"
    BY <1>4, <1>5
  <2>6. ~Script[4].sql /\ ~Script[7].sql
    BY <1>3, <1>4, <1>6
  <2> QED
    BY <2>1, <2>2, <2>3, <2>4, <2>5, <2>6
<1>8. ASSUME NEW n \in 1..7, Script[n].sql
      PROVE  Script[n].makes \in Objects
  <2>1. n = 1 \/ n = 2 \/ n = 3 \/ n = 4 \/ n = 5 \/ n = 6 \/ n = 7
    BY SMT
  <2> QED
    BY <1>7, <1>8, <2>1, Zenon DEF Objects
<1>9. ASSUME NEW o \in Objects
      PROVE  \E n \in 1..7 : Script[n].sql /\ Script[n].makes = o
  <2>1. 1 \in 1..7 /\ 2 \in 1..7 /\ 3 \in 1..7 /\ 5 \in 1..7 /\ 6 \in 1..7
    BY SMT
  <2>2. o = "subscriptions" \/ o = "idx_confirmed" \/ o = "idx_email" \/ o = "notification_log" \/ o = "idx_log"
    BY DEF Objects
  <2>3. CASE o = "subscriptions"
    BY <1>7, <2>1, <2>3, Zenon
  <2>4. CASE o = "idx_confirmed"
    BY <1>7, <2>1, <2>4, Zenon
  <2>5. CASE o = "idx_email"
    BY <1>7, <2>1, <2>5, Zenon
  <2>6. CASE o = "notification_log"
    BY <1>7, <2>1, <2>6, Zenon
  <2>7. CASE o = "idx_log"
    BY <1>7, <2>1, <2>7, Zenon
  <2> QED
    BY <2>2, <2>3, <2>4, <2>5, <2>6, <2>7
<1> QED
  BY <1>2, <1>8, <1>9

-----------------------------------------------------------------------------
(* The inductive invariant: whatever an instance is past exists, and nothing that exists    *)
(* ever goes away.                                                                          *)

\* The objects of the parts before the one an instance is at.
Done(i) == \A n \in 1..7 : n < pos[i] /\ Script[n].sql => Script[n].makes \in schema

\* A statement is under way only where the script has one, and an instance that is not at
\* the migrations will begin them at the first part.
AtPart(i) ==
    /\ phase[i] = "create" => pos[i] \in 1..7 /\ Part(i).sql
    /\ phase[i] \notin {"migrate", "create"} => pos[i] = 1

IInv == TypeOK /\ (\A i \in Instances : Done(i) /\ AtPart(i)) /\ ServingReady

LEMMA InitInv == Init => IInv
<1> SUFFICES ASSUME Init PROVE IInv
  OBVIOUS
<1>1. TypeOK
  BY ScriptParts, AttemptsAssumption DEF Init, TypeOK, Phases
<1>2. (\A i \in Instances : Done(i) /\ AtPart(i)) /\ ServingReady
  BY DEF Init, Done, AtPart, ServingReady
<1> QED
  BY <1>1, <1>2 DEF IInv

\* Objects are added and never dropped.
LEMMA SchemaGrows ==
  ASSUME IInv, [Next]_vars
  PROVE  schema \subseteq schema' /\ schema' \subseteq Objects
<1> USE ScriptParts DEF IInv, TypeOK
<1>1. CASE UNCHANGED vars
  BY <1>1 DEF vars, world
<1>2. CASE Outage
  BY <1>2 DEF Outage
<1>3. ASSUME NEW i \in Instances, Step(i) \/ Signal(i) \/ Die(i) \/ Restart(i)
      PROVE  schema \subseteq schema' /\ schema' \subseteq Objects
  <2>1. AtPart(i)
    OBVIOUS
  <2>2. phase[i] = "create" => Part(i).makes \in Objects
    BY <2>1 DEF AtPart, Part
  <2>3. schema' \in Interrupted(i) => schema \subseteq schema' /\ schema' \subseteq Objects
    BY <2>2 DEF Interrupted
  <2>4. CASE Create(i)
    BY <2>2, <2>4 DEF Create
  <2>5. CASE StatementFails(i) \/ Die(i)
    BY <2>3, <2>5 DEF StatementFails, Die
  <2>6. ASSUME \/ Load(i) \/ Ping(i) \/ PingFails(i) \/ SkipPart(i) \/ ObjectExists(i)
               \/ BeginCreate(i) \/ Migrated(i) \/ NewRedis(i) \/ TickerPanics(i) \/ ShutdownEnds(i)
               \/ Signal(i) \/ Restart(i)
        PROVE  schema' = schema
    BY <2>6 DEF Load, Ping, PingFails, SkipPart, ObjectExists, BeginCreate, Migrated, NewRedis,
                TickerPanics, ShutdownEnds, Signal, Restart
  <2> QED
    BY <1>3, <2>4, <2>5, <2>6 DEF Step
<1> QED
  BY <1>1, <1>2, <1>3 DEF Next

-----------------------------------------------------------------------------
(* The steps of one instance, by what they do to its place in the script.                   *)

\* A step that leaves the place alone, or goes back to the start.
LEMMA StayInv ==
  ASSUME IInv, NEW i \in Instances, schema \subseteq schema', schema' \subseteq Objects,
         NEW p \in Phases, phase' = [phase EXCEPT ![i] = p],
         NEW STATE q, q \in {1, pos[i]}, pos' = [pos EXCEPT ![i] = q],
         tries' \in [Instances -> 0..Attempts - 1],
         env' = env, dbUp' \in BOOLEAN, redisUp' \in BOOLEAN,
         p = "create" => q \in 1..7 /\ Script[q].sql,
         p \notin {"migrate", "create"} => q = 1,
         p \in {"redis", "serving", "stopping"} => Objects \subseteq schema
  PROVE  IInv'
<1> USE ScriptParts
<1>1. TypeOK'
  <2>1. phase \in [Instances -> Phases] /\ pos \in [Instances -> 1..8] /\ env \in Environments
    BY DEF IInv, TypeOK
  <2>2. phase' \in [Instances -> Phases]
    BY <2>1
  <2>3. pos' \in [Instances -> 1..8]
    BY <2>1
  <2> QED
    BY <2>1, <2>2, <2>3 DEF TypeOK
<1>2. ASSUME NEW j \in Instances
      PROVE  Done(j)' /\ AtPart(j)'
  <2>1. phase \in [Instances -> Phases] /\ pos \in [Instances -> 1..8]
    BY DEF IInv, TypeOK
  <2>2. Done(j) /\ AtPart(j)
    BY <1>2 DEF IInv
  <2>3. CASE j = i
    <3>1. phase'[j] = p /\ pos'[j] = q
      BY <2>1, <2>3
    <3>2. Done(j)'
      BY <2>1, <2>2, <2>3, <3>1 DEF Done
    <3> QED
      BY <3>1, <3>2 DEF AtPart, Part
  <2>4. CASE j # i
    <3>1. phase'[j] = phase[j] /\ pos'[j] = pos[j]
      BY <2>1, <2>4
    <3> QED
      BY <2>2, <3>1 DEF Done, AtPart, Part
  <2> QED
    BY <2>3, <2>4
<1>3. ServingReady'
  BY DEF IInv, TypeOK, ServingReady
<1> QED
  BY <1>1, <1>2, <1>3 DEF IInv

\* A step to the next part, behind one that is no statement or whose object is there.
LEMMA NextPartInv ==
  ASSUME IInv, NEW i \in Instances, schema \subseteq schema', schema' \subseteq Objects,
         NextPart(i), pos[i] \in 1..7, phase[i] \in {"migrate", "create"},
         Part(i).sql => Part(i).makes \in schema'
  PROVE  IInv'
<1> USE ScriptParts
<1>0. /\ phase' = [phase EXCEPT ![i] = "migrate"] /\ pos' = [pos EXCEPT ![i] = @ + 1]
      /\ UNCHANGED <<env, dbUp, redisUp, tries>>
  BY DEF NextPart, Goto, world
<1>1. TypeOK'
  <2>1. pos[i] + 1 \in 1..8 /\ "migrate" \in Phases
    BY DEF Phases
  <2> QED
    BY <1>0, <2>1 DEF IInv, TypeOK
<1>2. ASSUME NEW j \in Instances
      PROVE  Done(j)' /\ AtPart(j)'
  <2>1. phase \in [Instances -> Phases] /\ pos \in [Instances -> 1..8]
    BY DEF IInv, TypeOK
  <2>2. Done(j) /\ AtPart(j)
    BY <1>2 DEF IInv
  <2>3. CASE j = i
    <3>1. phase'[j] = "migrate" /\ pos'[j] = pos[j] + 1
      BY <1>0, <2>1, <2>3
    <3>2. ASSUME NEW n \in 1..7, n < pos'[j], Script[n].sql
          PROVE  Script[n].makes \in schema'
      <4>1. n < pos[j] \/ n = pos[j]
        BY <2>1, <3>1, <3>2
      <4>2. CASE n < pos[j]
        BY <2>2, <3>2, <4>2 DEF Done
      <4>3. CASE n = pos[j]
        BY <2>3, <3>2, <4>3 DEF Part
      <4> QED
        BY <4>1, <4>2, <4>3
    <3> QED
      BY <3>1, <3>2 DEF Done, AtPart
  <2>4. CASE j # i
    <3>1. phase'[j] = phase[j] /\ pos'[j] = pos[j]
      BY <1>0, <2>1, <2>4
    <3> QED
      BY <2>2, <3>1 DEF Done, AtPart, Part
  <2> QED
    BY <2>3, <2>4
<1>3. ServingReady'
  BY <1>0 DEF IInv, TypeOK, ServingReady
<1> QED
  BY <1>1, <1>2, <1>3 DEF IInv

-----------------------------------------------------------------------------
(* The theorems.                                                                            *)

LEMMA StepInv == IInv /\ [Next]_vars => IInv'
<1> SUFFICES ASSUME IInv, [Next]_vars PROVE IInv'
  OBVIOUS
<1>1. schema \subseteq schema' /\ schema' \subseteq Objects
  BY SchemaGrows
<1>2. CASE UNCHANGED vars
  BY <1>2 DEF vars, world, IInv, TypeOK, Done, AtPart, Part, ServingReady
<1>3. CASE Outage
  BY <1>3 DEF Outage, IInv, TypeOK, Done, AtPart, Part, ServingReady
<1>4. ASSUME NEW i \in Instances, Step(i) \/ Signal(i) \/ Die(i) \/ Restart(i)
      PROVE  IInv'
  <2>0. /\ phase \in [Instances -> Phases] /\ pos \in [Instances -> 1..8]
        /\ tries \in [Instances -> 0..Attempts - 1]
        /\ dbUp \in BOOLEAN /\ redisUp \in BOOLEAN
        /\ Done(i) /\ AtPart(i)
        /\ phase[i] \in {"redis", "serving", "stopping"} => Objects \subseteq schema
    BY ScriptParts DEF IInv, TypeOK, ServingReady
  <2>1. ASSUME Exit(i), UNCHANGED world
        PROVE  IInv'
    <3>1. /\ phase' = [phase EXCEPT ![i] = "exited"] /\ pos' = [pos EXCEPT ![i] = 1]
          /\ tries' \in [Instances -> 0..Attempts - 1] /\ UNCHANGED <<env, dbUp, redisUp>>
      BY <2>0, <2>1, AttemptsAssumption DEF Exit, Goto, world
    <3> QED
      BY <1>1, <2>0, <3>1, StayInv DEF Phases
  <2>2. ASSUME NEW p \in Phases, Goto(i, p), UNCHANGED <<world, pos>>,
               tries' \in [Instances -> 0..Attempts - 1],
               p = "create" => pos[i] \in 1..7 /\ Script[pos[i]].sql,
               p \notin {"migrate", "create"} => pos[i] = 1,
               p \in {"redis", "serving", "stopping"} => Objects \subseteq schema
        PROVE  IInv'
    <3>1. /\ phase' = [phase EXCEPT ![i] = p] /\ pos' = [pos EXCEPT ![i] = pos[i]]
          /\ UNCHANGED <<env, dbUp, redisUp>>
      BY <2>0, <2>2 DEF Goto, world
    <3>2. pos[i] \in {1, pos[i]}
      OBVIOUS
    <3> QED
      BY <1>1, <2>0, <2>2, <3>1, <3>2, StayInv
  <2>3. CASE Load(i)
    <3>1. CASE Loads
      BY <2>0, <2>2, <2>3, <3>1 DEF Load, Phases, AtPart
    <3>2. CASE ~Loads
      BY <2>1, <2>3, <3>2 DEF Load
    <3> QED
      BY <3>1, <3>2
  <2>4. CASE Ping(i)
    <3>1. tries' \in [Instances -> 0..Attempts - 1]
      BY <2>0, <2>4, AttemptsAssumption DEF Ping
    <3> QED
      BY <2>0, <2>2, <2>4, <3>1 DEF Ping, Phases, AtPart
  <2>5. CASE PingFails(i)
    <3>1. CASE tries[i] + 1 < Attempts
      <4>1. tries' \in [Instances -> 0..Attempts - 1] /\ UNCHANGED <<world, pos, phase>>
        BY <2>0, <2>5, <3>1, AttemptsAssumption DEF PingFails
      <4>2. Goto(i, "ping")
        BY <2>0, <2>5, <4>1 DEF PingFails, Goto
      <4> QED
        BY <2>0, <2>2, <2>5, <4>1, <4>2 DEF PingFails, Phases, AtPart
    <3>2. CASE ~(tries[i] + 1 < Attempts)
      BY <2>1, <2>5, <3>2 DEF PingFails
    <3> QED
      BY <3>1, <3>2
  <2>6. CASE SkipPart(i)
    BY <1>1, <2>0, <2>6, NextPartInv, ScriptParts DEF SkipPart
  <2>7. CASE ObjectExists(i)
    BY <1>1, <2>0, <2>7, NextPartInv, ScriptParts DEF ObjectExists, Executing
  <2>8. CASE BeginCreate(i)
    <3>1. pos[i] \in 1..7 /\ Script[pos[i]].sql
      BY <2>0, <2>8, ScriptParts DEF BeginCreate, Executing, Part
    <3> QED
      BY <2>0, <2>2, <2>8, <3>1 DEF BeginCreate, Phases
  <2>9. CASE Create(i)
    BY <1>1, <2>0, <2>9, NextPartInv DEF Create, AtPart
  <2>10. CASE StatementFails(i)
    BY <2>1, <2>10 DEF StatementFails
  <2>11. CASE Migrated(i)
    <3>1. pos[i] = 8
      BY <2>0, <2>11, ScriptParts DEF Migrated
    <3>2. Objects \subseteq schema
      <4>1. ASSUME NEW o \in Objects
            PROVE  o \in schema
        <5>1. PICK n \in 1..7 : Script[n].sql /\ Script[n].makes = o
          BY ScriptParts
        <5> QED
          BY <2>0, <3>1, <5>1 DEF Done
      <4> QED
        BY <4>1
    <3>3. /\ phase' = [phase EXCEPT ![i] = "redis"] /\ pos' = [pos EXCEPT ![i] = 1]
          /\ tries' \in [Instances -> 0..Attempts - 1] /\ UNCHANGED <<env, dbUp, redisUp>>
      BY <2>0, <2>11 DEF Migrated, Goto, world
    <3> QED
      BY <1>1, <2>0, <3>2, <3>3, StayInv DEF Phases
  <2>12. CASE NewRedis(i)
    <3>1. CASE redisUp
      BY <2>0, <2>2, <2>12, <3>1 DEF NewRedis, Phases, AtPart
    <3>2. CASE ~redisUp
      BY <2>1, <2>12, <3>2 DEF NewRedis
    <3> QED
      BY <3>1, <3>2
  <2>13. CASE TickerPanics(i) \/ ShutdownEnds(i) \/ Die(i)
    BY <2>1, <2>13 DEF TickerPanics, ShutdownEnds, Die
  <2>14. CASE Signal(i)
    BY <2>0, <2>2, <2>14 DEF Signal, Phases, AtPart
  <2>15. CASE Restart(i)
    BY <2>0, <2>2, <2>15 DEF Restart, Phases, AtPart
  <2> QED
    BY <1>4, <2>3, <2>4, <2>5, <2>6, <2>7, <2>8, <2>9, <2>10, <2>11, <2>12, <2>13, <2>14, <2>15
    DEF Step
<1> QED
  BY <1>2, <1>3, <1>4 DEF Next

\* Every state variable keeps its type; in particular an instance gives up after Attempts
\* pings and the migrations create nothing but the objects the queries need.
THEOREM TypeCorrect == Spec => []TypeOK
<1>1. IInv => TypeOK
  BY DEF IInv
<1> QED
  BY InitInv, StepInv, <1>1, PTL DEF Spec

\* However many instances apply the migrations together, die in them or lose the race for a
\* statement, none takes calls or scans before every table and index exists.
THEOREM SchemaReady == Spec => []ServingReady
<1>1. IInv => ServingReady
  BY DEF IInv
<1> QED
  BY InitInv, StepInv, <1>1, PTL DEF Spec
=============================================================================
