---------------------------- MODULE ScannerProofs ----------------------------
(***************************************************************************)
(* What holds of Scanner for every number of instances, workers and        *)
(* subscriptions, and for every choice of faults.                          *)
(***************************************************************************)
EXTENDS Scanner, TLAPS

-----------------------------------------------------------------------------
(* Type correctness.  It needs that a worker inside the loop of checkRepo has a stable    *)
(* release: the tag it records is never the empty one.                                    *)

HasRelease ==
    \A i \in Instances, w \in Workers :
        wpc[i][w] \in {"check", "send", "mark", "update"} => tag[i][w] \in StableTags

TypeInv == TypeOK /\ HasRelease

WorkerTypes ==
    /\ wpc \in [Instances -> [Workers -> WorkerPcs]]
    /\ todo \in [Instances -> [Workers -> SUBSET Subs]]
    /\ tag \in [Instances -> [Workers -> Tags \cup {NoTag}]]

\* The end of a job, a step to the next subscription, and the start of the loop.
LEMMA EndJobType ==
    ASSUME TypeInv, NEW i \in Instances, NEW w \in Workers, EndJob(i, w)
    PROVE  WorkerTypes' /\ HasRelease'
<1> USE DEF TypeInv, TypeOK, EndJob, WorkerPcs
<1>1. WorkerTypes'
  BY DEF WorkerTypes
<1>2. ASSUME NEW j \in Instances, NEW x \in Workers
      PROVE  wpc'[j][x] \in {"check", "send", "mark", "update"} => tag'[j][x] \in StableTags
  <2>1. CASE j = i /\ x = w
    BY <2>1
  <2>2. CASE ~(j = i /\ x = w)
    BY <2>2 DEF HasRelease
  <2> QED
    BY <2>1, <2>2
<1> QED
  BY <1>1, <1>2 DEF HasRelease

LEMMA NextSubType ==
    ASSUME TypeInv, NEW i \in Instances, NEW w \in Workers, NEW s \in Subs, NextSub(i, w, s),
           wpc[i][w] \in {"check", "send", "mark", "update"}
    PROVE  WorkerTypes' /\ HasRelease'
<1>1. CASE todo[i][w] = {s}
  BY <1>1, EndJobType DEF NextSub
<1>2. CASE todo[i][w] # {s}
  <2>1. /\ todo' = [todo EXCEPT ![i][w] = todo[i][w] \ {s}]
        /\ wpc' = [wpc EXCEPT ![i][w] = "check"]
        /\ tag' = tag
    BY <1>2 DEF NextSub
  <2> QED
    BY <2>1 DEF TypeInv, TypeOK, HasRelease, WorkerTypes, WorkerPcs
<1> QED
  BY <1>1, <1>2

LEMMA WithReleaseType ==
    ASSUME TypeInv, NEW i \in Instances, NEW w \in Workers, NEW t \in Tags, WithRelease(i, w, t)
    PROVE  WorkerTypes' /\ HasRelease'
<1>1. CASE t \in StableTags
  <2>1. /\ tag' = [tag EXCEPT ![i][w] = t]
        /\ wpc' = [wpc EXCEPT ![i][w] = "check"]
        /\ todo' = todo
    BY <1>1 DEF WithRelease
  <2>2. WorkerTypes'
    BY <2>1 DEF TypeInv, TypeOK, WorkerTypes, WorkerPcs
  <2>3. ASSUME NEW j \in Instances, NEW x \in Workers
        PROVE  wpc'[j][x] \in {"check", "send", "mark", "update"} => tag'[j][x] \in StableTags
    <3>1. CASE j = i /\ x = w
      BY <1>1, <2>1, <3>1 DEF TypeInv, TypeOK
    <3>2. CASE ~(j = i /\ x = w)
      BY <2>1, <3>2 DEF TypeInv, TypeOK, HasRelease
    <3> QED
      BY <3>1, <3>2
  <2> QED
    BY <2>2, <2>3 DEF HasRelease
<1>2. CASE t \notin StableTags
  BY <1>2, EndJobType DEF WithRelease
<1> QED
  BY <1>1, <1>2

LEMMA ScanType ==
    ASSUME TypeInv, NEW i \in Instances, ScanStep(i) \/ Stop(i)
    PROVE  TypeInv'
<1> USE DEF TypeInv, HasRelease, TypeOK, Phases, Goto, NoTags, db, process, worker, world
<1>1. CASE Start(i)
  BY <1>1 DEF Start
<1>2. CASE Acquire(i)
  BY <1>2 DEF Acquire
<1>3. CASE AcquireDenied(i)
  BY <1>3 DEF AcquireDenied
<1>4. CASE AcquireFails(i)
  BY <1>4 DEF AcquireFails
<1>5. CASE Fetch(i)
  BY <1>5 DEF Fetch, Confirmed, WorkerPcs
<1>6. CASE FetchNothing(i)
  BY <1>6 DEF FetchNothing
<1>7. ASSUME NEW w \in Workers, NEW r \in Repos, Dispatch(i, w, r)
      PROVE  TypeInv'
  BY <1>7 DEF Dispatch, JobOf, WorkerPcs
<1>8. CASE CloseJobs(i)
  BY <1>8 DEF CloseJobs
<1>9. CASE JoinWorkers(i)
  BY <1>9 DEF JoinWorkers
<1>10. CASE Release(i)
  BY <1>10 DEF Release
<1>11. CASE Tick(i)
  BY <1>11 DEF Tick
<1>12. CASE Stop(i)
  BY <1>12 DEF Stop
<1> QED
  BY <1>1, <1>2, <1>3, <1>4, <1>5, <1>6, <1>7, <1>8, <1>9, <1>10, <1>11, <1>12 DEF ScanStep

LEMMA WorkerType ==
    ASSUME TypeInv, NEW i \in Instances, NEW w \in Workers, WorkerStep(i, w) \/ SendStep(i, w)
    PROVE  TypeInv'
<1> USE TagAssumption DEF db, process, worker, world
<1>1. ASSUME NEW r \in Repos, ReleaseFromCache(i, w, r)
      PROVE  TypeInv'
  <2>1. cache[r] \in Tags
    BY <1>1 DEF TypeInv, TypeOK, ReleaseFromCache
  <2> QED
    BY <1>1, <2>1, WithReleaseType DEF TypeInv, TypeOK, WorkerTypes, ReleaseFromCache
<1>2. ASSUME NEW r \in Repos, ReleaseFromGitHub(i, w, r)
      PROVE  TypeInv'
  <2>1. latest[r] \in Tags
    BY <1>2 DEF TypeInv, TypeOK, ReleaseFromGitHub
  <2> QED
    BY <1>2, <2>1, WithReleaseType DEF TypeInv, TypeOK, WorkerTypes, ReleaseFromGitHub
<1>3. ASSUME NEW r \in Repos, ReleaseUnavailable(i, w, r)
      PROVE  TypeInv'
  BY <1>3 DEF TypeInv, TypeOK, HasRelease, ReleaseUnavailable, EndJob, WorkerPcs
<1>4. CASE Abandon(i, w)
  BY <1>4 DEF TypeInv, TypeOK, HasRelease, Abandon, EndJob, WorkerPcs
<1>5. CASE WorkerExit(i, w)
  BY <1>5 DEF TypeInv, TypeOK, HasRelease, WorkerExit, WorkerPcs
<1>6. ASSUME NEW s \in Subs, Skip(i, w, s)
      PROVE  TypeInv'
  BY <1>6, NextSubType DEF TypeInv, TypeOK, WorkerTypes, Skip
<1>7. ASSUME NEW s \in Subs, NotNotified(i, w, s)
      PROVE  TypeInv'
  BY <1>7 DEF TypeInv, TypeOK, HasRelease, NotNotified, WorkerPcs
<1>8. ASSUME NEW s \in Subs, MarkNotified(i, w, s)
      PROVE  TypeInv'
  <2>1. tag[i][w] \in Tags
    BY <1>8 DEF TypeInv, HasRelease, MarkNotified
  <2> QED
    BY <1>8, <2>1 DEF TypeInv, TypeOK, HasRelease, MarkNotified, WorkerPcs
<1>9. ASSUME NEW s \in Subs, MarkFails(i, w, s)
      PROVE  TypeInv'
  <2>1. tag[i][w] \in Tags
    BY <1>9 DEF TypeInv, HasRelease, MarkFails
  <2> QED
    BY <1>9, <2>1, NextSubType DEF TypeInv, TypeOK, WorkerTypes, MarkFails
<1>10. ASSUME NEW s \in Subs, UpdateLastSeenTag(i, w, s)
       PROVE  TypeInv'
  <2>1. tag[i][w] \in Tags
    BY <1>10 DEF TypeInv, HasRelease, UpdateLastSeenTag
  <2> QED
    BY <1>10, <2>1, NextSubType DEF TypeInv, TypeOK, WorkerTypes, UpdateLastSeenTag
<1>11. ASSUME NEW s \in Subs, UpdateFails(i, w, s)
       PROVE  TypeInv'
  BY <1>11, NextSubType DEF TypeInv, TypeOK, WorkerTypes, UpdateFails
<1>12. ASSUME NEW s \in Subs, MailSent(i, w, s)
       PROVE  TypeInv'
  <2>1. tag[i][w] \in Tags
    BY <1>12 DEF TypeInv, HasRelease, MailSent
  <2> QED
    BY <1>12, <2>1 DEF TypeInv, TypeOK, HasRelease, MailSent, WorkerPcs
<1>13. ASSUME NEW s \in Subs, MailFails(i, w, s)
       PROVE  TypeInv'
  <2>1. tag[i][w] \in Tags
    BY <1>13 DEF TypeInv, HasRelease, MailFails
  <2> QED
    BY <1>13, <2>1, NextSubType DEF TypeInv, TypeOK, WorkerTypes, MailFails
<1> QED
  BY <1>1, <1>2, <1>3, <1>4, <1>5, <1>6, <1>7, <1>8, <1>9, <1>10, <1>11, <1>12, <1>13
  DEF WorkerStep, SendStep

LEMMA EnvType == TypeInv /\ EnvStep => TypeInv'
<1> SUFFICES ASSUME TypeInv, EnvStep
             PROVE  TypeInv'
  OBVIOUS
<1> USE DEF TypeInv, HasRelease, TypeOK, db, process, worker, world
<1>1. ASSUME NEW i \in Instances, Cancel(i)
      PROVE  TypeInv'
  BY <1>1 DEF Cancel
<1>2. ASSUME NEW i \in Instances, Exit(i)
      PROVE  TypeInv'
  BY <1>2 DEF Exit, Goto, Phases, NoTags, WorkerPcs
<1>3. ASSUME NEW i \in Instances, LoseSession(i)
      PROVE  TypeInv'
  BY <1>3 DEF LoseSession
<1>4. CASE ReapSession
  BY <1>4 DEF ReapSession
<1>5. ASSUME NEW r \in Repos, Expire(r)
      PROVE  TypeInv'
  BY <1>5 DEF Expire
<1>6. ASSUME NEW r \in Repos, NEW t \in Tags, Publish(r, t)
      PROVE  TypeInv'
  BY <1>6 DEF Publish
<1>7. ASSUME NEW s \in Subs, Confirm(s)
      PROVE  TypeInv'
  BY <1>7 DEF Confirm
<1>8. ASSUME NEW s \in Subs, Unsubscribe(s)
      PROVE  TypeInv'
  BY <1>8 DEF Unsubscribe
<1> QED
  BY <1>1, <1>2, <1>3, <1>4, <1>5, <1>6, <1>7, <1>8 DEF EnvStep, EndSession

LEMMA TypeStep == TypeInv /\ [Next]_vars => TypeInv'
<1> SUFFICES ASSUME TypeInv, [Next]_vars
             PROVE  TypeInv'
  OBVIOUS
<1>1. CASE UNCHANGED vars
  BY <1>1 DEF TypeInv, TypeOK, HasRelease, vars, db, process, worker, world
<1> QED
  BY <1>1, ScanType, WorkerType, EnvType DEF Next

\* Every variable keeps its type, and a worker inside the loop has a stable release.
THEOREM TypeCorrect == Spec => [](TypeOK /\ HasRelease)
<1>1. Init => TypeInv
  BY DEF Init, TypeInv, TypeOK, HasRelease, NoTags, Phases, WorkerPcs
<1>2. TypeInv /\ [Next]_vars => TypeInv'
  BY TypeStep
<1>3. TypeInv => TypeOK /\ HasRelease
  BY DEF TypeInv
<1> QED
  BY <1>1, <1>2, <1>3, PTL DEF Spec

-----------------------------------------------------------------------------
(* Frames: what the steps of a worker leave alone. *)

Others(i, w) ==
    \A j \in Instances, x \in Workers : j # i \/ x # w =>
        /\ wpc'[j][x] = wpc[j][x]
        /\ todo'[j][x] = todo[j][x]
        /\ tag'[j][x] = tag[j][x]

LEMMA NextSubEffect ==
    ASSUME TypeOK, NEW i \in Instances, NEW w \in Workers, NEW s \in Subs, NextSub(i, w, s)
    PROVE  /\ Others(i, w)
           /\ \/ wpc'[i][w] = "idle" /\ todo'[i][w] = {}
              \/ wpc'[i][w] = "check" /\ todo'[i][w] = todo[i][w] \ {s}
<1>1. CASE todo[i][w] = {s}
  BY <1>1 DEF NextSub, EndJob, TypeOK, Others
<1>2. CASE todo[i][w] # {s}
  BY <1>2 DEF NextSub, TypeOK, Others
<1> QED
  BY <1>1, <1>2

\* A worker's step changes nothing of the process, the lock and the other workers, and
\* deletes or confirms no subscription.
LEMMA WorkerFrame ==
    ASSUME TypeOK, NEW i \in Instances, NEW w \in Workers, WorkerStep(i, w) \/ SendStep(i, w)
    PROVE  UNCHANGED <<lockHolder, process, row>> /\ Others(i, w) /\ wpc[i][w] # "exited"
<1> USE DEF db, process, worker, world
<1>1. ASSUME NEW t \in Tags \cup {NoTag}, WithRelease(i, w, t)
      PROVE  Others(i, w)
  <2>1. CASE t \in StableTags
    BY <1>1, <2>1 DEF TypeOK, Others, WithRelease
  <2>2. CASE t \notin StableTags
    BY <1>1, <2>2 DEF TypeOK, Others, WithRelease, EndJob
  <2> QED
    BY <2>1, <2>2
<1>2. ASSUME NEW r \in Repos, ReleaseFromCache(i, w, r) \/ ReleaseFromGitHub(i, w, r)
      PROVE  UNCHANGED <<lockHolder, process, row>> /\ Others(i, w) /\ wpc[i][w] # "exited"
  BY <1>1, <1>2 DEF TypeOK, ReleaseFromCache, ReleaseFromGitHub
<1>3. ASSUME NEW r \in Repos, ReleaseUnavailable(i, w, r)
      PROVE  UNCHANGED <<lockHolder, process, row>> /\ Others(i, w) /\ wpc[i][w] # "exited"
  BY <1>3 DEF TypeOK, Others, ReleaseUnavailable, EndJob
<1>4. CASE Abandon(i, w)
  BY <1>4 DEF TypeOK, Others, Abandon, EndJob
<1>5. CASE WorkerExit(i, w)
  BY <1>5 DEF TypeOK, Others, WorkerExit
<1>6. ASSUME NEW s \in Subs, NotNotified(i, w, s) \/ MailSent(i, w, s) \/ MarkNotified(i, w, s)
      PROVE  UNCHANGED <<lockHolder, process, row>> /\ Others(i, w) /\ wpc[i][w] # "exited"
  BY <1>6 DEF TypeOK, Others, NotNotified, MailSent, MarkNotified
<1>7. ASSUME NEW s \in Subs,
             \/ Skip(i, w, s) \/ MailFails(i, w, s) \/ MarkFails(i, w, s)
             \/ UpdateLastSeenTag(i, w, s) \/ UpdateFails(i, w, s)
      PROVE  UNCHANGED <<lockHolder, process, row>> /\ Others(i, w) /\ wpc[i][w] # "exited"
  BY <1>7, NextSubEffect DEF Skip, MailFails, MarkFails, UpdateLastSeenTag, UpdateFails
<1> QED
  BY <1>2, <1>3, <1>4, <1>5, <1>6, <1>7 DEF WorkerStep, SendStep

-----------------------------------------------------------------------------
(* The advisory lock.  LockExclusion is inductive as it stands. *)

LEMMA LockStep == TypeOK /\ LockExclusion /\ [Next]_vars => LockExclusion'
<1> SUFFICES ASSUME TypeOK, LockExclusion, [Next]_vars
             PROVE  LockExclusion'
  OBVIOUS
<1>1. CASE UNCHANGED vars
  BY <1>1 DEF LockExclusion, Scanning, vars, process
<1>2. ASSUME NEW i \in Instances, NEW w \in Workers, WorkerStep(i, w) \/ SendStep(i, w)
      PROVE  LockExclusion'
  BY <1>2, WorkerFrame DEF LockExclusion, Scanning, process
<1> USE LockAssumption DEF TypeOK, LockExclusion, Scanning, Goto
<1>3. ASSUME NEW i \in Instances, Start(i) \/ AcquireDenied(i) \/ FetchNothing(i) \/ JoinWorkers(i)
                                  \/ Tick(i) \/ Stop(i)
      PROVE  LockExclusion'
  BY <1>3 DEF Start, AcquireDenied, FetchNothing, JoinWorkers, Tick, Stop
<1>4. ASSUME NEW i \in Instances, Acquire(i)
      PROVE  LockExclusion'
  BY <1>4 DEF Acquire
<1>5. ASSUME NEW i \in Instances, AcquireFails(i)
      PROVE  LockExclusion'
  BY <1>5 DEF AcquireFails
<1>6. ASSUME NEW i \in Instances, Fetch(i) \/ CloseJobs(i)
      PROVE  LockExclusion'
  BY <1>6 DEF Fetch, CloseJobs
<1>7. ASSUME NEW i \in Instances, NEW w \in Workers, NEW r \in Repos, Dispatch(i, w, r)
      PROVE  LockExclusion'
  BY <1>7 DEF Dispatch
<1>8. ASSUME NEW i \in Instances, Release(i)
      PROVE  LockExclusion'
  BY <1>8 DEF Release
<1>9. ASSUME NEW i \in Instances, Cancel(i)
      PROVE  LockExclusion'
  BY <1>9 DEF Cancel
<1>10. ASSUME NEW i \in Instances, Exit(i)
       PROVE  LockExclusion'
  BY <1>10 DEF Exit
<1>11. ASSUME NEW i \in Instances, LoseSession(i)
       PROVE  LockExclusion'
  BY <1>11 DEF LoseSession
<1>12. CASE ReapSession
  BY <1>12 DEF ReapSession, process
<1>13. ASSUME NEW r \in Repos, NEW t \in Tags, Publish(r, t)
       PROVE  LockExclusion'
  BY <1>13 DEF Publish, process
<1>14. ASSUME NEW r \in Repos, Expire(r)
       PROVE  LockExclusion'
  BY <1>14 DEF Expire, process
<1>15. ASSUME NEW s \in Subs, Confirm(s) \/ Unsubscribe(s)
       PROVE  LockExclusion'
  BY <1>15 DEF Confirm, Unsubscribe, process
<1> QED
  BY <1>1, <1>2, <1>3, <1>4, <1>5, <1>6, <1>7, <1>8, <1>9, <1>10, <1>11, <1>12, <1>13, <1>14, <1>15
  DEF Next, ScanStep, EnvStep, EndSession

\* A scan whose connection is not broken holds the advisory lock, alone.
THEOREM LockSafe == Spec => []LockExclusion
<1>1. Init => LockExclusion
  BY LockAssumption DEF Init, LockExclusion, Scanning
<1>2. TypeOK /\ LockExclusion /\ [Next]_vars => LockExclusion'
  BY LockStep
<1>3. Spec => []TypeOK
  BY TypeCorrect, PTL
<1> QED
  BY <1>1, <1>2, <1>3, PTL DEF Spec

-----------------------------------------------------------------------------
(* Workers and the scan they belong to. *)

LEMMA OutliveStep == TypeOK /\ NoWorkerOutlivesScan /\ [Next]_vars => NoWorkerOutlivesScan'
<1> SUFFICES ASSUME TypeOK, NoWorkerOutlivesScan, [Next]_vars
             PROVE  NoWorkerOutlivesScan'
  OBVIOUS
<1> USE DEF NoWorkerOutlivesScan, AllExited
<1>1. CASE UNCHANGED vars
  BY <1>1 DEF vars, process, worker
<1>2. ASSUME NEW i \in Instances, NEW w \in Workers, WorkerStep(i, w) \/ SendStep(i, w)
      PROVE  NoWorkerOutlivesScan'
  <2>1. phase[i] \in {"dispatch", "drain"} /\ phase' = phase
    BY <1>2, WorkerFrame DEF process
  <2>2. ASSUME NEW j \in Instances, j # i
        PROVE  AllExited(j)' <=> AllExited(j)
    BY <1>2, <2>2, WorkerFrame DEF Others
  <2> QED
    BY <2>1, <2>2
<1> USE DEF TypeOK, Goto
<1>3. ASSUME NEW i \in Instances, Start(i) \/ Acquire(i) \/ AcquireDenied(i) \/ AcquireFails(i)
                                  \/ FetchNothing(i) \/ JoinWorkers(i) \/ Release(i)
      PROVE  NoWorkerOutlivesScan'
  BY <1>3 DEF Start, Acquire, AcquireDenied, AcquireFails, FetchNothing, JoinWorkers, Release, worker
<1>4. ASSUME NEW i \in Instances, Fetch(i)
      PROVE  NoWorkerOutlivesScan'
  BY <1>4 DEF Fetch
<1>5. ASSUME NEW i \in Instances, CloseJobs(i) \/ Tick(i) \/ Stop(i)
      PROVE  NoWorkerOutlivesScan'
  BY <1>5 DEF CloseJobs, Tick, Stop, worker
<1>6. ASSUME NEW i \in Instances, NEW w \in Workers, NEW r \in Repos, Dispatch(i, w, r)
      PROVE  NoWorkerOutlivesScan'
  BY <1>6 DEF Dispatch
<1>7. ASSUME NEW i \in Instances, Exit(i)
      PROVE  NoWorkerOutlivesScan'
  BY <1>7 DEF Exit
<1>8. ASSUME NEW i \in Instances, Cancel(i) \/ LoseSession(i)
      PROVE  NoWorkerOutlivesScan'
  BY <1>8 DEF Cancel, LoseSession, worker
<1>9. CASE ReapSession
  BY <1>9 DEF ReapSession, process, worker
<1>10. ASSUME NEW r \in Repos, Expire(r)
       PROVE  NoWorkerOutlivesScan'
  BY <1>10 DEF Expire, process, worker
<1>11. ASSUME NEW r \in Repos, NEW t \in Tags, Publish(r, t)
       PROVE  NoWorkerOutlivesScan'
  BY <1>11 DEF Publish, process, worker
<1>12. ASSUME NEW s \in Subs, Confirm(s) \/ Unsubscribe(s)
       PROVE  NoWorkerOutlivesScan'
  BY <1>12 DEF Confirm, Unsubscribe, process, worker
<1> QED
  BY <1>1, <1>2, <1>3, <1>4, <1>5, <1>6, <1>7, <1>8, <1>9, <1>10, <1>11, <1>12
  DEF Next, ScanStep, EnvStep, EndSession

\* No worker runs outside of the scan that started it: the lock is given back after
\* wg.Wait, on every path through scan.
THEOREM WorkersJoined == Spec => []NoWorkerOutlivesScan
<1>1. Init => NoWorkerOutlivesScan
  <2>1. ASSUME Init, NEW i \in Instances, NEW w \in Workers
        PROVE  wpc[i][w] = "exited"
    BY <2>1 DEF Init
  <2> QED
    BY <2>1 DEF NoWorkerOutlivesScan, AllExited
<1>2. TypeOK /\ NoWorkerOutlivesScan /\ [Next]_vars => NoWorkerOutlivesScan'
  BY OutliveStep
<1>3. Spec => []TypeOK
  BY TypeCorrect, PTL
<1> QED
  BY <1>1, <1>2, <1>3, PTL DEF Spec

-----------------------------------------------------------------------------
(* Mail and its records. *)

\* A job has one current subscription.
LEMMA CurrentUnique ==
    ASSUME NEW i \in Instances, NEW w \in Workers, NEW s \in Subs, NEW u \in Subs,
           Current(i, w, s), Current(i, w, u)
    PROVE  s = u
BY SubsAssumption DEF Current

Same(i, w) ==
    /\ wpc'[i][w] = wpc[i][w]
    /\ todo'[i][w] = todo[i][w]
    /\ tag'[i][w] = tag[i][w]

\* The steps that are no worker's leave a worker alone, start it, give it a job or end it
\* with its process.
LEMMA OtherFrame ==
    ASSUME TypeOK, (\E i \in Instances : ScanStep(i) \/ Stop(i)) \/ EnvStep
    PROVE  /\ mailed' = mailed
           /\ \A j \in Instances, x \in Workers :
                Same(j, x) \/ wpc'[j][x] \in {"exited", "idle", "start"}
<1> USE DEF Same, db, worker, world
<1>1. ASSUME NEW i \in Instances,
             \/ Start(i) \/ Acquire(i) \/ AcquireDenied(i) \/ AcquireFails(i) \/ FetchNothing(i)
             \/ CloseJobs(i) \/ JoinWorkers(i) \/ Release(i) \/ Tick(i) \/ Stop(i)
             \/ Cancel(i) \/ LoseSession(i)
      PROVE  mailed' = mailed /\ UNCHANGED worker
  BY <1>1 DEF Start, Acquire, AcquireDenied, AcquireFails, FetchNothing, CloseJobs, JoinWorkers,
              Release, Tick, Stop, Cancel, LoseSession
<1>2. ASSUME NEW i \in Instances, Fetch(i)
      PROVE  /\ mailed' = mailed
             /\ \A j \in Instances, x \in Workers : Same(j, x) \/ wpc'[j][x] = "idle"
  BY <1>2 DEF Fetch, TypeOK
<1>3. ASSUME NEW i \in Instances, NEW w \in Workers, NEW r \in Repos, Dispatch(i, w, r)
      PROVE  /\ mailed' = mailed
             /\ \A j \in Instances, x \in Workers : Same(j, x) \/ wpc'[j][x] = "start"
  BY <1>3 DEF Dispatch, TypeOK
<1>4. ASSUME NEW i \in Instances, Exit(i)
      PROVE  /\ mailed' = mailed
             /\ \A j \in Instances, x \in Workers : Same(j, x) \/ wpc'[j][x] = "exited"
  BY <1>4 DEF Exit, TypeOK
<1>5. ASSUME NEW r \in Repos, Expire(r)
      PROVE  mailed' = mailed /\ UNCHANGED worker
  BY <1>5 DEF Expire
<1>6. ASSUME NEW r \in Repos, NEW t \in Tags, Publish(r, t)
      PROVE  mailed' = mailed /\ UNCHANGED worker
  BY <1>6 DEF Publish
<1>7. ASSUME NEW s \in Subs, Confirm(s) \/ Unsubscribe(s)
      PROVE  mailed' = mailed /\ UNCHANGED worker
  BY <1>7 DEF Confirm, Unsubscribe
<1>8. ReapSession => mailed' = mailed /\ UNCHANGED worker
  BY DEF ReapSession
<1> QED
  BY <1>1, <1>2, <1>3, <1>4, <1>5, <1>6, <1>7, <1>8 DEF ScanStep, EnvStep, EndSession

\* The mail of the subscription a worker is about to record was delivered.
MailedBeforeMark ==
    \A i \in Instances, w \in Workers, s \in Subs :
        wpc[i][w] = "mark" /\ Current(i, w, s) => <<s, tag[i][w]>> \in mailed

MailInv == RecordedWasMailed /\ MailedBeforeMark

LEMMA MailStep == TypeOK /\ MailInv /\ [Next]_vars => MailInv'
<1> SUFFICES ASSUME TypeOK, MailInv, [Next]_vars
             PROVE  MailInv'
  OBVIOUS
<1>1. CASE UNCHANGED vars
  BY <1>1 DEF MailInv, RecordedWasMailed, MailedBeforeMark, Current, vars, db, worker, world
<1>2. CASE (\E i \in Instances : ScanStep(i) \/ Stop(i)) \/ EnvStep
  <2>1. MailedBeforeMark'
    BY <1>2, OtherFrame DEF MailInv, MailedBeforeMark, Current, Same
  <2>2. log' \subseteq log
    BY <1>2 DEF ScanStep, EnvStep, EndSession, Start, Acquire, AcquireDenied, AcquireFails, Fetch, FetchNothing,
                Dispatch, CloseJobs, JoinWorkers, Release, Tick, Stop, Cancel, Exit, LoseSession,
                ReapSession, Expire, Publish, Confirm, Unsubscribe, db
  <2> QED
    BY <2>1, <2>2, <1>2, OtherFrame DEF MailInv, RecordedWasMailed
<1>3. ASSUME NEW i \in Instances, NEW w \in Workers, WorkerStep(i, w) \/ SendStep(i, w)
      PROVE  MailInv'
  <2> DEFINE Own == \A s \in Subs : wpc'[i][w] = "mark" /\ Current(i, w, s)' => <<s, tag'[i][w]>> \in mailed'
  <2>1. SUFFICES RecordedWasMailed' /\ Own /\ mailed \subseteq mailed'
    BY <1>3, WorkerFrame DEF MailInv, MailedBeforeMark, Others, Current
  <2> USE DEF MailInv, RecordedWasMailed, MailedBeforeMark, TypeOK, db, world
  <2>2. ASSUME NEW t \in Tags \cup {NoTag}, WithRelease(i, w, t)
        PROVE  wpc'[i][w] # "mark"
    <3>1. CASE t \in StableTags
      BY <2>2, <3>1 DEF WithRelease
    <3>2. CASE t \notin StableTags
      BY <2>2, <3>2 DEF WithRelease, EndJob
    <3> QED
      BY <3>1, <3>2
  <2>3. ASSUME NEW r \in Repos, ReleaseFromCache(i, w, r) \/ ReleaseFromGitHub(i, w, r)
        PROVE  RecordedWasMailed' /\ Own /\ mailed \subseteq mailed'
    BY <2>2, <2>3 DEF ReleaseFromCache, ReleaseFromGitHub
  <2>4. ASSUME NEW r \in Repos, ReleaseUnavailable(i, w, r)
        PROVE  RecordedWasMailed' /\ Own /\ mailed \subseteq mailed'
    BY <2>4 DEF ReleaseUnavailable, EndJob
  <2>5. CASE Abandon(i, w) \/ WorkerExit(i, w)
    BY <2>5 DEF Abandon, WorkerExit, EndJob
  <2>6. ASSUME NEW s \in Subs, NextSub(i, w, s)
        PROVE  wpc'[i][w] # "mark"
    BY <2>6, NextSubEffect
  <2>7. ASSUME NEW s \in Subs, Skip(i, w, s) \/ UpdateLastSeenTag(i, w, s) \/ UpdateFails(i, w, s)
        PROVE  RecordedWasMailed' /\ Own /\ mailed \subseteq mailed'
    BY <2>6, <2>7 DEF Skip, UpdateLastSeenTag, UpdateFails
  <2>8. ASSUME NEW s \in Subs, NotNotified(i, w, s)
        PROVE  RecordedWasMailed' /\ Own /\ mailed \subseteq mailed'
    BY <2>8 DEF NotNotified
  <2>9. ASSUME NEW s \in Subs, MailSent(i, w, s)
        PROVE  RecordedWasMailed' /\ Own /\ mailed \subseteq mailed'
    <3>1. \A u \in Subs : Current(i, w, u)' => u = s
      BY <2>9, CurrentUnique DEF MailSent, Current
    <3> QED
      BY <2>9, <3>1 DEF MailSent
  <2>10. ASSUME NEW s \in Subs, MailFails(i, w, s)
         PROVE  RecordedWasMailed' /\ Own /\ mailed \subseteq mailed'
    BY <2>6, <2>10 DEF MailFails
  <2>11. ASSUME NEW s \in Subs, MarkNotified(i, w, s)
         PROVE  RecordedWasMailed' /\ Own /\ mailed \subseteq mailed'
    BY <2>11 DEF MarkNotified
  <2>12. ASSUME NEW s \in Subs, MarkFails(i, w, s)
         PROVE  RecordedWasMailed' /\ Own /\ mailed \subseteq mailed'
    BY <2>6, <2>12 DEF MarkFails
  <2> QED
    BY <1>3, <2>3, <2>4, <2>5, <2>7, <2>8, <2>9, <2>10, <2>11, <2>12 DEF WorkerStep, SendStep
<1> QED
  BY <1>1, <1>2, <1>3 DEF Next

\* The inductive invariant behind the theorem that follows.
LEMMA MailAlways == Spec => []MailInv
<1>1. Init => MailInv
  <2>1. ASSUME Init, NEW i \in Instances, NEW w \in Workers
        PROVE  wpc[i][w] = "exited"
    BY <2>1 DEF Init
  <2> QED
    BY <2>1 DEF Init, MailInv, RecordedWasMailed, MailedBeforeMark
<1>2. TypeOK /\ MailInv /\ [Next]_vars => MailInv'
  BY MailStep
<1>3. Spec => []TypeOK
  BY TypeCorrect, PTL
<1> QED
  BY <1>1, <1>2, <1>3, PTL DEF Spec

\* Whatever fails and wherever a process dies, notification_log holds only tags that were
\* mailed: a release is never lost because it was recorded first.
THEOREM NothingLost == Spec => []RecordedWasMailed
<1>1. MailInv => RecordedWasMailed
  BY DEF MailInv
<1> QED
  BY <1>1, MailAlways, PTL

\* The notification of the subscription a worker is about to update is in the log, unless
\* the subscription is gone with its log.
RecordedBeforeUpdate ==
    \A i \in Instances, w \in Workers, s \in Subs :
        wpc[i][w] = "update" /\ Current(i, w, s) => row[s] = "deleted" \/ <<s, tag[i][w]>> \in log

RecordInv == LastSeenWasRecorded /\ RecordedBeforeUpdate

\* What a step that is no worker's may do to the tables.
LEMMA OtherTables ==
    ASSUME TypeOK, (\E i \in Instances : ScanStep(i) \/ Stop(i)) \/ EnvStep
    PROVE  \A s \in Subs :
             \/ /\ row'[s] = "deleted" /\ lastSeen'[s] = NoTag
             \/ /\ lastSeen'[s] = lastSeen[s]
                /\ row[s] = "deleted" <=> row'[s] = "deleted"
                /\ \A t \in Tags : <<s, t>> \in log <=> <<s, t>> \in log'
<1>1. ASSUME NEW i \in Instances, ScanStep(i) \/ Stop(i) \/ Cancel(i) \/ Exit(i) \/ LoseSession(i)
      PROVE  UNCHANGED db
  BY <1>1 DEF ScanStep, Start, Acquire, AcquireDenied, AcquireFails, Fetch, FetchNothing, Dispatch,
              CloseJobs, JoinWorkers, Release, Tick, Stop, Cancel, Exit, LoseSession
<1>2. ASSUME NEW r \in Repos, Expire(r)
      PROVE  UNCHANGED db
  BY <1>2 DEF Expire
<1>3. ASSUME NEW r \in Repos, NEW t \in Tags, Publish(r, t)
      PROVE  UNCHANGED db
  BY <1>3 DEF Publish
<1>4. ReapSession => UNCHANGED db
  BY DEF ReapSession
<1>5. ASSUME NEW u \in Subs, Confirm(u), NEW s \in Subs
      PROVE  /\ lastSeen'[s] = lastSeen[s] /\ log' = log
             /\ row[s] = "deleted" <=> row'[s] = "deleted"
  BY <1>5 DEF Confirm, TypeOK
<1>6. ASSUME NEW u \in Subs, Unsubscribe(u), NEW s \in Subs
      PROVE  \/ /\ row'[s] = "deleted" /\ lastSeen'[s] = NoTag
             \/ /\ lastSeen'[s] = lastSeen[s]
                /\ row[s] = "deleted" <=> row'[s] = "deleted"
                /\ \A t \in Tags : <<s, t>> \in log <=> <<s, t>> \in log'
  <2>1. CASE s = u
    BY <1>6, <2>1 DEF Unsubscribe, TypeOK
  <2>2. CASE s # u
    BY <1>6, <2>2 DEF Unsubscribe, TypeOK
  <2> QED
    BY <2>1, <2>2
<1> QED
  BY <1>1, <1>2, <1>3, <1>4, <1>5, <1>6 DEF EnvStep, EndSession, db

LEMMA RecordStep == TypeInv /\ RecordInv /\ [Next]_vars => RecordInv'
<1> SUFFICES ASSUME TypeInv, RecordInv, [Next]_vars
             PROVE  RecordInv'
  OBVIOUS
<1>t. TypeOK
  BY DEF TypeInv
<1>1. CASE UNCHANGED vars
  BY <1>1 DEF RecordInv, LastSeenWasRecorded, RecordedBeforeUpdate, Current, vars, db, worker
<1>2. CASE (\E i \in Instances : ScanStep(i) \/ Stop(i)) \/ EnvStep
  <2>1. LastSeenWasRecorded'
    BY <1>2, <1>t, OtherTables DEF RecordInv, LastSeenWasRecorded, TypeOK
  <2>2. ASSUME NEW i \in Instances, NEW w \in Workers, NEW s \in Subs,
               wpc'[i][w] = "update", Current(i, w, s)'
        PROVE  row'[s] = "deleted" \/ <<s, tag'[i][w]>> \in log'
    <3>1. Same(i, w)
      BY <1>2, <1>t, <2>2, OtherFrame
    <3>2. tag[i][w] \in Tags
      BY <2>2, <3>1, TagAssumption DEF TypeInv, HasRelease, Same
    <3> QED
      BY <1>2, <1>t, <2>2, <3>1, <3>2, OtherTables DEF RecordInv, RecordedBeforeUpdate, Current, Same
  <2> QED
    BY <2>1, <2>2 DEF RecordInv, RecordedBeforeUpdate
<1>3. ASSUME NEW i \in Instances, NEW w \in Workers, WorkerStep(i, w) \/ SendStep(i, w)
      PROVE  RecordInv'
  <2> DEFINE Own == \A s \in Subs : wpc'[i][w] = "update" /\ Current(i, w, s)'
                        => row[s] = "deleted" \/ <<s, tag'[i][w]>> \in log'
             Good == LastSeenWasRecorded' /\ Own /\ log \subseteq log'
  <2>1. SUFFICES Good
    BY <1>3, <1>t, WorkerFrame DEF RecordInv, RecordedBeforeUpdate, Others, Current
  <2> USE <1>t DEF RecordInv, LastSeenWasRecorded, RecordedBeforeUpdate, TypeOK, db, world
  <2>2. ASSUME NEW t \in Tags \cup {NoTag}, WithRelease(i, w, t)
        PROVE  wpc'[i][w] # "update"
    <3>1. CASE t \in StableTags
      BY <2>2, <3>1 DEF WithRelease
    <3>2. CASE t \notin StableTags
      BY <2>2, <3>2 DEF WithRelease, EndJob
    <3> QED
      BY <3>1, <3>2
  <2>3. ASSUME NEW r \in Repos, ReleaseFromCache(i, w, r) \/ ReleaseFromGitHub(i, w, r)
        PROVE  Good
    BY <2>2, <2>3 DEF ReleaseFromCache, ReleaseFromGitHub
  <2>4. ASSUME NEW r \in Repos, ReleaseUnavailable(i, w, r)
        PROVE  Good
    BY <2>4 DEF ReleaseUnavailable, EndJob
  <2>5. CASE Abandon(i, w) \/ WorkerExit(i, w)
    BY <2>5 DEF Abandon, WorkerExit, EndJob
  <2>6. ASSUME NEW s \in Subs, NextSub(i, w, s)
        PROVE  wpc'[i][w] # "update"
    BY <2>6, NextSubEffect
  <2>7. ASSUME NEW s \in Subs, Skip(i, w, s) \/ MailFails(i, w, s) \/ UpdateFails(i, w, s)
        PROVE  Good
    BY <2>6, <2>7 DEF Skip, MailFails, UpdateFails
  <2>8. ASSUME NEW s \in Subs, NotNotified(i, w, s) \/ MailSent(i, w, s)
        PROVE  Good
    BY <2>8 DEF NotNotified, MailSent
  <2>9. ASSUME NEW s \in Subs, MarkNotified(i, w, s)
        PROVE  Good
    <3>1. \A u \in Subs : Current(i, w, u)' => u = s
      BY <2>9, CurrentUnique DEF MarkNotified, Current
    <3> QED
      BY <2>9, <3>1 DEF MarkNotified
  <2>10. ASSUME NEW s \in Subs, MarkFails(i, w, s)
         PROVE  Good
    BY <2>6, <2>10 DEF MarkFails
  <2>11. ASSUME NEW s \in Subs, UpdateLastSeenTag(i, w, s)
         PROVE  Good
    BY <2>6, <2>11 DEF UpdateLastSeenTag
  <2> QED
    BY <1>3, <2>3, <2>4, <2>5, <2>7, <2>8, <2>9, <2>10, <2>11 DEF WorkerStep, SendStep
<1> QED
  BY <1>1, <1>2, <1>3 DEF Next

\* The inductive invariant behind the theorem that follows.
LEMMA RecordAlways == Spec => []RecordInv
<1>1. Init => RecordInv
  <2>1. ASSUME Init, NEW i \in Instances, NEW w \in Workers
        PROVE  wpc[i][w] = "exited"
    BY <2>1 DEF Init
  <2> QED
    BY <2>1 DEF Init, RecordInv, LastSeenWasRecorded, RecordedBeforeUpdate, NoTags
<1>2. TypeInv /\ RecordInv /\ [Next]_vars => RecordInv'
  BY RecordStep
<1>3. Spec => []TypeInv
  BY TypeCorrect DEF TypeInv
<1> QED
  BY <1>1, <1>2, <1>3, PTL DEF Spec

\* last_seen_tag is a tag that notification_log has for the subscription, whatever fails and
\* whatever is deleted meanwhile.
THEOREM LastSeenRecorded == Spec => []LastSeenWasRecorded
<1>1. RecordInv => LastSeenWasRecorded
  BY DEF RecordInv
<1> QED
  BY <1>1, RecordAlways, PTL

-----------------------------------------------------------------------------
(* No mail about a recorded tag, as long as no session breaks.                            *)
(*                                                                                        *)
(* Between WasNotified and the mail only another worker could record the same pair.  A    *)
(* worker of another instance cannot, because only the holder of the lock has workers; a  *)
(* worker of the same scan cannot, because the jobs of a scan share no subscription.      *)

JobsDisjoint ==
    \A i \in Instances, w \in Workers :
        /\ wpc[i][w] \in {"exited", "idle"} => todo[i][w] = {}
        /\ todo[i][w] \cap queue[i] = {}
        /\ \A x \in Workers : x # w => todo[i][w] \cap todo[i][x] = {}

\* Workers only take subscriptions away from their own job.
LEMMA WorkerJobs ==
    ASSUME TypeOK, NEW i \in Instances, NEW w \in Workers, WorkerStep(i, w) \/ SendStep(i, w)
    PROVE  /\ todo'[i][w] \subseteq todo[i][w]
           /\ wpc'[i][w] \in {"exited", "idle"} => todo'[i][w] = {} \/ wpc[i][w] = "idle"
<1> USE DEF TypeOK
<1> DEFINE Good == /\ todo'[i][w] \subseteq todo[i][w]
                   /\ wpc'[i][w] \in {"exited", "idle"} => todo'[i][w] = {} \/ wpc[i][w] = "idle"
<1>1. ASSUME NEW t \in Tags \cup {NoTag}, WithRelease(i, w, t)
      PROVE  Good
  <2>1. CASE t \in StableTags
    BY <1>1, <2>1 DEF WithRelease
  <2>2. CASE t \notin StableTags
    BY <1>1, <2>2 DEF WithRelease, EndJob
  <2> QED
    BY <2>1, <2>2
<1>2. ASSUME NEW r \in Repos, ReleaseFromCache(i, w, r) \/ ReleaseFromGitHub(i, w, r)
      PROVE  Good
  BY <1>1, <1>2 DEF ReleaseFromCache, ReleaseFromGitHub
<1>3. ASSUME NEW r \in Repos, ReleaseUnavailable(i, w, r)
      PROVE  Good
  BY <1>3 DEF ReleaseUnavailable, EndJob
<1>4. CASE Abandon(i, w) \/ WorkerExit(i, w)
  BY <1>4 DEF Abandon, WorkerExit, EndJob
<1>5. ASSUME NEW s \in Subs, NextSub(i, w, s)
      PROVE  Good
  BY <1>5, NextSubEffect
<1>6. ASSUME NEW s \in Subs,
             \/ Skip(i, w, s) \/ MailFails(i, w, s) \/ MarkFails(i, w, s)
             \/ UpdateLastSeenTag(i, w, s) \/ UpdateFails(i, w, s)
      PROVE  Good
  BY <1>5, <1>6 DEF Skip, MailFails, MarkFails, UpdateLastSeenTag, UpdateFails
<1>7. ASSUME NEW s \in Subs, NotNotified(i, w, s) \/ MailSent(i, w, s) \/ MarkNotified(i, w, s)
      PROVE  Good
  BY <1>7 DEF NotNotified, MailSent, MarkNotified
<1> QED
  BY <1>2, <1>3, <1>4, <1>6, <1>7 DEF WorkerStep, SendStep

LEMMA JobsStep ==
    TypeOK /\ NoWorkerOutlivesScan /\ JobsDisjoint /\ [Next]_vars => JobsDisjoint'
<1> SUFFICES ASSUME TypeOK, NoWorkerOutlivesScan, JobsDisjoint, [Next]_vars
             PROVE  JobsDisjoint'
  OBVIOUS
<1>1. CASE UNCHANGED vars
  BY <1>1 DEF JobsDisjoint, vars, worker, process
<1>2. ASSUME NEW i \in Instances, NEW w \in Workers, WorkerStep(i, w) \/ SendStep(i, w)
      PROVE  JobsDisjoint'
  <2>1. queue' = queue /\ Others(i, w)
    BY <1>2, WorkerFrame DEF process
  <2>2. /\ todo'[i][w] \subseteq todo[i][w]
        /\ wpc'[i][w] \in {"exited", "idle"} => todo'[i][w] = {} \/ wpc[i][w] = "idle"
    BY <1>2, WorkerJobs
  <2>3. \A j \in Instances, x \in Workers : todo'[j][x] \subseteq todo[j][x]
    BY <2>1, <2>2 DEF Others
  <2>4. \A j \in Instances, x \in Workers : wpc'[j][x] \in {"exited", "idle"} => todo'[j][x] = {}
    BY <2>1, <2>2 DEF Others, JobsDisjoint
  <2> QED
    BY <2>1, <2>3, <2>4 DEF JobsDisjoint
<1> USE DEF TypeOK, JobsDisjoint
<1>3. ASSUME NEW i \in Instances,
             \/ Start(i) \/ Acquire(i) \/ AcquireDenied(i) \/ AcquireFails(i) \/ FetchNothing(i)
             \/ JoinWorkers(i) \/ Release(i) \/ Tick(i) \/ Stop(i) \/ Cancel(i) \/ LoseSession(i)
      PROVE  UNCHANGED <<worker, queue>>
  BY <1>3 DEF Start, Acquire, AcquireDenied, AcquireFails, FetchNothing, JoinWorkers, Release, Tick,
              Stop, Cancel, LoseSession
<1>4. ASSUME NEW i \in Instances, Fetch(i)
      PROVE  JobsDisjoint'
  <2>1. \A w \in Workers : todo[i][w] = {}
    BY <1>4 DEF Fetch, NoWorkerOutlivesScan, AllExited
  <2> QED
    BY <1>4, <2>1 DEF Fetch
<1>5. ASSUME NEW i \in Instances, NEW w \in Workers, NEW r \in Repos, Dispatch(i, w, r)
      PROVE  JobsDisjoint'
  <2>1. /\ todo' = [todo EXCEPT ![i][w] = JobOf(i, r)]
        /\ queue' = [queue EXCEPT ![i] = queue[i] \ JobOf(i, r)]
        /\ wpc' = [wpc EXCEPT ![i][w] = "start"]
        /\ JobOf(i, r) \subseteq queue[i]
    BY <1>5 DEF Dispatch, JobOf
  <2> QED
    BY <2>1
<1>6. ASSUME NEW i \in Instances, CloseJobs(i)
      PROVE  JobsDisjoint'
  BY <1>6 DEF CloseJobs, worker
<1>7. ASSUME NEW i \in Instances, Exit(i)
      PROVE  JobsDisjoint'
  BY <1>7 DEF Exit
<1>8. ASSUME NEW r \in Repos, Expire(r)
      PROVE  UNCHANGED <<worker, queue>>
  BY <1>8 DEF Expire, process
<1>9. ASSUME NEW r \in Repos, NEW t \in Tags, Publish(r, t)
      PROVE  UNCHANGED <<worker, queue>>
  BY <1>9 DEF Publish, process
<1>10. ASSUME NEW s \in Subs, Confirm(s) \/ Unsubscribe(s)
       PROVE  UNCHANGED <<worker, queue>>
  BY <1>10 DEF Confirm, Unsubscribe, process
<1>11. ReapSession => UNCHANGED <<worker, queue>>
  BY DEF ReapSession, process
<1>12. UNCHANGED <<worker, queue>> => JobsDisjoint'
  BY DEF worker
<1> QED
  BY <1>1, <1>2, <1>3, <1>4, <1>5, <1>6, <1>7, <1>8, <1>9, <1>10, <1>11, <1>12
  DEF Next, ScanStep, EnvStep, EndSession

NoDeadSession == \A i \in Instances : conn[i] # "dead"

LEMMA SessionStep == "session" \notin Faults /\ TypeOK /\ NoDeadSession /\ [Next]_vars => NoDeadSession'
<1> SUFFICES ASSUME "session" \notin Faults, TypeOK, NoDeadSession, [Next]_vars
             PROVE  NoDeadSession'
  OBVIOUS
<1> USE DEF NoDeadSession, TypeOK
<1>1. CASE UNCHANGED vars
  BY <1>1 DEF vars, process
<1>2. ASSUME NEW i \in Instances, NEW w \in Workers, WorkerStep(i, w) \/ SendStep(i, w)
      PROVE  NoDeadSession'
  BY <1>2, WorkerFrame DEF process
<1>3. ASSUME NEW i \in Instances, ScanStep(i) \/ Stop(i) \/ Cancel(i) \/ Exit(i) \/ LoseSession(i)
      PROVE  NoDeadSession'
  BY <1>3 DEF ScanStep, Start, Acquire, AcquireDenied, AcquireFails, Fetch, FetchNothing, Dispatch,
              CloseJobs, JoinWorkers, Release, Tick, Stop, Cancel, Exit, LoseSession
<1>4. ASSUME NEW r \in Repos, Expire(r)
      PROVE  NoDeadSession'
  BY <1>4 DEF Expire, process
<1>5. ASSUME NEW r \in Repos, NEW t \in Tags, Publish(r, t)
      PROVE  NoDeadSession'
  BY <1>5 DEF Publish, process
<1>6. ASSUME NEW s \in Subs, Confirm(s) \/ Unsubscribe(s)
      PROVE  NoDeadSession'
  BY <1>6 DEF Confirm, Unsubscribe, process
<1>7. CASE ReapSession
  BY <1>7 DEF ReapSession, process
<1> QED
  BY <1>1, <1>2, <1>3, <1>4, <1>5, <1>6, <1>7 DEF Next, EnvStep, EndSession

\* At most one instance has workers.
LEMMA OneScan ==
    ASSUME LockExclusion, NoWorkerOutlivesScan, NoDeadSession, TypeOK,
           NEW i \in Instances, NEW j \in Instances, NEW w \in Workers, NEW x \in Workers,
           wpc[i][w] # "exited", wpc[j][x] # "exited"
    PROVE  i = j
<1>1. conn[i] = "live" /\ conn[j] = "live"
  BY DEF LockExclusion, NoWorkerOutlivesScan, NoDeadSession, AllExited, Scanning, TypeOK
<1> QED
  BY <1>1 DEF LockExclusion

SendInv ==
    /\ TypeInv /\ LockExclusion /\ NoWorkerOutlivesScan
    /\ JobsDisjoint /\ NoDeadSession
    /\ NoSendOfRecorded

LEMMA SendStepSafe ==
    "session" \notin Faults /\ SendInv /\ TypeInv' /\ [Next]_vars => NoSendOfRecorded'
<1> SUFFICES ASSUME SendInv, TypeInv', [Next]_vars
             PROVE  NoSendOfRecorded'
  OBVIOUS
<1>t. TypeOK
  BY DEF SendInv, TypeInv
<1>1. CASE UNCHANGED vars
  BY <1>1 DEF SendInv, NoSendOfRecorded, Current, vars, db, worker
<1>2. CASE (\E i \in Instances : ScanStep(i) \/ Stop(i)) \/ EnvStep
  <2> SUFFICES ASSUME NEW i \in Instances, NEW w \in Workers, NEW s \in Subs,
                      wpc'[i][w] = "send", Current(i, w, s)'
               PROVE  <<s, tag'[i][w]>> \notin log'
    BY DEF NoSendOfRecorded
  <2>1. Same(i, w)
    BY <1>2, <1>t, OtherFrame
  <2>2. log' \subseteq log
    BY <1>2 DEF ScanStep, EnvStep, EndSession, Start, Acquire, AcquireDenied, AcquireFails, Fetch, FetchNothing,
                Dispatch, CloseJobs, JoinWorkers, Release, Tick, Stop, Cancel, Exit, LoseSession,
                ReapSession, Expire, Publish, Confirm, Unsubscribe, db
  <2> QED
    BY <2>1, <2>2 DEF SendInv, NoSendOfRecorded, Current, Same
<1>3. ASSUME NEW i \in Instances, NEW w \in Workers, WorkerStep(i, w) \/ SendStep(i, w)
      PROVE  NoSendOfRecorded'
  <2>1. ASSUME NEW s \in Subs, MarkNotified(i, w, s) \/ MarkFails(i, w, s)
        PROVE  /\ wpc[i][w] = "mark" /\ s \in todo[i][w]
               /\ wpc'[i][w] # "send"
               /\ log' \subseteq log \cup {<<s, tag[i][w]>>}
    BY <1>t, <2>1, NextSubEffect DEF MarkNotified, MarkFails, Current, TypeOK
  <2>2. CASE \E s \in Subs : MarkNotified(i, w, s) \/ MarkFails(i, w, s)
    <3> SUFFICES ASSUME NEW j \in Instances, NEW x \in Workers, NEW u \in Subs,
                        wpc'[j][x] = "send", Current(j, x, u)'
                 PROVE  <<u, tag'[j][x]>> \notin log'
      BY DEF NoSendOfRecorded
    <3>1. PICK s \in Subs : MarkNotified(i, w, s) \/ MarkFails(i, w, s)
      BY <2>2
    <3>2. j # i \/ x # w
      BY <2>1, <3>1
    <3>3. wpc[j][x] = "send" /\ Current(j, x, u) /\ tag'[j][x] = tag[j][x]
      BY <1>3, <1>t, <3>2, WorkerFrame DEF Others, Current
    <3>4. <<u, tag[j][x]>> \notin log
      BY <3>3 DEF SendInv, NoSendOfRecorded
    <3>5. u # s
      <4>1. j = i
        BY <1>t, <2>1, <3>1, <3>3, OneScan DEF SendInv
      <4> QED
        BY <2>1, <3>1, <3>2, <3>3, <4>1 DEF SendInv, JobsDisjoint, Current
    <3> QED
      BY <2>1, <3>1, <3>3, <3>4, <3>5
  <2>3. CASE ~\E s \in Subs : MarkNotified(i, w, s) \/ MarkFails(i, w, s)
    <3> DEFINE Own == \A s \in Subs : wpc'[i][w] = "send" /\ Current(i, w, s)' => <<s, tag'[i][w]>> \notin log'
    <3>1. SUFFICES log' = log /\ Own
      BY <1>3, <1>t, WorkerFrame DEF SendInv, NoSendOfRecorded, Others, Current
    <3> USE <1>t DEF TypeOK, db, world
    <3>2. ASSUME NEW t \in Tags \cup {NoTag}, WithRelease(i, w, t)
          PROVE  wpc'[i][w] # "send"
      <4>1. CASE t \in StableTags
        BY <3>2, <4>1 DEF WithRelease
      <4>2. CASE t \notin StableTags
        BY <3>2, <4>2 DEF WithRelease, EndJob
      <4> QED
        BY <4>1, <4>2
    <3>3. ASSUME NEW r \in Repos, ReleaseFromCache(i, w, r) \/ ReleaseFromGitHub(i, w, r)
          PROVE  log' = log /\ Own
      BY <3>2, <3>3 DEF ReleaseFromCache, ReleaseFromGitHub
    <3>4. ASSUME NEW r \in Repos, ReleaseUnavailable(i, w, r)
          PROVE  log' = log /\ Own
      BY <3>4 DEF ReleaseUnavailable, EndJob
    <3>5. CASE Abandon(i, w) \/ WorkerExit(i, w)
      BY <3>5 DEF Abandon, WorkerExit, EndJob
    <3>6. ASSUME NEW s \in Subs,
                 Skip(i, w, s) \/ MailFails(i, w, s) \/ UpdateLastSeenTag(i, w, s) \/ UpdateFails(i, w, s)
          PROVE  log' = log /\ Own
      BY <3>6, NextSubEffect DEF Skip, MailFails, UpdateLastSeenTag, UpdateFails
    <3>7. ASSUME NEW s \in Subs, NotNotified(i, w, s)
          PROVE  log' = log /\ Own
      <4>1. \A u \in Subs : Current(i, w, u)' => u = s
        BY <3>7, CurrentUnique DEF NotNotified, Current
      <4> QED
        BY <3>7, <4>1 DEF NotNotified, WasNotified
    <3>8. ASSUME NEW s \in Subs, MailSent(i, w, s)
          PROVE  log' = log /\ Own
      BY <3>8 DEF MailSent
    <3> QED
      BY <1>3, <2>3, <3>3, <3>4, <3>5, <3>6, <3>7, <3>8 DEF WorkerStep, SendStep
  <2> QED
    BY <2>2, <2>3
<1> QED
  BY <1>1, <1>2, <1>3 DEF Next

\* The inductive invariant behind the theorem that follows.
LEMMA SendAlways == ASSUME "session" \notin Faults PROVE Spec => []SendInv
<1>1. Init => SendInv
  <2>1. ASSUME Init
        PROVE  TypeInv /\ LockExclusion
    BY <2>1, LockAssumption DEF Init, TypeInv, TypeOK, HasRelease, NoTags, Phases, WorkerPcs,
                                LockExclusion, Scanning
  <2>2. ASSUME Init, NEW i \in Instances, NEW w \in Workers
        PROVE  wpc[i][w] = "exited" /\ todo[i][w] = {} /\ conn[i] = "none"
    BY <2>2 DEF Init
  <2>3. ASSUME Init
        PROVE  NoDeadSession
    BY <2>3 DEF Init, NoDeadSession
  <2> QED
    BY <2>1, <2>2, <2>3
    DEF SendInv, NoWorkerOutlivesScan, AllExited, JobsDisjoint, NoSendOfRecorded
<1>2. SendInv /\ [Next]_vars => SendInv'
  <2> SUFFICES ASSUME SendInv, [Next]_vars
               PROVE  SendInv'
    OBVIOUS
  <2>1. TypeOK
    BY DEF SendInv, TypeInv
  <2>2. TypeInv'
    BY TypeStep DEF SendInv
  <2> QED
    BY <2>1, <2>2, LockStep, OutliveStep, JobsStep, SessionStep, SendStepSafe DEF SendInv
<1> QED
  BY <1>1, <1>2, PTL DEF Spec

\* The lock, the join of the workers and the split into jobs together make WasNotified a
\* sound test: as long as no session that holds the lock breaks, no subscriber is mailed a
\* tag that is recorded for the subscription.
THEOREM SerialSends == ASSUME "session" \notin Faults PROVE Spec => []NoSendOfRecorded
<1>1. SendInv => NoSendOfRecorded
  BY DEF SendInv
<1> QED
  BY <1>1, SendAlways, PTL

-----------------------------------------------------------------------------
(* Who is mailed.  A subscription in a job was confirmed when GetAllConfirmed read it,    *)
(* and no subscription becomes pending again.                                             *)

ConfirmedJobs ==
    \A i \in Instances, s \in Subs :
        row[s] = "pending" => s \notin queue[i] /\ \A w \in Workers : s \notin todo[i][w]

ConfirmedInv == MailedConfirmedStable /\ ConfirmedJobs

\* What a worker mails is the stable release it has, to a subscription of its job.
LEMMA WorkerMail ==
    ASSUME TypeInv, NEW i \in Instances, NEW w \in Workers, WorkerStep(i, w) \/ SendStep(i, w)
    PROVE  \A n \in mailed' : n \in mailed \/ n \in todo[i][w] \X StableTags
<1> USE DEF world
<1>1. CASE WorkerStep(i, w)
  <2>1. mailed' = mailed
    BY <1>1 DEF WorkerStep, ReleaseFromCache, ReleaseFromGitHub, ReleaseUnavailable, Skip, NotNotified,
                MarkNotified, MarkFails, UpdateLastSeenTag, UpdateFails, Abandon, WorkerExit
  <2> QED
    BY <2>1
<1>2. CASE SendStep(i, w)
  <2>1. PICK s \in Subs : MailSent(i, w, s) \/ MailFails(i, w, s)
    BY <1>2 DEF SendStep
  <2>2. s \in todo[i][w] /\ tag[i][w] \in StableTags
    BY <2>1 DEF MailSent, MailFails, Current, TypeInv, HasRelease
  <2>3. mailed' \subseteq mailed \cup {<<s, tag[i][w]>>}
    BY <2>1 DEF MailSent, MailFails
  <2> QED
    BY <2>2, <2>3
<1> QED
  BY <1>1, <1>2

LEMMA ConfirmedStep == TypeInv /\ ConfirmedInv /\ [Next]_vars => ConfirmedInv'
<1> SUFFICES ASSUME TypeInv, ConfirmedInv, [Next]_vars
             PROVE  ConfirmedInv'
  OBVIOUS
<1> USE DEF TypeInv
<1>1. CASE UNCHANGED vars
  BY <1>1 DEF ConfirmedInv, MailedConfirmedStable, ConfirmedJobs, vars, db, process, worker, world
<1>2. ASSUME NEW i \in Instances, NEW w \in Workers, WorkerStep(i, w) \/ SendStep(i, w)
      PROVE  ConfirmedInv'
  <2>1. queue' = queue /\ row' = row /\ Others(i, w)
    BY <1>2, WorkerFrame DEF process
  <2>2. \A j \in Instances, x \in Workers : todo'[j][x] \subseteq todo[j][x]
    BY <1>2, <2>1, WorkerJobs DEF Others
  <2>3. ConfirmedJobs'
    BY <2>1, <2>2 DEF ConfirmedInv, ConfirmedJobs
  <2>4. ASSUME NEW n \in mailed'
        PROVE  row'[n[1]] # "pending" /\ n[2] \in StableTags
    <3>1. CASE n \in mailed
      BY <2>1, <3>1 DEF ConfirmedInv, MailedConfirmedStable
    <3>2. CASE n \in todo[i][w] \X StableTags
      <4>1. n[1] \in todo[i][w] /\ n[1] \in Subs /\ n[2] \in StableTags
        BY <3>2 DEF TypeOK
      <4> QED
        BY <2>1, <4>1 DEF ConfirmedInv, ConfirmedJobs
    <3> QED
      BY <1>2, <3>1, <3>2, WorkerMail
  <2> QED
    BY <2>3, <2>4 DEF ConfirmedInv, MailedConfirmedStable
<1>3. CASE (\E i \in Instances : ScanStep(i) \/ Stop(i)) \/ EnvStep
  <2>1. mailed' = mailed
    BY <1>3, OtherFrame
  <2>2. \A s \in Subs : row[s] # "pending" => row'[s] # "pending"
    BY <1>3 DEF TypeOK, ScanStep, EnvStep, EndSession, Start, Acquire, AcquireDenied, AcquireFails, Fetch,
                FetchNothing, Dispatch, CloseJobs, JoinWorkers, Release, Tick, Stop, Cancel, Exit,
                LoseSession, ReapSession, Expire, Publish, Confirm, Unsubscribe, db
  <2>3. MailedConfirmedStable'
    BY <2>1, <2>2 DEF ConfirmedInv, MailedConfirmedStable, TypeOK
  <2>4. ASSUME NEW j \in Instances
        PROVE  /\ queue'[j] \subseteq queue[j] \cup Confirmed
               /\ \A x \in Workers : todo'[j][x] \subseteq todo[j][x] \cup queue[j]
    <3> USE DEF TypeOK
    <3>1. ASSUME NEW i \in Instances, Fetch(i)
          PROVE  queue'[j] \subseteq queue[j] \cup Confirmed /\ todo' = todo
      BY <3>1 DEF Fetch
    <3>2. ASSUME NEW i \in Instances, NEW w \in Workers, NEW r \in Repos, Dispatch(i, w, r)
          PROVE  /\ queue'[j] \subseteq queue[j]
                 /\ \A x \in Workers : todo'[j][x] \subseteq todo[j][x] \cup queue[j]
      <4>1. /\ todo' = [todo EXCEPT ![i][w] = JobOf(i, r)]
            /\ queue' = [queue EXCEPT ![i] = queue[i] \ JobOf(i, r)]
            /\ JobOf(i, r) \subseteq queue[i]
        BY <3>2 DEF Dispatch, JobOf
      <4> QED
        BY <4>1
    <3>3. ASSUME NEW i \in Instances, CloseJobs(i) \/ Exit(i)
          PROVE  /\ queue'[j] \subseteq queue[j]
                 /\ \A x \in Workers : todo'[j][x] \subseteq todo[j][x]
      <4>1. CASE CloseJobs(i)
        BY <4>1 DEF CloseJobs, worker
      <4>2. CASE Exit(i)
        <5>1. /\ queue' = [queue EXCEPT ![i] = {}]
              /\ todo' = [todo EXCEPT ![i] = [x \in Workers |-> {}]]
          BY <4>2 DEF Exit
        <5> QED
          BY <5>1
      <4> QED
        BY <3>3, <4>1, <4>2
    <3>4. ASSUME NEW i \in Instances,
                 \/ Start(i) \/ Acquire(i) \/ AcquireDenied(i) \/ AcquireFails(i) \/ FetchNothing(i)
                 \/ JoinWorkers(i) \/ Release(i) \/ Tick(i) \/ Stop(i) \/ Cancel(i) \/ LoseSession(i)
          PROVE  UNCHANGED <<todo, queue>>
      BY <3>4 DEF Start, Acquire, AcquireDenied, AcquireFails, FetchNothing, JoinWorkers, Release,
                  Tick, Stop, Cancel, LoseSession, worker
    <3>5. ASSUME \/ ReapSession \/ \E r \in Repos : Expire(r) \/ \E t \in Tags : Publish(r, t)
                 \/ \E s \in Subs : Confirm(s) \/ Unsubscribe(s)
          PROVE  UNCHANGED <<todo, queue>>
      BY <3>5 DEF ReapSession, Expire, Publish, Confirm, Unsubscribe, process, worker
    <3> QED
      BY <1>3, <3>1, <3>2, <3>3, <3>4, <3>5 DEF ScanStep, EnvStep, EndSession
  <2>5. ConfirmedJobs'
    BY <2>2, <2>4 DEF ConfirmedInv, ConfirmedJobs, Confirmed
  <2> QED
    BY <2>3, <2>5 DEF ConfirmedInv
<1> QED
  BY <1>1, <1>2, <1>3 DEF Next

\* The inductive invariant behind the theorem that follows.
LEMMA ConfirmedAlways == Spec => []ConfirmedInv
<1>1. Init => ConfirmedInv
  BY DEF Init, ConfirmedInv, MailedConfirmedStable, ConfirmedJobs
<1>2. TypeInv /\ ConfirmedInv /\ [Next]_vars => ConfirmedInv'
  BY ConfirmedStep
<1>3. Spec => []TypeInv
  BY TypeCorrect DEF TypeInv
<1> QED
  BY <1>1, <1>2, <1>3, PTL DEF Spec

\* Release mail goes to addresses that were confirmed, and about stable releases only,
\* whatever fails and however scans and users interleave (scanner.go:141, GetAllConfirmed).
THEOREM OnlyConfirmedMailed == Spec => []MailedConfirmedStable
<1>1. ConfirmedInv => MailedConfirmedStable
  BY DEF ConfirmedInv
<1> QED
  BY <1>1, ConfirmedAlways, PTL
=============================================================================
