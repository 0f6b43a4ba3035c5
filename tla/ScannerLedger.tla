---------------------------- MODULE ScannerLedger ----------------------------
(***************************************************************************)
(* The scanner implements its ledger for every choice of the constants in  *)
(* which no session that holds the lock breaks; and with no faults at all  *)
(* its mail is exactly-once and last_seen_tag keeps up with the log.       *)
(***************************************************************************)
EXTENDS ScannerProofs

-----------------------------------------------------------------------------
(* Every step is a step of the ledger or leaves it alone. *)

LedgerInv == TypeInv /\ MailInv /\ RecordInv /\ ConfirmedInv /\ NoSendOfRecorded

\* A mail that leaves a worker is one the ledger allows.
LEMMA MailAllowed ==
    ASSUME LedgerInv, NEW i \in Instances, NEW w \in Workers, NEW s \in Subs,
           wpc[i][w] = "send", Current(i, w, s), UNCHANGED db,
           mailed' \in {mailed, mailed \cup {<<s, tag[i][w]>>}}
    PROVE  [Book!Next]_(Book!vars)
<1>1. tag[i][w] \in StableTags /\ tag[i][w] \in Tags
  BY TagAssumption DEF LedgerInv, TypeInv, HasRelease
<1>2. row[s] # "pending"
  BY DEF LedgerInv, ConfirmedInv, ConfirmedJobs, Current
<1>3. <<s, tag[i][w]>> \notin log
  BY DEF LedgerInv, NoSendOfRecorded
<1>4. CASE mailed' = mailed
  BY <1>4 DEF Book!vars, db
<1>5. CASE mailed' = mailed \cup {<<s, tag[i][w]>>}
  <2>1. Book!Mail(s, tag[i][w])
    BY <1>1, <1>2, <1>3, <1>5 DEF Book!Mail, db
  <2> QED
    BY <1>1, <2>1 DEF Book!Next
<1> QED
  BY <1>4, <1>5

\* A subscription a worker holds and that was not deleted is a confirmed one.
LEMMA JobConfirmed ==
    ASSUME LedgerInv, NEW i \in Instances, NEW w \in Workers, NEW s \in Subs,
           Current(i, w, s), row[s] # "deleted"
    PROVE  row[s] = "confirmed"
BY DEF LedgerInv, TypeInv, TypeOK, ConfirmedInv, ConfirmedJobs, Current

\* A notification that is recorded is one the ledger allows.
LEMMA RecordAllowed ==
    ASSUME LedgerInv, NEW i \in Instances, NEW w \in Workers, NEW s \in Subs,
           MarkNotified(i, w, s) \/ MarkFails(i, w, s)
    PROVE  [Book!Next]_(Book!vars)
<1>1. /\ wpc[i][w] = "mark" /\ Current(i, w, s)
      /\ UNCHANGED <<row, lastSeen, mailed>>
      /\ log' = log \/ (row[s] # "deleted" /\ log' = log \cup {<<s, tag[i][w]>>})
  BY DEF MarkNotified, MarkFails, world
<1>2. tag[i][w] \in Tags
  BY <1>1, TagAssumption DEF LedgerInv, TypeInv, HasRelease
<1>3. CASE log' = log
  BY <1>1, <1>3 DEF Book!vars
<1>4. CASE row[s] # "deleted" /\ log' = log \cup {<<s, tag[i][w]>>}
  <2>1. <<s, tag[i][w]>> \in mailed
    BY <1>1 DEF LedgerInv, MailInv, MailedBeforeMark
  <2>2. Book!Record(s, tag[i][w])
    BY <1>1, <1>4, <2>1, JobConfirmed DEF Book!Record
  <2> QED
    BY <1>2, <2>2 DEF Book!Next
<1> QED
  BY <1>1, <1>3, <1>4

\* A last_seen_tag that is written is one the ledger allows.
LEMMA NoteAllowed ==
    ASSUME LedgerInv, NEW i \in Instances, NEW w \in Workers, NEW s \in Subs,
           UpdateLastSeenTag(i, w, s)
    PROVE  Book!Next
<1>1. /\ wpc[i][w] = "update" /\ Current(i, w, s) /\ row[s] # "deleted"
      /\ lastSeen' = [lastSeen EXCEPT ![s] = tag[i][w]]
      /\ UNCHANGED <<row, log, mailed>>
  BY DEF UpdateLastSeenTag, world
<1>2. tag[i][w] \in Tags
  BY <1>1, TagAssumption DEF LedgerInv, TypeInv, HasRelease
<1>3. <<s, tag[i][w]>> \in log
  BY <1>1 DEF LedgerInv, RecordInv, RecordedBeforeUpdate
<1>4. Book!Note(s, tag[i][w])
  BY <1>1, <1>3, JobConfirmed DEF Book!Note
<1> QED
  BY <1>2, <1>4 DEF Book!Next

LEMMA LedgerStep == LedgerInv /\ [Next]_vars => [Book!Next]_(Book!vars)
<1> SUFFICES ASSUME LedgerInv, [Next]_vars
             PROVE  [Book!Next]_(Book!vars)
  OBVIOUS
<1> USE DEF db, world
<1>1. CASE UNCHANGED vars
  BY <1>1 DEF vars, Book!vars
<1>2. ASSUME NEW i \in Instances, ScanStep(i) \/ Stop(i) \/ Cancel(i) \/ Exit(i) \/ LoseSession(i)
      PROVE  UNCHANGED Book!vars
  BY <1>2 DEF ScanStep, Start, Acquire, AcquireDenied, AcquireFails, Fetch, FetchNothing, Dispatch,
              CloseJobs, JoinWorkers, Release, Tick, Stop, Cancel, Exit, LoseSession, Book!vars
<1>3. ASSUME NEW i \in Instances, NEW w \in Workers, WorkerStep(i, w)
      PROVE  [Book!Next]_(Book!vars)
  <2>1. ASSUME NEW s \in Subs, MarkNotified(i, w, s) \/ MarkFails(i, w, s)
        PROVE  [Book!Next]_(Book!vars)
    BY <2>1, RecordAllowed
  <2>2. ASSUME NEW s \in Subs, UpdateLastSeenTag(i, w, s)
        PROVE  [Book!Next]_(Book!vars)
    BY <2>2, NoteAllowed
  <2>3. ASSUME NEW s \in Subs, Skip(i, w, s) \/ NotNotified(i, w, s) \/ UpdateFails(i, w, s)
        PROVE  UNCHANGED Book!vars
    BY <2>3 DEF Skip, NotNotified, UpdateFails, Book!vars
  <2>4. ASSUME NEW r \in Repos,
               ReleaseFromCache(i, w, r) \/ ReleaseFromGitHub(i, w, r) \/ ReleaseUnavailable(i, w, r)
        PROVE  UNCHANGED Book!vars
    BY <2>4 DEF ReleaseFromCache, ReleaseFromGitHub, ReleaseUnavailable, Book!vars
  <2>5. CASE Abandon(i, w) \/ WorkerExit(i, w)
    BY <2>5 DEF Abandon, WorkerExit, Book!vars
  <2> QED
    BY <1>3, <2>1, <2>2, <2>3, <2>4, <2>5 DEF WorkerStep
<1>4. ASSUME NEW i \in Instances, NEW w \in Workers, SendStep(i, w)
      PROVE  [Book!Next]_(Book!vars)
  <2>1. PICK s \in Subs : MailSent(i, w, s) \/ MailFails(i, w, s)
    BY <1>4 DEF SendStep
  <2>2. /\ wpc[i][w] = "send" /\ Current(i, w, s) /\ UNCHANGED db
        /\ mailed' \in {mailed, mailed \cup {<<s, tag[i][w]>>}}
    BY <2>1 DEF MailSent, MailFails
  <2> QED
    BY <2>2, MailAllowed
<1>5. ASSUME NEW s \in Subs, Confirm(s)
      PROVE  Book!Next
  <2>1. Book!Confirm(s)
    BY <1>5 DEF Confirm, Book!Confirm
  <2> QED
    BY <2>1 DEF Book!Next
<1>6. ASSUME NEW s \in Subs, Unsubscribe(s)
      PROVE  Book!Next
  <2>1. Book!Delete(s)
    BY <1>6 DEF Unsubscribe, Book!Delete
  <2> QED
    BY <2>1 DEF Book!Next
<1>7. ASSUME NEW r \in Repos, Expire(r)
      PROVE  UNCHANGED Book!vars
  BY <1>7 DEF Expire, Book!vars
<1>8. ASSUME NEW r \in Repos, NEW t \in Tags, Publish(r, t)
      PROVE  UNCHANGED Book!vars
  BY <1>8 DEF Publish, Book!vars
<1>9. ReapSession => UNCHANGED Book!vars
  BY DEF ReapSession, Book!vars
<1> QED
  BY <1>1, <1>2, <1>3, <1>4, <1>5, <1>6, <1>7, <1>8, <1>9 DEF Next, EnvStep, EndSession

\* As long as no session that holds the lock breaks, every behaviour of the instances, with
\* their crashes and failing calls, is a behaviour of the ledger (checkRepo, scanner.go:134).
THEOREM LedgerImplemented == ASSUME "session" \notin Faults PROVE Spec => ImplementsLedger
<1>1. Init => Book!Init
  BY DEF Init, NoTags, Book!Init
<1>2. LedgerInv /\ [Next]_vars => [Book!Next]_(Book!vars)
  BY LedgerStep
<1>3. Spec => []LedgerInv
  <2>1. TypeInv /\ MailInv /\ RecordInv /\ ConfirmedInv /\ NoSendOfRecorded => LedgerInv
    BY DEF LedgerInv
  <2>2. Spec => []TypeInv
    BY TypeCorrect DEF TypeInv
  <2> QED
    BY <2>1, <2>2, MailAlways, RecordAlways, ConfirmedAlways, SerialSends, PTL
<1> QED
  BY <1>1, <1>2, <1>3, PTL DEF Spec, ImplementsLedger, Book!Spec

-----------------------------------------------------------------------------
(* No faults.  Then a mail that went out is on record, or its worker is about to record   *)
(* it; a record is made of what was not on record, so that last_seen_tag, which is        *)
(* written after it by the same worker, is the tag of the newest record.                  *)

NoCancel == \A i \in Instances : cancelled[i] = FALSE

OnRecord ==
    \A s \in Subs, t \in Tags :
        <<s, t>> \in mailed =>
            \/ row[s] # "confirmed"
            \/ <<s, t>> \in log
            \/ \E i \in Instances, w \in Workers :
                    wpc[i][w] = "mark" /\ Current(i, w, s) /\ tag[i][w] = t

DeletedForgotten == \A s \in Subs, t \in Tags : row[s] = "deleted" => <<s, t>> \notin log

ExactInv == OnRecord /\ DeletedForgotten

QuietInv == TypeInv /\ NoCancel /\ NoWorkerOutlivesScan /\ ConfirmedInv

LEMMA CancelStep == Faults = {} /\ TypeOK /\ NoCancel /\ [Next]_vars => NoCancel'
<1> SUFFICES ASSUME Faults = {}, TypeOK, NoCancel, [Next]_vars
             PROVE  NoCancel'
  OBVIOUS
<1> USE DEF NoCancel, TypeOK
<1>1. CASE UNCHANGED vars
  BY <1>1 DEF vars, process
<1>2. ASSUME NEW i \in Instances, NEW w \in Workers, WorkerStep(i, w) \/ SendStep(i, w)
      PROVE  NoCancel'
  BY <1>2, WorkerFrame DEF process
<1>3. ASSUME NEW i \in Instances, ScanStep(i) \/ Stop(i)
      PROVE  NoCancel'
  BY <1>3 DEF ScanStep, Start, Acquire, AcquireDenied, AcquireFails, Fetch, FetchNothing, Dispatch,
              CloseJobs, JoinWorkers, Release, Tick, Stop
<1>4. CASE EnvStep
  BY <1>4 DEF EnvStep, EndSession, Cancel, Exit, LoseSession, ReapSession, Expire, Publish, Confirm, Unsubscribe,
              process
<1> QED
  BY <1>1, <1>2, <1>3, <1>4 DEF Next

\* Without faults no step but its own disturbs a worker that has mailed and not finished.
LEMMA QuietFrame ==
    ASSUME Faults = {}, QuietInv, (\E i \in Instances : ScanStep(i) \/ Stop(i)) \/ EnvStep,
           NEW j \in Instances, NEW x \in Workers, wpc[j][x] \in {"mark", "update"}
    PROVE  Same(j, x)
<1> USE DEF Same, QuietInv, TypeInv, TypeOK
<1>1. ASSUME NEW i \in Instances,
             \/ Start(i) \/ Acquire(i) \/ AcquireDenied(i) \/ AcquireFails(i) \/ FetchNothing(i)
             \/ CloseJobs(i) \/ JoinWorkers(i) \/ Release(i) \/ Tick(i) \/ Stop(i)
      PROVE  UNCHANGED worker
  BY <1>1 DEF Start, Acquire, AcquireDenied, AcquireFails, FetchNothing, CloseJobs, JoinWorkers,
              Release, Tick, Stop
<1>2. ASSUME NEW i \in Instances, Fetch(i)
      PROVE  Same(j, x)
  <2>1. i # j
    BY <1>2 DEF Fetch, NoWorkerOutlivesScan, AllExited
  <2> QED
    BY <1>2, <2>1 DEF Fetch
<1>3. ASSUME NEW i \in Instances, NEW w \in Workers, NEW r \in Repos, Dispatch(i, w, r)
      PROVE  Same(j, x)
  <2>1. ~(i = j /\ w = x)
    BY <1>3 DEF Dispatch
  <2> QED
    BY <1>3, <2>1 DEF Dispatch
<1>4. CASE EnvStep
  <2>1. UNCHANGED worker
    BY <1>4 DEF EnvStep, EndSession, NoCancel, Cancel, Exit, LoseSession, ReapSession, Expire, Publish, Confirm,
                Unsubscribe
  <2> QED
    BY <2>1 DEF worker
<1> QED
  BY <1>1, <1>2, <1>3, <1>4 DEF ScanStep, worker

\* What the other steps do to a subscription: they delete it with its records, or confirm it
\* or leave it alone.
LEMMA OtherRows ==
    ASSUME TypeOK, (\E i \in Instances : ScanStep(i) \/ Stop(i)) \/ EnvStep, NEW s \in Subs
    PROVE  \/ row'[s] = "deleted" /\ \A t \in Tags : <<s, t>> \notin log'
           \/ /\ lastSeen'[s] = lastSeen[s]
              /\ row'[s] = row[s] \/ (row[s] = "pending" /\ row'[s] = "confirmed")
              /\ \A t \in Tags : <<s, t>> \in log <=> <<s, t>> \in log'
<1>1. ASSUME NEW i \in Instances, ScanStep(i) \/ Stop(i) \/ Cancel(i) \/ Exit(i) \/ LoseSession(i)
      PROVE  UNCHANGED db
  BY <1>1 DEF ScanStep, Start, Acquire, AcquireDenied, AcquireFails, Fetch, FetchNothing, Dispatch,
              CloseJobs, JoinWorkers, Release, Tick, Stop, Cancel, Exit, LoseSession
<1>2. ASSUME \/ ReapSession \/ \E r \in Repos : Expire(r) \/ \E t \in Tags : Publish(r, t)
      PROVE  UNCHANGED db
  BY <1>2 DEF ReapSession, Expire, Publish
<1>3. ASSUME NEW u \in Subs, Confirm(u)
      PROVE  /\ lastSeen'[s] = lastSeen[s] /\ log' = log
             /\ row'[s] = row[s] \/ (row[s] = "pending" /\ row'[s] = "confirmed")
  BY <1>3 DEF Confirm, TypeOK
<1>4. ASSUME NEW u \in Subs, Unsubscribe(u)
      PROVE  \/ row'[s] = "deleted" /\ \A t \in Tags : <<s, t>> \notin log'
             \/ /\ lastSeen'[s] = lastSeen[s] /\ row'[s] = row[s]
                /\ \A t \in Tags : <<s, t>> \in log <=> <<s, t>> \in log'
  <2>1. CASE s = u
    BY <1>4, <2>1 DEF Unsubscribe, TypeOK
  <2>2. CASE s # u
    BY <1>4, <2>2 DEF Unsubscribe, TypeOK
  <2> QED
    BY <2>1, <2>2
<1> QED
  BY <1>1, <1>2, <1>3, <1>4 DEF EnvStep, EndSession, db

LEMMA ExactOther ==
    ASSUME Faults = {}, QuietInv, ExactInv, (\E i \in Instances : ScanStep(i) \/ Stop(i)) \/ EnvStep
    PROVE  ExactInv'
<1>t. TypeOK
  BY DEF QuietInv, TypeInv
<1>m. mailed' = mailed
  BY <1>t, OtherFrame
<1>1. ASSUME NEW s \in Subs, NEW t \in Tags, <<s, t>> \in mailed', row'[s] = "confirmed",
             <<s, t>> \notin log'
      PROVE  \E i \in Instances, w \in Workers :
                wpc'[i][w] = "mark" /\ Current(i, w, s)' /\ tag'[i][w] = t
  <2>1. <<s, t>> \notin log /\ row[s] \in {"pending", "confirmed"}
    BY <1>t, <1>1, OtherRows DEF TypeOK
  <2>2. row[s] # "pending"
    BY <1>1, <1>m DEF QuietInv, ConfirmedInv, MailedConfirmedStable
  <2>3. PICK i \in Instances, w \in Workers :
            wpc[i][w] = "mark" /\ Current(i, w, s) /\ tag[i][w] = t
    BY <1>1, <1>m, <2>1, <2>2 DEF ExactInv, OnRecord
  <2> QED
    BY <2>3, QuietFrame DEF Same, Current
<1>2. DeletedForgotten'
  BY <1>t, OtherRows DEF ExactInv, DeletedForgotten
<1> QED
  BY <1>1, <1>2 DEF ExactInv, OnRecord

\* A deleted subscription stays without a log, whatever fails.
LEMMA DeletedStep == TypeOK /\ DeletedForgotten /\ [Next]_vars => DeletedForgotten'
<1> SUFFICES ASSUME TypeOK, DeletedForgotten, [Next]_vars
             PROVE  DeletedForgotten'
  OBVIOUS
<1>1. CASE UNCHANGED vars
  BY <1>1 DEF DeletedForgotten, vars, db
<1>2. CASE (\E i \in Instances : ScanStep(i) \/ Stop(i)) \/ EnvStep
  BY <1>2, OtherRows DEF DeletedForgotten
<1>3. ASSUME NEW i \in Instances, NEW w \in Workers, WorkerStep(i, w) \/ SendStep(i, w)
      PROVE  DeletedForgotten'
  <2>1. row' = row
    BY <1>3, WorkerFrame
  <2>2. \/ log' = log
        \/ \E s \in Subs : row[s] # "deleted" /\ log' = log \cup {<<s, tag[i][w]>>}
    BY <1>3 DEF WorkerStep, SendStep, ReleaseFromCache, ReleaseFromGitHub, ReleaseUnavailable, Skip,
                NotNotified, MailSent, MailFails, MarkNotified, MarkFails, UpdateLastSeenTag,
                UpdateFails, Abandon, WorkerExit, db
  <2> QED
    BY <2>1, <2>2 DEF DeletedForgotten
<1> QED
  BY <1>1, <1>2, <1>3 DEF Next

\* The steps of a worker that neither mail nor record.
LEMMA QuietWorker ==
    ASSUME TypeOK, NoCancel, ExactInv, NEW i \in Instances, NEW w \in Workers,
           WorkerStep(i, w) \/ SendStep(i, w), UNCHANGED <<row, log, mailed>>,
           \A s \in Subs : Current(i, w, s) /\ wpc[i][w] = "mark" => row[s] = "deleted"
    PROVE  ExactInv'
<1>o. Others(i, w)
  BY WorkerFrame
<1>1. ASSUME NEW s \in Subs, NEW t \in Tags, <<s, t>> \in mailed, row[s] = "confirmed",
             <<s, t>> \notin log
      PROVE  \E j \in Instances, x \in Workers :
                wpc'[j][x] = "mark" /\ Current(j, x, s)' /\ tag'[j][x] = t
  <2>1. PICK j \in Instances, x \in Workers :
            wpc[j][x] = "mark" /\ Current(j, x, s) /\ tag[j][x] = t
    BY <1>1 DEF ExactInv, OnRecord
  <2>2. ~(j = i /\ x = w)
    BY <1>1, <2>1
  <2> QED
    BY <1>o, <2>1, <2>2 DEF Others, Current
<1> QED
  BY <1>1 DEF ExactInv, OnRecord, DeletedForgotten

LEMMA ExactWorker ==
    ASSUME Faults = {}, QuietInv, ExactInv, NEW i \in Instances, NEW w \in Workers,
           WorkerStep(i, w) \/ SendStep(i, w)
    PROVE  ExactInv'
<1> USE DEF db, world
<1>t. TypeOK /\ NoCancel
  BY DEF QuietInv, TypeInv
<1>o. Others(i, w)
  BY <1>t, WorkerFrame
<1>1. ASSUME NEW s \in Subs, MailSent(i, w, s)
      PROVE  ExactInv'
  <2>1. /\ wpc[i][w] = "send" /\ Current(i, w, s)
        /\ wpc'[i][w] = "mark" /\ Current(i, w, s)' /\ tag'[i][w] = tag[i][w]
        /\ mailed' = mailed \cup {<<s, tag[i][w]>>} /\ UNCHANGED db
    BY <1>t, <1>1 DEF MailSent, TypeOK, Current
  <2>2. ASSUME NEW u \in Subs, NEW t \in Tags, <<u, t>> \in mailed', row[u] = "confirmed",
               <<u, t>> \notin log
        PROVE  \E j \in Instances, x \in Workers :
                  wpc'[j][x] = "mark" /\ Current(j, x, u)' /\ tag'[j][x] = t
    <3>1. CASE <<u, t>> \in mailed
      <4>1. PICK j \in Instances, x \in Workers :
                wpc[j][x] = "mark" /\ Current(j, x, u) /\ tag[j][x] = t
        BY <2>2, <3>1 DEF ExactInv, OnRecord
      <4> QED
        BY <1>o, <2>1, <4>1 DEF Others, Current
    <3>2. CASE u = s /\ t = tag[i][w]
      BY <2>1, <3>2
    <3> QED
      BY <2>1, <2>2, <3>1, <3>2
  <2> QED
    BY <2>1, <2>2 DEF ExactInv, OnRecord, DeletedForgotten
<1>2. ASSUME NEW s \in Subs, MarkNotified(i, w, s)
      PROVE  ExactInv'
  <2>1. /\ wpc[i][w] = "mark" /\ Current(i, w, s) /\ row[s] # "deleted"
        /\ wpc'[i][w] = "update" /\ Current(i, w, s)'
        /\ log' = log \cup {<<s, tag[i][w]>>} /\ UNCHANGED <<row, lastSeen, mailed>>
    BY <1>t, <1>2 DEF MarkNotified, TypeOK, Current
  <2>2. ASSUME NEW u \in Subs, NEW t \in Tags, <<u, t>> \in mailed, row[u] = "confirmed",
               <<u, t>> \notin log'
        PROVE  \E j \in Instances, x \in Workers :
                  wpc'[j][x] = "mark" /\ Current(j, x, u)' /\ tag'[j][x] = t
    <3>1. PICK j \in Instances, x \in Workers :
              wpc[j][x] = "mark" /\ Current(j, x, u) /\ tag[j][x] = t
      BY <2>1, <2>2 DEF ExactInv, OnRecord
    <3>2. ~(j = i /\ x = w)
      BY <2>1, <2>2, <3>1, CurrentUnique
    <3> QED
      BY <1>o, <3>1, <3>2 DEF Others, Current
  <2>3. DeletedForgotten'
    BY <2>1 DEF ExactInv, DeletedForgotten
  <2> QED
    BY <2>1, <2>2, <2>3 DEF ExactInv, OnRecord
<1>3. ASSUME NEW s \in Subs, MarkFails(i, w, s)
      PROVE  ExactInv'
  <2>1. /\ Current(i, w, s) /\ row[s] = "deleted"
        /\ UNCHANGED <<row, log, mailed>>
    BY <1>t, <1>3 DEF MarkFails, DbFails, NoCancel
  <2>2. \A u \in Subs : Current(i, w, u) => row[u] = "deleted"
    BY <2>1, CurrentUnique
  <2> QED
    BY <1>t, <2>1, <2>2, QuietWorker
<1>4. ASSUME \/ \E r \in Repos : ReleaseFromCache(i, w, r) \/ ReleaseFromGitHub(i, w, r)
                                 \/ ReleaseUnavailable(i, w, r)
             \/ \E s \in Subs : \/ Skip(i, w, s) \/ NotNotified(i, w, s) \/ MailFails(i, w, s)
                                \/ UpdateLastSeenTag(i, w, s) \/ UpdateFails(i, w, s)
             \/ Abandon(i, w) \/ WorkerExit(i, w)
      PROVE  ExactInv'
  <2>1. wpc[i][w] # "mark" /\ UNCHANGED <<row, log, mailed>>
    BY <1>t, <1>4 DEF ReleaseFromCache, ReleaseFromGitHub, ReleaseUnavailable, Skip, NotNotified,
                      MailFails, UpdateLastSeenTag, UpdateFails, Abandon, WorkerExit
  <2> QED
    BY <1>t, <2>1, QuietWorker
<1> QED
  BY <1>1, <1>2, <1>3, <1>4 DEF WorkerStep, SendStep

LEMMA ExactAlways == ASSUME Faults = {} PROVE Spec => [](QuietInv /\ ExactInv)
<1>1. Init => NoCancel /\ ExactInv
  BY DEF Init, NoCancel, ExactInv, OnRecord, DeletedForgotten
<1>2. QuietInv /\ ExactInv /\ [Next]_vars => ExactInv' /\ NoCancel'
  <2>1. ASSUME QuietInv, ExactInv, [Next]_vars
        PROVE  NoCancel'
    BY <2>1, CancelStep DEF QuietInv, TypeInv
  <2>2. ASSUME QuietInv, ExactInv, [Next]_vars
        PROVE  ExactInv'
    <3>1. CASE UNCHANGED vars
      BY <2>2, <3>1 DEF ExactInv, OnRecord, DeletedForgotten, Current, vars, db, worker, world
    <3> QED
      BY <2>2, <3>1, ExactOther, ExactWorker DEF Next
  <2> QED
    BY <2>1, <2>2
<1>3. TypeInv /\ NoCancel /\ NoWorkerOutlivesScan /\ ConfirmedInv => QuietInv
  BY DEF QuietInv
<1>4. Spec => []TypeInv
  BY TypeCorrect DEF TypeInv
<1> QED
  BY <1>1, <1>2, <1>3, <1>4, WorkersJoined, ConfirmedAlways, PTL DEF Spec

\* With no faults the lock, the log and the split into jobs make release mail exactly-once,
\* for any number of instances and workers and also when the latest release goes back to an
\* older one (checkRepo, scanner.go:154).
THEOREM ExactlyOnce == ASSUME Faults = {} PROVE Spec => []NoDuplicateMail
<1>1. ASSUME QuietInv, ExactInv, SendInv
      PROVE  NoDuplicateMail
  <2> SUFFICES ASSUME NEW i \in Instances, NEW w \in Workers, NEW s \in Subs,
                      wpc[i][w] = "send", Current(i, w, s), row[s] = "confirmed",
                      <<s, tag[i][w]>> \in mailed
               PROVE  FALSE
    BY DEF NoDuplicateMail
  <2>1. tag[i][w] \in Tags
    BY <1>1, TagAssumption DEF QuietInv, TypeInv, HasRelease
  <2>2. <<s, tag[i][w]>> \notin log
    BY <1>1 DEF SendInv, NoSendOfRecorded
  <2>3. PICK j \in Instances, x \in Workers : wpc[j][x] = "mark" /\ Current(j, x, s)
    BY <1>1, <2>1, <2>2 DEF ExactInv, OnRecord
  <2>4. j = i
    BY <1>1, <2>3, OneScan DEF SendInv, TypeInv
  <2>5. x # w
    BY <2>3, <2>4
  <2> QED
    BY <1>1, <2>3, <2>4, <2>5 DEF SendInv, JobsDisjoint, Current
<1>2. Spec => []SendInv
  BY SendAlways
<1> QED
  BY <1>1, <1>2, ExactAlways, PTL

-----------------------------------------------------------------------------
(* last_seen_tag.                                                                         *)

\* What a worker is about to record is not on record.
MarkFresh ==
    \A i \in Instances, w \in Workers, s \in Subs :
        wpc[i][w] = "mark" /\ Current(i, w, s) => <<s, tag[i][w]>> \notin log

\* Two workers in a scan with one subscription are the same.
LEMMA OneAtWork ==
    ASSUME SendInv, NEW s \in Subs,
           NEW i \in Instances, NEW w \in Workers, NEW j \in Instances, NEW x \in Workers,
           wpc[i][w] # "exited", s \in todo[i][w], wpc[j][x] # "exited", s \in todo[j][x]
    PROVE  i = j /\ w = x
<1>1. i = j
  BY OneScan DEF SendInv, TypeInv
<1> QED
  BY <1>1 DEF SendInv, JobsDisjoint

\* Where a worker's own step may lead it: to "mark" from a mail, to "update" from a record.
LEMMA WorkerPlaces ==
    ASSUME TypeOK, NEW i \in Instances, NEW w \in Workers, WorkerStep(i, w) \/ SendStep(i, w)
    PROVE  /\ wpc'[i][w] = "mark" => \E s \in Subs : MailSent(i, w, s)
           /\ wpc'[i][w] = "update" => \E s \in Subs : MarkNotified(i, w, s)
<1> USE DEF TypeOK
<1>1. ASSUME NEW t \in Tags \cup {NoTag}, WithRelease(i, w, t)
      PROVE  wpc'[i][w] \notin {"mark", "update"}
  <2>1. CASE t \in StableTags
    BY <1>1, <2>1 DEF WithRelease
  <2>2. CASE t \notin StableTags
    BY <1>1, <2>2 DEF WithRelease, EndJob
  <2> QED
    BY <2>1, <2>2
<1>2. ASSUME NEW r \in Repos, ReleaseFromCache(i, w, r) \/ ReleaseFromGitHub(i, w, r)
      PROVE  wpc'[i][w] \notin {"mark", "update"}
  BY <1>1, <1>2 DEF ReleaseFromCache, ReleaseFromGitHub
<1>3. ASSUME NEW r \in Repos, ReleaseUnavailable(i, w, r)
      PROVE  wpc'[i][w] \notin {"mark", "update"}
  BY <1>3 DEF ReleaseUnavailable, EndJob
<1>4. CASE Abandon(i, w) \/ WorkerExit(i, w)
  BY <1>4 DEF Abandon, WorkerExit, EndJob
<1>5. ASSUME NEW s \in Subs,
             \/ Skip(i, w, s) \/ MailFails(i, w, s) \/ MarkFails(i, w, s)
             \/ UpdateLastSeenTag(i, w, s) \/ UpdateFails(i, w, s)
      PROVE  wpc'[i][w] \notin {"mark", "update"}
  BY <1>5, NextSubEffect DEF Skip, MailFails, MarkFails, UpdateLastSeenTag, UpdateFails
<1>6. ASSUME NEW s \in Subs, NotNotified(i, w, s)
      PROVE  wpc'[i][w] = "send"
  BY <1>6 DEF NotNotified
<1>7. ASSUME NEW s \in Subs, MailSent(i, w, s)
      PROVE  wpc'[i][w] = "mark"
  BY <1>7 DEF MailSent
<1>8. ASSUME NEW s \in Subs, MarkNotified(i, w, s)
      PROVE  wpc'[i][w] = "update"
  BY <1>8 DEF MarkNotified
<1> QED
  BY <1>2, <1>3, <1>4, <1>5, <1>6, <1>7, <1>8 DEF WorkerStep, SendStep

\* What a worker's own step adds to the log.
LEMMA WorkerLog ==
    ASSUME NEW i \in Instances, NEW w \in Workers, WorkerStep(i, w) \/ SendStep(i, w)
    PROVE  \/ log' = log
           \/ \E s \in Subs : /\ wpc[i][w] = "mark" /\ Current(i, w, s)
                              /\ log' = log \cup {<<s, tag[i][w]>>}
BY DEF WorkerStep, SendStep, ReleaseFromCache, ReleaseFromGitHub, ReleaseUnavailable, Skip,
       NotNotified, MailSent, MailFails, MarkNotified, MarkFails, UpdateLastSeenTag,
       UpdateFails, Abandon, WorkerExit, db

LEMMA MarkFreshStep == SendInv /\ MarkFresh /\ [Next]_vars => MarkFresh'
<1> SUFFICES ASSUME SendInv, MarkFresh, [Next]_vars
             PROVE  MarkFresh'
  OBVIOUS
<1>t. TypeOK
  BY DEF SendInv, TypeInv
<1>1. CASE UNCHANGED vars
  BY <1>1 DEF MarkFresh, Current, vars, db, worker
<1>2. CASE (\E i \in Instances : ScanStep(i) \/ Stop(i)) \/ EnvStep
  <2> SUFFICES ASSUME NEW i \in Instances, NEW w \in Workers, NEW s \in Subs,
                      wpc'[i][w] = "mark", Current(i, w, s)'
               PROVE  <<s, tag'[i][w]>> \notin log'
    BY DEF MarkFresh
  <2>1. Same(i, w)
    BY <1>2, <1>t, OtherFrame
  <2>2. log' \subseteq log
    BY <1>2 DEF ScanStep, EnvStep, EndSession, Start, Acquire, AcquireDenied, AcquireFails, Fetch, FetchNothing,
                Dispatch, CloseJobs, JoinWorkers, Release, Tick, Stop, Cancel, Exit, LoseSession,
                ReapSession, Expire, Publish, Confirm, Unsubscribe, db
  <2> QED
    BY <2>1, <2>2 DEF MarkFresh, Current, Same
<1>3. ASSUME NEW i \in Instances, NEW w \in Workers, WorkerStep(i, w) \/ SendStep(i, w)
      PROVE  MarkFresh'
  <2> SUFFICES ASSUME NEW j \in Instances, NEW x \in Workers, NEW u \in Subs,
                      wpc'[j][x] = "mark", Current(j, x, u)'
               PROVE  <<u, tag'[j][x]>> \notin log'
    BY DEF MarkFresh
  <2>1. CASE j = i /\ x = w
    <3>1. PICK s \in Subs : MailSent(i, w, s)
      BY <1>t, <1>3, <2>1, WorkerPlaces
    <3>2. /\ wpc[i][w] = "send" /\ UNCHANGED <<todo, tag, log>>
      BY <3>1 DEF MailSent, db
    <3> QED
      BY <2>1, <3>2 DEF SendInv, NoSendOfRecorded, Current
  <2>2. CASE ~(j = i /\ x = w)
    <3>1. wpc[j][x] = "mark" /\ Current(j, x, u) /\ tag'[j][x] = tag[j][x]
      BY <1>3, <1>t, <2>2, WorkerFrame DEF Others, Current
    <3>2. <<u, tag[j][x]>> \notin log
      BY <3>1 DEF MarkFresh
    <3>3. ASSUME NEW s \in Subs, wpc[i][w] = "mark", Current(i, w, s)
          PROVE  u # s
      BY <2>2, <3>1, <3>3, OneAtWork DEF Current
    <3> QED
      BY <1>3, <3>1, <3>2, <3>3, WorkerLog
  <2> QED
    BY <2>1, <2>2
<1> QED
  BY <1>1, <1>2, <1>3 DEF Next

\* What is under way for a subscription is as long as no worker comes to its update or leaves it.
LEMMA UnderwayKept ==
    ASSUME NEW s \in Subs,
           \A j \in Instances, x \in Workers :
                \/ Same(j, x)
                \/ ~(wpc[j][x] = "update" /\ Current(j, x, s)) /\ ~(wpc'[j][x] = "update" /\ Current(j, x, s)')
    PROVE  Underway(s)' = Underway(s)
BY DEF Underway, Same, Current

\* The two steps that matter: a record comes under way, and what is under way is written.
LEMMA RecordComes ==
    ASSUME SendInv, MarkFresh, NEW i \in Instances, NEW w \in Workers, NEW s \in Subs,
           MarkNotified(i, w, s)
    PROVE  {t \in Tags : <<s, t>> \in log' \ log} = {tag[i][w]} /\ Underway(s)' = {tag[i][w]}
<1>t. TypeOK
  BY DEF SendInv, TypeInv
<1>1. /\ wpc[i][w] = "mark" /\ Current(i, w, s)
      /\ log' = log \cup {<<s, tag[i][w]>>} /\ UNCHANGED <<todo, tag>>
      /\ wpc' = [wpc EXCEPT ![i][w] = "update"]
  BY DEF MarkNotified
<1>2. tag[i][w] \in Tags /\ <<s, tag[i][w]>> \notin log
  BY <1>1, TagAssumption DEF SendInv, TypeInv, HasRelease, MarkFresh
<1>3. ASSUME NEW j \in Instances, NEW x \in Workers, wpc'[j][x] = "update", Current(j, x, s)'
      PROVE  j = i /\ x = w
  <2> SUFFICES ASSUME ~(j = i /\ x = w)
               PROVE  FALSE
    OBVIOUS
  <2>1. wpc[j][x] = "update" /\ s \in todo[j][x]
    BY <1>t, <1>1, <1>3 DEF TypeOK, Current
  <2> QED
    BY <1>1, <2>1, OneAtWork DEF Current
<1>4. wpc'[i][w] = "update" /\ Current(i, w, s)' /\ tag'[i][w] = tag[i][w]
  BY <1>t, <1>1 DEF TypeOK, Current
<1> QED
  BY <1>1, <1>2, <1>3, <1>4 DEF Underway

LEMMA RecordWritten ==
    ASSUME SendInv, NEW i \in Instances, NEW w \in Workers, NEW s \in Subs,
           UpdateLastSeenTag(i, w, s)
    PROVE  /\ Underway(s) = {tag[i][w]} /\ Underway(s)' = {}
           /\ lastSeen'[s] = tag[i][w]
<1>t. TypeOK
  BY DEF SendInv, TypeInv
<1>1. /\ wpc[i][w] = "update" /\ Current(i, w, s) /\ NextSub(i, w, s)
      /\ lastSeen' = [lastSeen EXCEPT ![s] = tag[i][w]]
  BY DEF UpdateLastSeenTag
<1>2. tag[i][w] \in Tags
  BY <1>1, TagAssumption DEF SendInv, TypeInv, HasRelease
<1>3. ASSUME NEW j \in Instances, NEW x \in Workers, wpc[j][x] = "update", Current(j, x, s)
      PROVE  j = i /\ x = w
  BY <1>1, <1>3, OneAtWork DEF Current
<1>4. ASSUME NEW j \in Instances, NEW x \in Workers
      PROVE  ~(wpc'[j][x] = "update" /\ Current(j, x, s)')
  BY <1>t, <1>1, <1>3, NextSubEffect DEF Others, Current
<1>5. lastSeen'[s] = tag[i][w]
  BY <1>t, <1>1 DEF TypeOK
<1> QED
  BY <1>1, <1>2, <1>3, <1>4, <1>5 DEF Underway

NewestKept(s) ==
    /\ Underway(s)' = Underway(s) /\ lastSeen'[s] = lastSeen[s]
    /\ \A t \in Tags : <<s, t>> \in log' => <<s, t>> \in log

LEMMA NewestUnmoved == ASSUME NEW s \in Subs, NewestKept(s) PROVE NewestStep(s)
<1>1. {t \in Tags : <<s, t>> \in log' \ log} = {}
  BY DEF NewestKept
<1>2. Newest(s)' = Newest(s)
  BY DEF NewestKept, Newest
<1> QED
  BY <1>1, <1>2 DEF NewestStep

LEMMA NewestWorker ==
    ASSUME Faults = {}, QuietInv, SendInv, MarkFresh, NEW i \in Instances, NEW w \in Workers,
           WorkerStep(i, w) \/ SendStep(i, w), NEW s \in Subs, row[s] # "deleted"
    PROVE  NewestStep(s)
<1>t. TypeOK /\ NoCancel
  BY DEF QuietInv, TypeInv
<1>o. Others(i, w)
  BY <1>t, WorkerFrame
<1>k. ASSUME ~(wpc[i][w] = "update" /\ Current(i, w, s)), ~(wpc'[i][w] = "update" /\ Current(i, w, s)')
      PROVE  Underway(s)' = Underway(s)
  BY <1>k, <1>o, UnderwayKept DEF Others, Same
<1>1. CASE MarkNotified(i, w, s)
  <2>1. {t \in Tags : <<s, t>> \in log' \ log} = {tag[i][w]} /\ Underway(s)' = {tag[i][w]}
    BY <1>1, RecordComes
  <2>2. Newest(s)' = {tag[i][w]}
    BY <2>1 DEF Newest
  <2> QED
    BY <2>1, <2>2 DEF NewestStep
<1>2. CASE UpdateLastSeenTag(i, w, s)
  <2>1. {t \in Tags : <<s, t>> \in log' \ log} = {}
    BY <1>2 DEF UpdateLastSeenTag
  <2> QED
    BY <1>2, <2>1, RecordWritten DEF NewestStep, Newest
<1>3. ASSUME NEW u \in Subs, u # s, MarkNotified(i, w, u) \/ UpdateLastSeenTag(i, w, u)
      PROVE  NewestKept(s)
  <2>1. Current(i, w, u) /\ (wpc[i][w] = "mark" \/ wpc'[i][w] # "update")
    BY <1>t, <1>3, NextSubEffect DEF MarkNotified, UpdateLastSeenTag
  <2>2. ~(Current(i, w, s))
    BY <1>3, <2>1, CurrentUnique
  <2>3. ~(wpc'[i][w] = "update" /\ Current(i, w, s)')
    BY <1>t, <1>3, <2>2, NextSubEffect DEF MarkNotified, UpdateLastSeenTag, Current
  <2>4. lastSeen'[s] = lastSeen[s] /\ \A t \in Tags : <<s, t>> \in log' => <<s, t>> \in log
    BY <1>t, <1>3 DEF MarkNotified, UpdateLastSeenTag, TypeOK
  <2> QED
    BY <1>k, <2>2, <2>3, <2>4 DEF NewestKept
<1>4. ASSUME NEW u \in Subs, MarkFails(i, w, u) \/ UpdateFails(i, w, u)
      PROVE  NewestKept(s)
  <2>1. /\ Current(i, w, u) /\ row[u] = "deleted" /\ UNCHANGED <<lastSeen, log>>
        /\ wpc'[i][w] # "update"
    BY <1>t, <1>4, NextSubEffect DEF MarkFails, UpdateFails, DbFails, NoCancel, db
  <2>2. ~Current(i, w, s)
    BY <2>1, CurrentUnique
  <2> QED
    BY <1>k, <2>1, <2>2 DEF NewestKept
<1>5. ASSUME \/ \E r \in Repos : ReleaseFromCache(i, w, r) \/ ReleaseFromGitHub(i, w, r)
                                 \/ ReleaseUnavailable(i, w, r)
             \/ \E u \in Subs : Skip(i, w, u) \/ NotNotified(i, w, u)
             \/ Abandon(i, w) \/ WorkerExit(i, w) \/ SendStep(i, w)
      PROVE  NewestKept(s)
  <2>1. wpc[i][w] \notin {"mark", "update"} /\ UNCHANGED <<lastSeen, log>>
    BY <1>t, <1>5 DEF ReleaseFromCache, ReleaseFromGitHub, ReleaseUnavailable, Skip, NotNotified,
                      SendStep, MailSent, MailFails, Abandon, WorkerExit, NoCancel, db
  <2>2. wpc'[i][w] # "update"
    BY <1>t, <2>1, WorkerPlaces DEF MarkNotified
  <2> QED
    BY <1>k, <2>1, <2>2 DEF NewestKept
<1> QED
  BY <1>1, <1>2, <1>3, <1>4, <1>5, NewestUnmoved DEF WorkerStep

LEMMA NewestOther ==
    ASSUME Faults = {}, QuietInv, (\E i \in Instances : ScanStep(i) \/ Stop(i)) \/ EnvStep,
           NEW s \in Subs, row'[s] # "deleted"
    PROVE  NewestStep(s)
<1>t. TypeOK
  BY DEF QuietInv, TypeInv
<1>1. \A j \in Instances, x \in Workers :
        Same(j, x) \/ (wpc[j][x] # "update" /\ wpc'[j][x] # "update")
  BY <1>t, QuietFrame, OtherFrame
<1>2. Underway(s)' = Underway(s)
  BY <1>1, UnderwayKept
<1>3. lastSeen'[s] = lastSeen[s] /\ \A t \in Tags : <<s, t>> \in log' => <<s, t>> \in log
  BY <1>t, OtherRows
<1> QED
  BY <1>2, <1>3, NewestUnmoved DEF NewestKept

\* With no faults last_seen_tag is the tag of the newest record for the subscription, unless
\* the worker that made the record is about to write it, for any number of instances, workers
\* and tags and also when the latest release goes back to an older one (checkRepo,
\* scanner.go:165 to :175).
THEOREM RecordsAgree == ASSUME Faults = {} PROVE Spec => LastSeenFollowsLog
<1>1. QuietInv /\ SendInv /\ MarkFresh /\ [Next]_vars => [\A s \in Subs : NewestStep(s)]_vars
  <2> SUFFICES ASSUME QuietInv, SendInv, MarkFresh, Next, NEW s \in Subs, row'[s] # "deleted"
               PROVE  NewestStep(s)
    BY DEF NewestStep
  <2>1. ASSUME NEW i \in Instances, NEW w \in Workers, WorkerStep(i, w) \/ SendStep(i, w)
        PROVE  NewestStep(s)
    <3>1. row' = row
      BY <2>1, WorkerFrame DEF QuietInv, TypeInv
    <3> QED
      BY <2>1, <3>1, NewestWorker
  <2> QED
    BY <2>1, NewestOther DEF Next
<1>2. Spec => []SendInv
  BY SendAlways
<1>3. Spec => []MarkFresh
  <2>1. Init => MarkFresh
    BY DEF Init, MarkFresh
  <2> QED
    BY <1>2, <2>1, MarkFreshStep, PTL DEF Spec
<1> QED
  BY <1>1, <1>2, <1>3, ExactAlways, PTL DEF Spec, LastSeenFollowsLog
=============================================================================
