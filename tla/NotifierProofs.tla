---------------------------- MODULE NotifierProofs ----------------------------
(***************************************************************************)
(* The scanners and the subscription service together, under every fault   *)
(* of either: each is the environment that the theorems about the other    *)
(* one assume, so what was proved of the scanners alone, and of the        *)
(* service alone, holds of the two composed.  What neither says is proved  *)
(* from the invariant of the two: who was mailed had opted in, and an      *)
(* address is mailed twice only after it subscribed twice.                 *)
(***************************************************************************)
EXTENDS Notifier, ScannerLedger, FiniteSets

-----------------------------------------------------------------------------
(* The invariant.  The scanners' half is that of ScannerLedger; the service's half says   *)
(* which rows a call may have in hand and how the rows of one pair exclude each other.    *)

ScannerInv == TypeInv /\ RecordInv /\ ConfirmedInv /\ DeletedForgotten

\* A row to come is pending for the scanner; one that is no longer pending had a confirmation
\* mail, and a deleted one a release mail.
RowsMade ==
    /\ made \subseteq Subs
    /\ \A q \in Subs \ made : row[q] = "pending"
    /\ \A q \in Subs : row[q] # "pending" => q \in inbox
    /\ \A q \in Subs : row[q] = "deleted" => q \in Unsubscribers

\* A call has a row in hand that was inserted; one that confirms or deletes it followed a mail.
CallsInHand ==
    /\ hpc \in [Handlers -> {"idle", "confirm", "inc", "delete", "dec"}]
    /\ hsub \in [Handlers -> Subs \cup {None}]
    /\ \A h \in Handlers :
        /\ hpc[h] # "idle" => hsub[h] \in made
        /\ hpc[h] = "confirm" => hsub[h] \in inbox
        /\ hpc[h] = "delete" => hsub[h] \in Unsubscribers

PairUnique ==
    \A p, q \in made : p # q /\ PairOf[p] = PairOf[q] => "deleted" \in {row[p], row[q]}

ServiceInv == RowsMade /\ CallsInHand /\ PairUnique

SystemInv == ScannerInv /\ ServiceInv

-----------------------------------------------------------------------------
(* What the service's statements do to the table. *)

\* The rows that the service sees change are those of the statements of Subscriptions.
LEMMA ServiceRows ==
    ASSUME Service!Work
    PROVE  \/ ServiceRow' = ServiceRow
           \/ \E q \in Subs : ~Service!PairTaken(q) /\ ServiceRow' = [ServiceRow EXCEPT ![q] = "pending"]
           \/ \E h \in Handlers, v \in {"confirmed", "deleted"} :
                 Service!Stored(hsub[h]) /\ ServiceRow' = [ServiceRow EXCEPT ![hsub[h]] = v]
<1>1. ASSUME NEW q \in Subs, Service!SubscribeStep(q) \/ Service!InlineSend(q)
      PROVE  \/ ServiceRow' = ServiceRow
             \/ ~Service!PairTaken(q) /\ ServiceRow' = [ServiceRow EXCEPT ![q] = "pending"]
  BY <1>1 DEF Service!SubscribeStep, Service!CheckRepo, Service!Create, Service!CreateConflict,
              Service!CreateFails, Service!Enqueue, Service!QueueFull, Service!InlineSend
<1>2. ASSUME NEW h \in Handlers, Service!HandlerStep(h)
      PROVE  \/ ServiceRow' = ServiceRow
             \/ \E v \in {"confirmed", "deleted"} :
                    Service!Stored(hsub[h]) /\ ServiceRow' = [ServiceRow EXCEPT ![hsub[h]] = v]
  BY <1>2 DEF Service!HandlerStep, Service!ConfirmRow, Service!ConfirmFails, Service!IncGauge,
              Service!DeleteRow, Service!DeleteFails, Service!DecGauge
<1>3. ASSUME \/ \E w \in Mailers : Service!Take(w) \/ Service!WorkerSend(w)
             \/ \E h \in Handlers, q \in Subs :
                    Service!ConfirmLookup(h, q) \/ Service!UnsubscribeLookup(h, q)
      PROVE  ServiceRow' = ServiceRow
  BY <1>3 DEF Service!Take, Service!WorkerSend, Service!ConfirmLookup, Service!UnsubscribeLookup
<1> QED
  BY <1>1, <1>2, <1>3 DEF Service!Work

\* A row is inserted only when no other row of its pair is stored.
LEMMA InsertUnique ==
    ASSUME SystemInv, Service!Work, NEW q \in Subs, q \notin made, Insert(q)
    PROVE  \A p \in made : PairOf[p] = PairOf[q] => row[p] = "deleted"
<1>0. row \in [Subs -> {"pending", "confirmed", "deleted"}] /\ made \subseteq Subs
  BY DEF SystemInv, ScannerInv, TypeInv, TypeOK, ServiceInv, RowsMade
<1>1. /\ \A p \in Subs : ServiceRow[p] = IF p \in made THEN row[p] ELSE "none"
      /\ \A p \in Subs : ServiceRow'[p] = IF p \in made' THEN row'[p] ELSE "none"
      /\ DOMAIN ServiceRow = Subs
  BY DEF ServiceRow
<1>2. ServiceRow[q] = "none" /\ ServiceRow'[q] = "pending"
  BY <1>0, <1>1 DEF Insert, SystemInv, ServiceInv, RowsMade
<1>3. ~Service!PairTaken(q)
  BY <1>1, <1>2, ServiceRows DEF Service!Stored
<1> QED
  BY <1>0, <1>1, <1>3 DEF Service!PairTaken, Service!Stored

\* A row that becomes confirmed was pending: a deleted one is not confirmed again.
LEMMA SetPending ==
    ASSUME SystemInv, Service!Work, NEW h \in Handlers, Set(h, "confirm", "confirmed")
    PROVE  hsub[h] \in made \cap inbox /\ row[hsub[h]] = "pending"
<1>0. /\ row \in [Subs -> {"pending", "confirmed", "deleted"}] /\ made \subseteq Subs
      /\ hsub[h] \in made \cap inbox
  BY DEF SystemInv, ScannerInv, TypeInv, TypeOK, ServiceInv, RowsMade, CallsInHand, Set
<1>1. /\ \A p \in Subs : ServiceRow[p] = IF p \in made THEN row[p] ELSE "none"
      /\ \A p \in Subs : ServiceRow'[p] = IF p \in made' THEN row'[p] ELSE "none"
      /\ DOMAIN ServiceRow = Subs
  BY DEF ServiceRow
<1>2. ServiceRow[hsub[h]] # "confirmed" /\ ServiceRow'[hsub[h]] = "confirmed"
  BY <1>0, <1>1 DEF Set
<1>3. Service!Stored(hsub[h])
  BY <1>0, <1>1, <1>2, ServiceRows
<1> QED
  BY <1>0, <1>1, <1>2, <1>3 DEF Service!Stored

\* A row that is deleted was confirmed, and a release mail told its user how.
LEMMA SetConfirmed ==
    ASSUME SystemInv, NEW h \in Handlers, Set(h, "delete", "deleted")
    PROVE  hsub[h] \in made \cap Unsubscribers /\ row[hsub[h]] = "confirmed"
<1>0. /\ row \in [Subs -> {"pending", "confirmed", "deleted"}]
      /\ hsub[h] \in made /\ hsub[h] \in Unsubscribers
      /\ row[hsub[h]] # "deleted"
  BY DEF SystemInv, ScannerInv, TypeInv, TypeOK, ServiceInv, RowsMade, CallsInHand, Set
<1>1. row[hsub[h]] # "pending"
  BY <1>0 DEF Unsubscribers, SystemInv, ScannerInv, ConfirmedInv, MailedConfirmedStable
<1> QED
  BY <1>0, <1>1 DEF Unsubscribers

-----------------------------------------------------------------------------
(* The service is the users of Scanner. *)

\* With a deleted row the database deletes its log; its last_seen_tag goes with it.
LEMMA DeletedEmpty ==
    ASSUME SystemInv, NEW q \in Subs, row[q] = "deleted"
    PROVE  lastSeen[q] = NoTag /\ \A t \in Tags : <<q, t>> \notin log
<1>1. lastSeen \in [Subs -> Tags \cup {NoTag}]
  BY DEF SystemInv, ScannerInv, TypeInv, TypeOK
<1>2. \A t \in Tags : <<q, t>> \notin log
  BY DEF SystemInv, ScannerInv, DeletedForgotten
<1> QED
  BY <1>1, <1>2 DEF SystemInv, ScannerInv, RecordInv, LastSeenWasRecorded

\* What PostgreSQL does to a row that is not newly deleted: nothing.
LEMMA CascadeFrame ==
    ASSUME SystemInv, TableStep,
           \A q \in Subs : row'[q] = "deleted" => row[q] = "deleted"
    PROVE  lastSeen' = lastSeen /\ log' = log
<1>0. lastSeen \in [Subs -> Tags \cup {NoTag}] /\ log \subseteq Subs \X Tags
  BY DEF SystemInv, ScannerInv, TypeInv, TypeOK
<1>1. /\ lastSeen' = [q \in Subs |-> IF row'[q] = "deleted" THEN NoTag ELSE lastSeen[q]]
      /\ log' = {n \in log : row'[n[1]] # "deleted"}
  BY DEF TableStep
<1>2. \A q \in Subs : row'[q] = "deleted" => lastSeen[q] = NoTag
  BY DeletedEmpty
<1>3. \A n \in log : row'[n[1]] # "deleted"
  BY <1>0, DeletedEmpty
<1> QED
  BY <1>0, <1>1, <1>2, <1>3

LEMMA ServiceStepFrame ==
    ASSUME SystemInv, ServiceStep
    PROVE  \/ UNCHANGED vars
           \/ \E h \in Handlers : hsub[h] \in made /\ made' = made /\ Confirm(hsub[h])
           \/ \E h \in Handlers : hsub[h] \in made /\ made' = made /\ Unsubscribe(hsub[h])
<1>0. /\ row \in [Subs -> {"pending", "confirmed", "deleted"}] /\ made \subseteq Subs
      /\ lastSeen \in [Subs -> Tags \cup {NoTag}] /\ log \subseteq Subs \X Tags
  BY DEF SystemInv, ScannerInv, TypeInv, TypeOK, ServiceInv, RowsMade
<1>s. TableStep /\ Service!Work /\ UNCHANGED <<lockHolder, process, worker, world>>
  BY DEF ServiceStep
<1>1. CASE row' = row
  <2>1. lastSeen' = lastSeen /\ log' = log
    BY <1>s, <1>1, CascadeFrame
  <2> QED
    BY <1>s, <1>1, <2>1 DEF vars, db
<1>2. ASSUME NEW h \in Handlers, Set(h, "confirm", "confirmed")
      PROVE  hsub[h] \in made /\ made' = made /\ Confirm(hsub[h])
  <2>1. hsub[h] \in made /\ row[hsub[h]] = "pending"
    BY <1>s, <1>2, SetPending
  <2>2. row' = [row EXCEPT ![hsub[h]] = "confirmed"] /\ made' = made
    BY <1>2 DEF Set
  <2>3. lastSeen' = lastSeen /\ log' = log
    BY <1>0, <1>s, <2>2, CascadeFrame
  <2> QED
    BY <1>s, <2>1, <2>2, <2>3 DEF Confirm
<1>3. ASSUME NEW h \in Handlers, Set(h, "delete", "deleted")
      PROVE  hsub[h] \in made /\ made' = made /\ Unsubscribe(hsub[h])
  <2> DEFINE q == hsub[h]
  <2>1. q \in made /\ q \in Subs /\ q \in Unsubscribers /\ row[q] = "confirmed"
    BY <1>0, <1>3, SetConfirmed
  <2>2. row' = [row EXCEPT ![q] = "deleted"] /\ made' = made
    BY <1>3 DEF Set
  <2> HIDE DEF q
  <2>3. lastSeen' = [lastSeen EXCEPT ![q] = NoTag]
    <3>1. lastSeen' = [p \in Subs |-> IF row'[p] = "deleted" THEN NoTag ELSE lastSeen[p]]
      BY <1>s DEF TableStep
    <3>2. \A p \in Subs : row'[p] = "deleted" /\ p # q => lastSeen[p] = NoTag
      BY <1>0, <2>2, DeletedEmpty
    <3> QED
      BY <1>0, <2>1, <2>2, <3>1, <3>2
  <2>4. log' = {n \in log : n[1] # q}
    <3>1. log' = {n \in log : row'[n[1]] # "deleted"}
      BY <1>s DEF TableStep
    <3>2. \A n \in log : row'[n[1]] = "deleted" <=> n[1] = q
      BY <1>0, <2>1, <2>2, DeletedEmpty
    <3> QED
      BY <3>1, <3>2
  <2>5. \E t \in Tags : <<q, t>> \in mailed
    BY <2>1 DEF Unsubscribers
  <2> QED
    BY <1>s, <2>1, <2>2, <2>3, <2>4, <2>5 DEF Unsubscribe, q
<1> QED
  BY <1>s, <1>1, <1>2, <1>3 DEF TableStep, Insert

LEMMA ScannerImplementedStep ==
    ASSUME SystemInv, [SystemNext]_<<vars, service>>
    PROVE  [Next]_vars
<1>0. made \subseteq Subs
  BY DEF SystemInv, ServiceInv, RowsMade
<1>1. CASE ScannerStep
  BY <1>1 DEF ScannerStep, Next, EnvStep, EndSession
<1>2. CASE ServiceStep
  BY <1>0, <1>2, ServiceStepFrame DEF Next, EnvStep, EndSession
<1>3. CASE EndServer
  BY <1>3, ServerAssumption DEF EndServer, Next, EnvStep, EndSession
<1> QED
  BY <1>1, <1>2, <1>3 DEF SystemNext, StopServer

-----------------------------------------------------------------------------
(* The invariant is one. *)

LEMMA ScannerInvStep ==
    ASSUME ScannerInv, [Next]_vars
    PROVE  ScannerInv'
BY TypeStep, RecordStep, ConfirmedStep, DeletedStep DEF ScannerInv, TypeInv

\* A scanner leaves the table's rows and the service alone, and mails no row to come.
LEMMA ScannerStepFrame ==
    ASSUME SystemInv, ScannerStep
    PROVE  /\ UNCHANGED <<service, row>>
           /\ \/ mailed' = mailed
              \/ \E s \in Subs, t \in Tags :
                    row[s] # "pending" /\ mailed' = mailed \cup {<<s, t>>}
<1> USE DEF db, process, world
<1>t. TypeInv /\ TypeOK
  BY DEF SystemInv, ScannerInv, TypeInv
<1>1. ASSUME NEW i \in Instances, ScanStep(i) \/ Stop(i) \/ Cancel(i) \/ LoseSession(i) \/ Exit(i)
      PROVE  UNCHANGED <<row, mailed>>
  BY <1>1 DEF ScanStep, Start, Acquire, AcquireDenied, AcquireFails, Fetch, FetchNothing, Dispatch,
              CloseJobs, JoinWorkers, Release, Tick, Stop, Cancel, LoseSession, Exit
<1>2. ASSUME ReapSession \/ \E r \in Repos : Expire(r) \/ \E t \in Tags : Publish(r, t)
      PROVE  UNCHANGED <<row, mailed>>
  BY <1>2 DEF ReapSession, Expire, Publish
<1>3. ASSUME NEW i \in Instances, NEW w \in Workers, WorkerStep(i, w)
      PROVE  UNCHANGED <<row, mailed>>
  <2>1. mailed' = mailed
    BY <1>3 DEF WorkerStep, ReleaseFromCache, ReleaseFromGitHub, ReleaseUnavailable, Skip, NotNotified,
                MarkNotified, MarkFails, UpdateLastSeenTag, UpdateFails, Abandon, WorkerExit
  <2> QED
    BY <1>t, <1>3, <2>1, WorkerFrame
<1>4. ASSUME NEW i \in Instances, NEW w \in Workers, SendStep(i, w)
      PROVE  /\ row' = row
             /\ \/ mailed' = mailed
                \/ \E s \in Subs, t \in Tags : row[s] # "pending" /\ mailed' = mailed \cup {<<s, t>>}
  <2>1. PICK s \in Subs : MailSent(i, w, s) \/ MailFails(i, w, s)
    BY <1>4 DEF SendStep
  <2>2. wpc[i][w] = "send" /\ Current(i, w, s) /\ mailed' \in {mailed, mailed \cup {<<s, tag[i][w]>>}}
    BY <2>1 DEF MailSent, MailFails
  <2>3. tag[i][w] \in Tags
    BY <1>t, <2>2, TagAssumption DEF TypeInv, HasRelease
  <2>4. row[s] # "pending"
    BY <2>2 DEF Current, SystemInv, ScannerInv, ConfirmedInv, ConfirmedJobs
  <2> QED
    BY <1>t, <1>4, <2>2, <2>3, <2>4, WorkerFrame
<1> QED
  BY <1>1, <1>2, <1>3, <1>4 DEF ScannerStep, EndSession

\* What a step of the service does to a call: it ends, goes on with the row it has in hand, but
\* not to change it, or has looked up a row that is stored and was mailed about.
Calls(h) ==
    \/ hpc'[h] = "idle"
    \/ hpc'[h] \in {"inc", "dec"} /\ hpc[h] # "idle" /\ hsub'[h] = hsub[h]
    \/ hpc'[h] = hpc[h] /\ hsub'[h] = hsub[h]
    \/ /\ hsub'[h] \in Subs /\ Service!Stored(hsub'[h])
       /\ hpc'[h] = "confirm" => hsub'[h] \in inbox
       /\ hpc'[h] = "delete" => hsub'[h] \in Unsubscribers

LEMMA CallStep ==
    ASSUME CallsInHand, Service!Work
    PROVE  /\ \A h \in Handlers : Calls(h)
           /\ hpc' \in [Handlers -> {"idle", "confirm", "inc", "delete", "dec"}]
           /\ hsub' \in [Handlers -> Subs \cup {None}]
<1> USE DEF CallsInHand, Calls
<1>1. ASSUME \/ \E q \in Subs : Service!SubscribeStep(q) \/ Service!InlineSend(q)
             \/ \E w \in Mailers : Service!Take(w) \/ Service!WorkerSend(w)
      PROVE  UNCHANGED <<hpc, hsub>>
  BY <1>1 DEF Service!SubscribeStep, Service!CheckRepo, Service!Create, Service!CreateConflict,
              Service!CreateFails, Service!Enqueue, Service!QueueFull, Service!InlineSend,
              Service!Take, Service!WorkerSend, Service!handler
<1>2. ASSUME NEW g \in Handlers, Service!HandlerStep(g)
      PROVE  /\ hpc[g] # "idle"
             /\ \/ Service!Reply(g)
                \/ \E pc \in {"inc", "dec"} : Service!Proceed(g, pc, hsub[g])
  BY <1>2 DEF Service!HandlerStep, Service!ConfirmRow, Service!ConfirmFails, Service!IncGauge,
              Service!DeleteRow, Service!DeleteFails, Service!DecGauge
<1>3. ASSUME NEW g \in Handlers, NEW q \in Subs,
             Service!ConfirmLookup(g, q) \/ Service!UnsubscribeLookup(g, q)
      PROVE  /\ Service!Stored(q)
             /\ \/ Service!Proceed(g, "confirm", q) /\ q \in inbox
                \/ Service!Proceed(g, "delete", q) /\ q \in Unsubscribers
  BY <1>3 DEF Service!ConfirmLookup, Service!UnsubscribeLookup
<1>4. CASE UNCHANGED <<hpc, hsub>>
  BY <1>4
<1>5. CASE \E g \in Handlers : Service!HandlerStep(g)
  BY <1>2, <1>5 DEF Service!Reply, Service!Proceed
<1>6. CASE \E g \in Handlers, q \in Subs :
               Service!ConfirmLookup(g, q) \/ Service!UnsubscribeLookup(g, q)
  BY <1>3, <1>6 DEF Service!Proceed
<1> QED
  BY <1>1, <1>4, <1>5, <1>6 DEF Service!Work

\* A mail that arrived stays in its mailbox.
LEMMA InboxGrows == ASSUME Service!Work PROVE inbox \subseteq inbox'
<1>1. ASSUME NEW q \in Subs, Service!SubscribeStep(q) \/ Service!InlineSend(q)
      PROVE  inbox \subseteq inbox'
  BY <1>1 DEF Service!SubscribeStep, Service!CheckRepo, Service!Create, Service!CreateConflict,
              Service!CreateFails, Service!Enqueue, Service!QueueFull, Service!InlineSend,
              Service!Send, Service!mail
<1>2. ASSUME NEW w \in Mailers, Service!Take(w) \/ Service!WorkerSend(w)
      PROVE  inbox \subseteq inbox'
  BY <1>2 DEF Service!Take, Service!WorkerSend, Service!Send
<1>3. ASSUME NEW h \in Handlers, Service!HandlerStep(h)
      PROVE  inbox' = inbox
  BY <1>3 DEF Service!HandlerStep, Service!ConfirmRow, Service!ConfirmFails, Service!IncGauge,
              Service!DeleteRow, Service!DeleteFails, Service!DecGauge, Service!mail
<1>4. ASSUME NEW h \in Handlers, NEW q \in Subs,
             Service!ConfirmLookup(h, q) \/ Service!UnsubscribeLookup(h, q)
      PROVE  inbox' = inbox
  BY <1>4 DEF Service!ConfirmLookup, Service!UnsubscribeLookup, Service!mail
<1> QED
  BY <1>1, <1>2, <1>3, <1>4 DEF Service!Work

\* What a step of the service does to the rows: it inserts one whose pair is free, confirms a
\* pending one that had a confirmation mail, or deletes a confirmed one that had a release mail.
LEMMA RowStep ==
    ASSUME SystemInv, ServiceStep
    PROVE  /\ mailed' = mailed
           /\ \/ UNCHANGED <<row, made>>
              \/ /\ row' = row
                 /\ \E q \in Subs \ made :
                        /\ made' = made \cup {q}
                        /\ \A p \in made : PairOf[p] = PairOf[q] => row[p] = "deleted"
              \/ /\ made' = made
                 /\ \E q \in made :
                        \/ /\ q \in inbox /\ row[q] = "pending"
                           /\ row' = [row EXCEPT ![q] = "confirmed"]
                        \/ /\ q \in Unsubscribers /\ row[q] = "confirmed"
                           /\ row' = [row EXCEPT ![q] = "deleted"]
<1>1. TableStep /\ Service!Work /\ mailed' = mailed
  BY DEF ServiceStep, world
<1>2. ASSUME NEW q \in Subs, Insert(q), q \notin made
      PROVE  \A p \in made : PairOf[p] = PairOf[q] => row[p] = "deleted"
  BY <1>1, <1>2, InsertUnique
<1>3. ASSUME NEW q \in Subs, Insert(q)
      PROVE  row' = row /\ made' = made \cup {q}
  BY <1>3 DEF Insert
<1>4. ASSUME NEW h \in Handlers, Set(h, "confirm", "confirmed")
      PROVE  /\ made' = made /\ hsub[h] \in made \cap inbox
             /\ row[hsub[h]] = "pending" /\ row' = [row EXCEPT ![hsub[h]] = "confirmed"]
  BY <1>1, <1>4, SetPending DEF Set
<1>5. ASSUME NEW h \in Handlers, Set(h, "delete", "deleted")
      PROVE  /\ made' = made /\ hsub[h] \in made
             /\ hsub[h] \in Unsubscribers /\ row[hsub[h]] = "confirmed"
             /\ row' = [row EXCEPT ![hsub[h]] = "deleted"]
  BY <1>5, SetConfirmed DEF Set
<1>6. CASE \E q \in Subs : Insert(q)
  BY <1>1, <1>2, <1>3, <1>6
<1>7. CASE \E h \in Handlers : Set(h, "confirm", "confirmed") \/ Set(h, "delete", "deleted")
  BY <1>1, <1>4, <1>5, <1>7
<1> QED
  BY <1>1, <1>6, <1>7 DEF TableStep

LEMMA ServiceInvStep ==
    ASSUME SystemInv, [SystemNext]_<<vars, service>>
    PROVE  ServiceInv'
<1>0. /\ row \in [Subs -> {"pending", "confirmed", "deleted"}]
      /\ made \subseteq Subs /\ CallsInHand /\ RowsMade /\ PairUnique
  BY DEF SystemInv, ScannerInv, TypeInv, TypeOK, ServiceInv, RowsMade
<1>1. CASE UNCHANGED <<row, mailed, made, inbox, hpc, hsub>>
  BY <1>0, <1>1 DEF ServiceInv, RowsMade, CallsInHand, PairUnique, Unsubscribers
<1>2. CASE ScannerStep
  <2>1. UNCHANGED <<row, made, inbox, hpc, hsub>>
    BY <1>2, ScannerStepFrame DEF service
  <2>2. Unsubscribers \subseteq Unsubscribers'
    BY <1>2, ScannerStepFrame DEF Unsubscribers
  <2> QED
    BY <1>0, <2>1, <2>2 DEF ServiceInv, RowsMade, CallsInHand, PairUnique
<1>3. CASE ServiceStep
  <2>1. Unsubscribers' = Unsubscribers
    BY <1>3, RowStep DEF Unsubscribers
  <2>2. Service!Work
    BY <1>3 DEF ServiceStep
  <2>3. RowsMade'
    BY <1>0, <1>3, <2>1, <2>2, RowStep, InboxGrows DEF RowsMade
  <2>4. made \subseteq made' /\ \A q \in Subs : row[q] = "deleted" => row'[q] = "deleted"
    BY <1>0, <1>3, RowStep
  <2>5. PairUnique'
    BY <1>0, <1>3, <2>4, RowStep DEF PairUnique
  <2>6. ASSUME NEW q \in Subs, Service!Stored(q)
        PROVE  q \in made
    BY <2>6 DEF Service!Stored, ServiceRow
  <2>7. CallsInHand'
    <3>1. ASSUME NEW h \in Handlers
          PROVE  /\ hpc'[h] # "idle" => hsub'[h] \in made'
                 /\ hpc'[h] = "confirm" => hsub'[h] \in inbox'
                 /\ hpc'[h] = "delete" => hsub'[h] \in Unsubscribers'
      <4>1. Calls(h) /\ inbox \subseteq inbox'
        BY <1>0, <2>2, CallStep, InboxGrows
      <4> QED
        BY <1>0, <2>1, <2>4, <2>6, <4>1 DEF CallsInHand, Calls
    <3> QED
      BY <1>0, <2>2, <3>1, CallStep DEF CallsInHand
  <2> QED
    BY <2>3, <2>5, <2>7 DEF ServiceInv
<1>4. CASE StopServer
  BY <1>1, <1>4 DEF StopServer, Service!Shutdown, Service!mail, Service!handler, vars, db, world
<1>5. CASE EndServer
  <2>1. /\ UNCHANGED <<row, mailed, made, inbox>>
        /\ hpc' = [h \in Handlers |-> "idle"] /\ hsub' = [h \in Handlers |-> None]
    BY <1>5 DEF EndServer, Exit, Service!Exit, db, world
  <2> QED
    BY <1>0, <2>1 DEF ServiceInv, RowsMade, CallsInHand, PairUnique, Unsubscribers
<1>6. UNCHANGED <<vars, service>> => UNCHANGED <<row, mailed, made, inbox, hpc, hsub>>
  BY DEF vars, db, world, service
<1> QED
  BY <1>1, <1>2, <1>3, <1>4, <1>5, <1>6 DEF SystemNext

LEMMA SystemAlways == SystemSpec => []SystemInv
<1>1. SystemInit => ServiceInv
  BY DEF SystemInit, Init, Service!Init, ServiceInv, RowsMade, CallsInHand, PairUnique
<1>2. SystemInit => ScannerInv
  <2>1. Init => TypeInv
    BY DEF Init, TypeInv, TypeOK, HasRelease, NoTags, Phases, WorkerPcs
  <2>2. Init => RecordInv
    BY DEF Init, RecordInv, LastSeenWasRecorded, RecordedBeforeUpdate, NoTags
  <2>3. Init => ConfirmedInv /\ DeletedForgotten
    BY DEF Init, ConfirmedInv, MailedConfirmedStable, ConfirmedJobs, DeletedForgotten
  <2> QED
    BY <2>1, <2>2, <2>3 DEF SystemInit, ScannerInv
<1>3. SystemInv /\ [SystemNext]_<<vars, service>> => SystemInv'
  <2> SUFFICES ASSUME SystemInv, [SystemNext]_<<vars, service>>
               PROVE  SystemInv'
    OBVIOUS
  <2>1. [Next]_vars
    BY ScannerImplementedStep
  <2>2. ScannerInv'
    BY <2>1, ScannerInvStep DEF SystemInv
  <2> QED
    BY <2>2, ServiceInvStep DEF SystemInv
<1>4. ScannerInv /\ ServiceInv => SystemInv
  BY DEF SystemInv
<1> QED
  BY <1>1, <1>2, <1>3, <1>4, PTL DEF SystemSpec

LEMMA ServiceImplementedStep ==
    ASSUME SystemInv, [SystemNext]_<<vars, service>>
    PROVE  [Service!Next]_(Service!vars)
<1>1. CASE UNCHANGED <<row, mailed, service>>
  BY <1>1 DEF service, ServiceRow, Unsubscribers, Service!vars, Service!subscribe, Service!mail,
              Service!handler
<1>2. CASE ScannerStep
  <2>1. UNCHANGED <<row, service>>
    BY <1>2, ScannerStepFrame
  <2>2. CASE mailed' = mailed
    BY <1>1, <2>1, <2>2
  <2>3. ASSUME NEW s \in Subs, NEW t \in Tags, row[s] # "pending",
               mailed' = mailed \cup {<<s, t>>}
        PROVE  [Service!Next]_(Service!vars)
    <3>1. Unsubscribers' = Unsubscribers \cup {s}
      BY <2>3 DEF Unsubscribers
    <3>2. ServiceRow' = ServiceRow
      BY <2>1 DEF service, ServiceRow
    <3>3. CASE s \in Unsubscribers
      BY <2>1, <3>1, <3>2, <3>3 DEF service, Service!vars, Service!subscribe, Service!mail,
                                    Service!handler
    <3>4. CASE s \notin Unsubscribers
      <4>1. ServiceRow[s] = "confirmed"
        BY <2>3, <3>4 DEF ServiceRow, SystemInv, ScannerInv, TypeInv, TypeOK, ServiceInv, RowsMade
      <4>2. Service!ReleaseMail(s)
        BY <2>1, <3>1, <3>2, <3>4, <4>1 DEF service, Service!ReleaseMail, Service!subscribe,
                                            Service!mail, Service!handler
      <4> QED
        BY <4>2 DEF Service!Next
    <3> QED
      BY <3>3, <3>4
  <2> QED
    BY <1>2, <2>2, <2>3, ScannerStepFrame
<1>3. ServiceStep \/ StopServer \/ EndServer => Service!Next
  BY DEF ServiceStep, StopServer, EndServer, Service!Next
<1>4. UNCHANGED <<vars, service>> => UNCHANGED <<row, mailed, service>>
  BY DEF vars, db, world
<1> QED
  BY <1>1, <1>2, <1>3, <1>4 DEF SystemNext

-----------------------------------------------------------------------------
(* The theorems. *)

\* The subscription service does to the table no more than Scanner lets its users do: every
\* behaviour of the two composed is one of the scanners with their environment, for any
\* number of instances, calls, subscriptions and tags (service/subscription.go:110 to :128).
THEOREM ScannersComposed == SystemSpec => ScannerImplemented
<1>1. SystemInit => Init
  BY DEF SystemInit
<1>2. SystemInv /\ [SystemNext]_<<vars, service>> => [Next]_vars
  BY ScannerImplementedStep
<1> QED
  BY <1>1, <1>2, SystemAlways, PTL DEF SystemSpec, ScannerImplemented, Spec

\* The scanners do to the subscription service no more than Subscriptions lets them: the
\* first release mail of a subscription goes out while it is confirmed, also when the scan
\* read it long before (checkRepo, scanner.go:158).
THEOREM ServiceComposed == SystemSpec => ServiceImplemented
<1>1. SystemInit => Service!Init
  BY DEF SystemInit
<1>2. SystemInv /\ [SystemNext]_<<vars, service>> => [Service!Next]_(Service!vars)
  BY ServiceImplementedStep
<1> QED
  BY <1>1, <1>2, SystemAlways, PTL DEF SystemSpec, ServiceImplemented, Service!Spec

\* Of the scanners beside the service: without faults release mail is exactly-once (checkRepo,
\* scanner.go:154), whatever calls of the service run beside the scans.
THEOREM SystemExactlyOnce == ASSUME Faults = {} PROVE SystemSpec => []NoDuplicateMail
BY ScannersComposed, ExactlyOnce, PTL DEF ScannerImplemented

\* Of the scanners beside the service: unless a session that holds the lock breaks, they keep the
\* ledger (processJob, scanner.go:182 to :196), whatever else fails and whichever process ends.
THEOREM SystemLedger == ASSUME "session" \notin Faults PROVE SystemSpec => ImplementsLedger
BY ScannersComposed, LedgerImplemented, PTL DEF ScannerImplemented

\* Who is mailed a release got a confirmation mail before (README.md:13): the row was confirmed
\* by a call that had the token of that mail (Confirm, service/subscription.go:112), and
\* neither a fault nor the end of a process confirms one.
THEOREM MailedOptedIn == SystemSpec => []OptedIn
<1>1. ASSUME SystemInv
      PROVE  OptedIn
  <2> SUFFICES ASSUME NEW n \in mailed
               PROVE  n[1] \in inbox
    BY DEF OptedIn
  <2>1. PICK s \in Subs, t \in Tags : n = <<s, t>>
    BY <1>1 DEF SystemInv, ScannerInv, TypeInv, TypeOK
  <2>2. row[s] # "pending"
    BY <1>1, <2>1 DEF SystemInv, ScannerInv, ConfirmedInv, MailedConfirmedStable
  <2> QED
    BY <1>1, <2>1, <2>2 DEF SystemInv, ServiceInv, RowsMade
<1> QED
  BY <1>1, SystemAlways, PTL

\* Two subscriptions of one address and repository that were mailed one release do not both
\* count any more: the address unsubscribed in between (UNIQUE (email, repo),
\* 000001_initial.up.sql:11), however its calls and the scans overlap.
THEOREM MailedOncePerAddress == SystemSpec => []OneMailPerAddress
<1>1. ASSUME SystemInv
      PROVE  OneMailPerAddress
  <2> SUFFICES ASSUME NEW p \in Subs, NEW q \in Subs, NEW t \in Tags,
                      p # q, PairOf[p] = PairOf[q], <<p, t>> \in mailed, <<q, t>> \in mailed
               PROVE  "deleted" \in {row[p], row[q]}
    BY DEF OneMailPerAddress
  <2>1. row[p] # "pending" /\ row[q] # "pending"
    BY <1>1 DEF SystemInv, ScannerInv, ConfirmedInv, MailedConfirmedStable
  <2>2. p \in made /\ q \in made
    BY <1>1, <2>1 DEF SystemInv, ServiceInv, RowsMade
  <2> QED
    BY <1>1, <2>2 DEF SystemInv, ServiceInv, PairUnique
<1> QED
  BY <1>1, SystemAlways, PTL

-----------------------------------------------------------------------------
(* The gauge of Server, from the invariants of SubscriptionsProofs. *)

Counted ==
    INSTANCE SubscriptionsOutbox WITH Requests <- Subs, Workers <- Mailers, row <- ServiceRow,
                                      knowsUnsub <- Unsubscribers, Faults <- ServiceFaults

\* The service of Notifier is the service those invariants are about.
LEMMA SameService ==
    /\ Service!Init => Counted!Init
    /\ [Service!Next]_(Service!vars) => [Counted!Next]_(Counted!vars)
    /\ GaugeNotBelowConfirmed <=> Counted!GaugeNotBelowConfirmed
<1> USE DEF Service!subscribe, Counted!subscribe, Service!mail, Counted!mail, Service!handler,
            Counted!handler, Service!DbFails, Counted!DbFails, Service!Stored, Counted!Stored,
            Service!Answer, Counted!Answer, Service!Send, Counted!Send, Service!Reply, Counted!Reply,
            Service!Proceed, Counted!Proceed
<1>1. ASSUME NEW q \in Subs
      PROVE  Service!SubscribeStep(q) <=> Counted!SubscribeStep(q)
  <2>1. Service!CheckRepo(q) <=> Counted!CheckRepo(q)
    BY DEF Service!CheckRepo, Counted!CheckRepo
  <2>2. /\ Service!Create(q) <=> Counted!Create(q)
        /\ Service!CreateConflict(q) <=> Counted!CreateConflict(q)
    BY DEF Service!Create, Counted!Create, Service!CreateConflict, Counted!CreateConflict,
           Service!PairTaken, Counted!PairTaken
  <2>3. Service!CreateFails(q) <=> Counted!CreateFails(q)
    BY DEF Service!CreateFails, Counted!CreateFails, Service!PairTaken, Counted!PairTaken
  <2>4. /\ Service!Enqueue(q) <=> Counted!Enqueue(q)
        /\ Service!QueueFull(q) <=> Counted!QueueFull(q)
    BY DEF Service!Enqueue, Counted!Enqueue, Service!QueueFull, Counted!QueueFull,
           Service!QueueHasRoom, Counted!QueueHasRoom
  <2> QED
    BY <2>1, <2>2, <2>3, <2>4 DEF Service!SubscribeStep, Counted!SubscribeStep
<1>2. ASSUME NEW q \in Subs
      PROVE  /\ Service!InlineSend(q) <=> Counted!InlineSend(q)
             /\ Service!ReleaseMail(q) <=> Counted!ReleaseMail(q)
  BY DEF Service!InlineSend, Counted!InlineSend, Service!ReleaseMail, Counted!ReleaseMail
<1>3. ASSUME NEW w \in Mailers
      PROVE  /\ Service!Take(w) <=> Counted!Take(w)
             /\ Service!WorkerSend(w) <=> Counted!WorkerSend(w)
  BY DEF Service!Take, Counted!Take, Service!WorkerSend, Counted!WorkerSend
<1>4. ASSUME NEW h \in Handlers
      PROVE  Service!HandlerStep(h) <=> Counted!HandlerStep(h)
  <2>1. /\ Service!ConfirmRow(h) <=> Counted!ConfirmRow(h)
        /\ Service!DeleteRow(h) <=> Counted!DeleteRow(h)
    BY DEF Service!ConfirmRow, Counted!ConfirmRow, Service!DeleteRow, Counted!DeleteRow
  <2>2. /\ Service!ConfirmFails(h) <=> Counted!ConfirmFails(h)
        /\ Service!DeleteFails(h) <=> Counted!DeleteFails(h)
    BY DEF Service!ConfirmFails, Counted!ConfirmFails, Service!DeleteFails, Counted!DeleteFails
  <2>3. /\ Service!IncGauge(h) <=> Counted!IncGauge(h)
        /\ Service!DecGauge(h) <=> Counted!DecGauge(h)
    BY DEF Service!IncGauge, Counted!IncGauge, Service!DecGauge, Counted!DecGauge
  <2> QED
    BY <2>1, <2>2, <2>3 DEF Service!HandlerStep, Counted!HandlerStep
<1>5. ASSUME NEW h \in Handlers, NEW q \in Subs
      PROVE  /\ Service!ConfirmLookup(h, q) <=> Counted!ConfirmLookup(h, q)
             /\ Service!UnsubscribeLookup(h, q) <=> Counted!UnsubscribeLookup(h, q)
  BY DEF Service!ConfirmLookup, Counted!ConfirmLookup, Service!UnsubscribeLookup,
         Counted!UnsubscribeLookup, Service!Confirming, Counted!Confirming,
         Service!Cardinality, Counted!Cardinality
<1>6. Service!Shutdown <=> Counted!Shutdown
  BY DEF Service!Shutdown, Counted!Shutdown
<1>7. Service!Exit <=> Counted!Exit
  BY DEF Service!Exit, Counted!Exit, Service!InFlight, Counted!InFlight
<1>8. Service!Next <=> Counted!Next
  <2>1. Service!Work <=> Counted!Work
    BY <1>1, <1>2, <1>3, <1>4, <1>5 DEF Service!Work, Counted!Work
  <2> QED
    BY <1>2, <1>6, <1>7, <2>1 DEF Service!Next, Counted!Next
<1>9. UNCHANGED Service!vars <=> UNCHANGED Counted!vars
  BY DEF Service!vars, Counted!vars
<1>10. Service!Init => Counted!Init
  BY DEF Service!Init, Counted!Init
<1>11. GaugeNotBelowConfirmed <=> Counted!GaugeNotBelowConfirmed
  BY DEF GaugeNotBelowConfirmed, Service!GaugeNotBelowConfirmed, Counted!GaugeNotBelowConfirmed,
         Service!Confirmed, Counted!Confirmed, Service!Cardinality, Counted!Cardinality
<1>12. [Service!Next]_(Service!vars) => [Counted!Next]_(Counted!vars)
  BY <1>8, <1>9
<1> QED
  BY <1>10, <1>11, <1>12

\* Where one process, Server, serves every call, its gauge does not fall below the confirmed
\* subscriptions (service/subscription.go:125), for any finite numbers of subscriptions and calls
\* and beside the scanners of any number of instances, as long as no statement fails and no
\* process ends; GitHub, the relay and the sessions of the lock may do what they want.  Nothing
\* is said of several processes that serve calls: each has its own service and gauge (main.go:57).
THEOREM ServerGauge ==
    ASSUME IsFiniteSet(Subs), IsFiniteSet(Handlers), Faults \cap {"db", "sigterm", "kill"} = {}
    PROVE  SystemSpec => []GaugeNotBelowConfirmed
<1> DEFINE Inv == Counted!TypeInv /\ Counted!SuccessInv /\ Counted!GaugeInv
<1>1. Counted!IsFiniteSet(Subs) /\ Counted!IsFiniteSet(Handlers)
  BY DEF IsFiniteSet, Counted!IsFiniteSet
<1>2. ServiceFaults \subseteq {"smtp"} /\ ServiceFaults \subseteq Counted!FaultKinds
  BY DEF ServiceFaults, Counted!FaultKinds
<1>3. SystemInit => Inv
  BY <1>2, ServiceAssumption, SameService, Counted!GaugeInit DEF SystemInit
<1>4. ASSUME Inv, SystemInv, [SystemNext]_<<vars, service>>
      PROVE  Inv'
  <2>1. [Counted!Next]_(Counted!vars)
    BY <1>4, SameService, ServiceImplementedStep
  <2>2. Counted!TypeInv'
    BY <1>2, <1>4, <2>1, ServiceAssumption, Counted!TypeStep
  <2>3. Counted!SuccessInv'
    BY <1>2, <1>4, <2>1, ServiceAssumption, Counted!SuccessStep
  <2>4. Counted!GaugeInv'
    BY <1>1, <1>2, <1>4, <2>1, ServiceAssumption, Counted!GaugeStep
  <2> QED
    BY <2>2, <2>3, <2>4
<1>5. Inv => GaugeNotBelowConfirmed
  BY SameService DEF Counted!GaugeInv
<1> QED
  BY <1>3, <1>4, <1>5, SystemAlways, PTL DEF SystemSpec

\* The confirmation mails of Server beside the scanners, whatever fails and however it ends: one
\* that is owed is attempted once or forgotten when the process ends (service/subscription.go:72
\* to :108).
THEOREM SystemOutbox == SystemSpec => Counted!OutboxSafety
<1>1. SystemInit => Counted!Init
  BY SameService DEF SystemInit
<1>2. SystemInv /\ [SystemNext]_<<vars, service>> => [Counted!Next]_(Counted!vars)
  BY ServiceImplementedStep, SameService
<1>3. ServiceFaults \subseteq Counted!FaultKinds
  BY DEF ServiceFaults, Counted!FaultKinds
<1>4. Counted!Spec => Counted!OutboxSafety
  BY <1>3, ServiceAssumption, Counted!OutboxImplemented
<1> QED
  BY <1>1, <1>2, <1>4, SystemAlways, PTL DEF SystemSpec, Counted!Spec
=============================================================================
