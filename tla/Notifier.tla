------------------------------ MODULE Notifier ------------------------------
(***************************************************************************)
(* The scanners of all instances (Scanner) and the subscription service of *)
(* Server, one of them, which serves every call (Subscriptions), over the  *)
(* same tables.  What each of the two modules leaves to its environment,   *)
(* users on one side and release mail on the other, is here done by the    *)
(* other one, and the process they share is stopped or dies with both.     *)
(***************************************************************************)
EXTENDS Scanner

CONSTANTS
    Server,         \* the instance whose service is modelled
    Pairs, PairOf,  \* the (email, repository) pairs, and the pair of a subscription
    Handlers,       \* goroutines that serve /api/confirm and /api/unsubscribe
    Mailers,        \* goroutines of runConfirmationWorker
    QueueSize,      \* confirmationQueueSize
    MaxGauge,       \* bound of the model on confirmations
    None

ASSUME ServerAssumption == Server \in Instances
ASSUME ServiceAssumption ==
    /\ PairOf \in [Subs -> Pairs] /\ None \notin Subs
    /\ QueueSize \in Nat \ {0} /\ MaxGauge \in Nat
ASSUME PairRepoAssumption == \A p, q \in Subs : PairOf[p] = PairOf[q] => RepoOf[p] = RepoOf[q]

VARIABLES
    made,                           \* the subscriptions whose row was inserted
    spc, answer,                    \* as in Subscriptions
    mailQ, job, inbox, attempted,
    hpc, hsub, gauge, stopping

service == <<made, spc, answer, mailQ, job, inbox, attempted, hpc, hsub, gauge, stopping>>

\* The two views of the table: to the scanner a row to come is one that is not confirmed.
ServiceRow == [q \in Subs |-> IF q \in made THEN row[q] ELSE "none"]

\* The unsubscribe link is in every release mail.
Unsubscribers == {q \in Subs : \E t \in Tags : <<q, t>> \in mailed}

\* The faults that the service meets.
ServiceFaults == Faults \cap {"db", "smtp", "sigterm", "kill"}

Service ==
    INSTANCE Subscriptions WITH Requests <- Subs, Workers <- Mailers, row <- ServiceRow,
                                knowsUnsub <- Unsubscribers,
                                Faults <- ServiceFaults

SystemInit ==
    /\ Init
    /\ made = {}
    /\ Service!Init

\* The scanners, the other processes, PostgreSQL's sessions, GitHub and Redis.
ScannerStep ==
    /\ UNCHANGED service
    /\ \/ \E i \in Instances : ScanStep(i) \/ Stop(i) \/ Cancel(i)
       \/ \E i \in Instances \ {Server} : Exit(i)
       \/ \E i \in Instances, w \in Workers : WorkerStep(i, w) \/ SendStep(i, w)
       \/ EndSession
       \/ \E r \in Repos : Expire(r) \/ \E t \in Tags : Publish(r, t)

Insert(q) == spc[q] = "create" /\ made' = made \cup {q} /\ UNCHANGED row

Set(h, stmt, v) ==
    /\ hpc[h] = stmt /\ row[hsub[h]] # v
    /\ row' = [row EXCEPT ![hsub[h]] = v]
    /\ UNCHANGED made

\* A statement of the service inserts, confirms or deletes a row, or none; what PostgreSQL
\* does to the rest of a row that is deleted and to its log.
TableStep ==
    /\ \/ \E q \in Subs : Insert(q)
       \/ \E h \in Handlers : Set(h, "confirm", "confirmed") \/ Set(h, "delete", "deleted")
       \/ UNCHANGED <<row, made>>
    /\ lastSeen' = [q \in Subs |-> IF row'[q] = "deleted" THEN NoTag ELSE lastSeen[q]]
    /\ log' = {n \in log : row'[n[1]] # "deleted"}

ServiceStep ==
    /\ UNCHANGED <<lockHolder, process, worker, world>>
    /\ TableStep
    /\ Service!Work

\* main first cancels ctx, which the scanner watches, and then calls server.Shutdown.
StopServer == cancelled[Server] /\ UNCHANGED <<vars, made>> /\ Service!Shutdown

\* Scanner and service end with the process they share.
EndServer == Exit(Server) /\ UNCHANGED made /\ Service!Exit

SystemNext == ScannerStep \/ ServiceStep \/ StopServer \/ EndServer

SystemSpec == SystemInit /\ [][SystemNext]_<<vars, service>>

-----------------------------------------------------------------------------
(* Properties. *)

\* What Scanner assumes of the users is what the service lets them do: a row is confirmed
\* once, never again after it was deleted, and deleted only by a link from a release mail,
\* whatever fails and whichever process ends.
ScannerImplemented == Spec

\* What Subscriptions assumes of the scanner is what the scanner does: the first release
\* mail goes to a subscription that is confirmed, also when the scan read it long before.
ServiceImplemented == Service!Spec

\* As long as no statement fails and no process ends, the gauge never falls below the number of
\* confirmed subscriptions, calls in flight accounted for: two calls that unsubscribe the same
\* subscription at once count it down once, because only one of them deletes a row.  That is the
\* gauge of Server while it serves every call: another instance has a gauge of its own
\* (main.go:57), and what it confirms is not counted in this one.
GaugeNotBelowConfirmed == Service!GaugeNotBelowConfirmed

\* An address is mailed the same release twice only if it unsubscribed and subscribed anew:
\* two subscriptions for one address and repository never both count, whatever calls for
\* them overlap with each other and with a scan, and whatever fails.
OneMailPerAddress ==
    \A p, q \in Subs, t \in Tags :
        p # q /\ PairOf[p] = PairOf[q] /\ {<<p, t>>, <<q, t>>} \subseteq mailed
            => "deleted" \in {row[p], row[q]}

\* "User confirms via tokenized link." (README.md:13): release mail goes only to who got the
\* confirmation mail before, whichever calls failed and processes ended between the two.
OptedIn == \A n \in mailed : n[1] \in inbox
=============================================================================
