------------------------------- MODULE Scanner -------------------------------
(***************************************************************************)
(* The release scanner (internal/scanner/scanner.go) of every server       *)
(* instance, with the database rows, the advisory lock, the release cache  *)
(* and the mail it works on.  One action is one call to PostgreSQL, GitHub *)
(* (through Redis) or SMTP, or one step of a goroutine; the steps of the   *)
(* scan goroutine, of its workers, of other instances and of the users     *)
(* interleave.  Local variables that are dead are reset, so that TLC does  *)
(* not tell states apart by them.                                          *)
(***************************************************************************)
EXTENDS Naturals

CONSTANTS
    Instances,      \* server processes that share one database
    Workers,        \* checkRepo goroutines of one scan (SCANNER_WORKERS)
    Subs,           \* subscription ids, in the order they were created
    Repos, RepoOf,  \* repositories, and the repository of a subscription
    Tags,           \* release tags
    StableTags,     \* the tags of releases that are neither draft nor prerelease
    Faults,         \* what may go wrong, see FaultKinds
    NoTag,          \* the empty tag: never notified, nothing released, not cached
    Nobody,         \* nobody holds the advisory lock
    Orphan          \* a database session no process uses any more holds it

\* "db": a statement fails, before or after taking effect; "github", "redis": a call
\* fails; "smtp": send returns an error, the mail delivered or not; "session": the
\* connection that holds the lock breaks; "sigterm": a graceful stop; "kill": a crash.
FaultKinds == {"db", "github", "redis", "smtp", "session", "sigterm", "kill"}

ASSUME SubsAssumption == Subs \subseteq Nat /\ RepoOf \in [Subs -> Repos]
ASSUME TagAssumption == StableTags \subseteq Tags /\ NoTag \notin Tags
ASSUME LockAssumption == Nobody # Orphan /\ {Nobody, Orphan} \cap Instances = {}
ASSUME FaultsAssumption == Faults \subseteq FaultKinds

VARIABLES
    row,         \* table subscriptions: "pending", "confirmed" or "deleted"
    lastSeen,    \* its column last_seen_tag
    log,         \* table notification_log: pairs <<id, tag>>
    lockHolder,  \* session that holds the advisory lock
    phase,       \* of an instance: where Run and scan are
    cancelled,   \* of an instance: ctx is done
    conn,        \* of an instance: the connection scan locked with
    queue,       \* of an instance: subscriptions whose repo was not dispatched yet
    seen,        \* of an instance: lastTag of each subscription as GetAllConfirmed read it
    wpc,         \* of a worker: where it is
    todo,        \* of a worker: the subscriptions its job still has to visit
    tag,         \* of a worker: the release checkRepo got
    latest,      \* GitHub: the latest release of a repository
    cache,       \* Redis: the cached release of a repository
    mailed       \* release mails that reached a mailbox: pairs <<id, tag>>

db      == <<row, lastSeen, log>>
process == <<phase, cancelled, conn, queue, seen>>
worker  == <<wpc, todo, tag>>
world   == <<latest, cache, mailed>>
vars    == <<db, lockHolder, process, worker, world>>

Phases == {"down", "acquire", "fetch", "dispatch", "drain", "release", "select", "returned"}
WorkerPcs == {"exited", "idle", "start", "check", "send", "mark", "update"}

NoTags == [s \in Subs |-> NoTag]

TypeOK ==
    /\ row \in [Subs -> {"pending", "confirmed", "deleted"}]
    /\ lastSeen \in [Subs -> Tags \cup {NoTag}]
    /\ log \subseteq Subs \X Tags
    /\ lockHolder \in Instances \cup {Nobody, Orphan}
    /\ phase \in [Instances -> Phases]
    /\ cancelled \in [Instances -> BOOLEAN]
    /\ conn \in [Instances -> {"none", "live", "dead"}]
    /\ queue \in [Instances -> SUBSET Subs]
    /\ seen \in [Instances -> [Subs -> Tags \cup {NoTag}]]
    /\ wpc \in [Instances -> [Workers -> WorkerPcs]]
    /\ todo \in [Instances -> [Workers -> SUBSET Subs]]
    /\ tag \in [Instances -> [Workers -> Tags \cup {NoTag}]]
    /\ latest \in [Repos -> Tags \cup {NoTag}]
    /\ cache \in [Repos -> Tags \cup {NoTag}]
    /\ mailed \subseteq Subs \X Tags

Init ==
    /\ row = [s \in Subs |-> "pending"]
    /\ lastSeen = NoTags
    /\ log = {}
    /\ lockHolder = Nobody
    /\ phase = [i \in Instances |-> "down"]
    /\ cancelled = [i \in Instances |-> FALSE]
    /\ conn = [i \in Instances |-> "none"]
    /\ queue = [i \in Instances |-> {}]
    /\ seen = [i \in Instances |-> NoTags]
    /\ wpc = [i \in Instances |-> [w \in Workers |-> "exited"]]
    /\ todo = [i \in Instances |-> [w \in Workers |-> {}]]
    /\ tag = [i \in Instances |-> [w \in Workers |-> NoTag]]
    /\ latest = [r \in Repos |-> NoTag]
    /\ cache = [r \in Repos |-> NoTag]
    /\ mailed = {}

\* A statement run under ctx fails when the database does, and when ctx is done.
DbFails(i) == "db" \in Faults \/ cancelled[i]

Goto(i, p) == phase' = [phase EXCEPT ![i] = p]

-----------------------------------------------------------------------------
(* The scan goroutine. *)

\* main starts the scanner, whose Run scans at once.
Start(i) ==
    /\ phase[i] = "down"
    /\ Goto(i, "acquire")
    /\ UNCHANGED <<db, lockHolder, cancelled, conn, queue, seen, worker, world>>

\* Mutant: the answer of pg_try_advisory_lock is not looked at.
AcquireAlways(i) ==
    /\ phase[i] = "acquire" /\ ~cancelled[i]
    /\ lockHolder' = i
    /\ conn' = [conn EXCEPT ![i] = "live"]
    /\ Goto(i, "fetch")
    /\ UNCHANGED <<db, cancelled, queue, seen, worker, world>>

\* pg_try_advisory_lock on a connection of its own.
Acquire(i) ==
    /\ phase[i] = "acquire" /\ ~cancelled[i]
    /\ lockHolder = Nobody
    /\ lockHolder' = i
    /\ conn' = [conn EXCEPT ![i] = "live"]
    /\ Goto(i, "fetch")
    /\ UNCHANGED <<db, cancelled, queue, seen, worker, world>>

AcquireDenied(i) ==
    /\ phase[i] = "acquire" /\ ~cancelled[i]
    /\ lockHolder # Nobody
    /\ Goto(i, "select")
    /\ UNCHANGED <<db, lockHolder, cancelled, conn, queue, seen, worker, world>>

\* The call fails; when only its answer was lost, the lock is taken by a session that
\* the driver abandons.
AcquireFails(i) ==
    /\ phase[i] = "acquire" /\ DbFails(i)
    /\ lockHolder' \in {lockHolder} \cup (IF lockHolder = Nobody THEN {Orphan} ELSE {})
    /\ Goto(i, "select")
    /\ UNCHANGED <<db, cancelled, conn, queue, seen, worker, world>>

\* Mutant: no WHERE confirmed = TRUE.
NotDeleted == {s \in Subs : row[s] # "deleted"}

Confirmed == {s \in Subs : row[s] = "confirmed"}

\* GetAllConfirmed, and the start of the workers.
Fetch(i) ==
    /\ phase[i] = "fetch" /\ ~cancelled[i]
    /\ Confirmed # {}
    /\ queue' = [queue EXCEPT ![i] = Confirmed]
    /\ seen' = [seen EXCEPT ![i] = [s \in Subs |-> IF s \in Confirmed THEN lastSeen[s] ELSE NoTag]]
    /\ wpc' = [wpc EXCEPT ![i] = [w \in Workers |-> "idle"]]
    /\ Goto(i, "dispatch")
    /\ UNCHANGED <<db, lockHolder, cancelled, conn, todo, tag, world>>

FetchNothing(i) ==
    /\ phase[i] = "fetch"
    /\ Confirmed = {} \/ DbFails(i)
    /\ Goto(i, "release")
    /\ UNCHANGED <<db, lockHolder, cancelled, conn, queue, seen, worker, world>>

JobOf(i, r) == {s \in queue[i] : RepoOf[s] = r}

\* The rendezvous on the unbuffered channel jobs: a whole repository goes to an idle
\* worker.  When ctx is done, both selects may still choose it.
Dispatch(i, w, r) ==
    /\ phase[i] = "dispatch" /\ wpc[i][w] = "idle"
    /\ JobOf(i, r) # {}
    /\ todo' = [todo EXCEPT ![i][w] = JobOf(i, r)]
    /\ queue' = [queue EXCEPT ![i] = @ \ JobOf(i, r)]
    /\ wpc' = [wpc EXCEPT ![i][w] = "start"]
    /\ UNCHANGED <<db, lockHolder, phase, cancelled, conn, seen, tag, world>>

\* Mutant: the dispatcher does not watch ctx.
OnlyWhenEmpty(i) == queue[i] = {}

MayStopDispatch(i) == queue[i] = {} \/ cancelled[i]

\* close(jobs): nothing is left, or ctx is done.
CloseJobs(i) ==
    /\ phase[i] = "dispatch" /\ MayStopDispatch(i)
    /\ queue' = [queue EXCEPT ![i] = {}]
    /\ Goto(i, "drain")
    /\ UNCHANGED <<db, lockHolder, cancelled, conn, seen, worker, world>>

AllExited(i) == \A w \in Workers : wpc[i][w] = "exited"

\* Mutant: no wg.Wait.
LeaveWorkers(i) ==
    /\ phase[i] = "drain"
    /\ Goto(i, "release")
    /\ UNCHANGED <<db, lockHolder, cancelled, conn, queue, seen, worker, world>>

\* wg.Wait returns.
JoinWorkers(i) ==
    /\ phase[i] = "drain" /\ AllExited(i)
    /\ Goto(i, "release")
    /\ UNCHANGED <<db, lockHolder, cancelled, conn, queue, seen, worker, world>>

\* Mutant: the lock is given back whoever holds it.
ReleaseAnybodys(i) ==
    /\ phase[i] = "release"
    /\ lockHolder' = Nobody
    /\ conn' = [conn EXCEPT ![i] = "none"]
    /\ seen' = [seen EXCEPT ![i] = NoTags]
    /\ Goto(i, "select")
    /\ UNCHANGED <<db, cancelled, queue, worker, world>>

\* The deferred release: an unlock that fails leaves the lock to a session the driver
\* closes; after the session broke there is nothing left to unlock.
Release(i) ==
    /\ phase[i] = "release"
    /\ lockHolder' \in IF conn[i] # "live" THEN {lockHolder}
                       ELSE IF "db" \in Faults THEN {Nobody, Orphan} ELSE {Nobody}
    /\ conn' = [conn EXCEPT ![i] = "none"]
    /\ seen' = [seen EXCEPT ![i] = NoTags]
    /\ Goto(i, "select")
    /\ UNCHANGED <<db, cancelled, queue, worker, world>>

\* The ticker fires; Run may choose it even when ctx is done.
Tick(i) ==
    /\ phase[i] = "select"
    /\ Goto(i, "acquire")
    /\ UNCHANGED <<db, lockHolder, cancelled, conn, queue, seen, worker, world>>

Stop(i) ==
    /\ phase[i] = "select" /\ cancelled[i]
    /\ Goto(i, "returned")
    /\ UNCHANGED <<db, lockHolder, cancelled, conn, queue, seen, worker, world>>

ScanStep(i) ==
    \/ Start(i) \/ Acquire(i) \/ AcquireDenied(i) \/ AcquireFails(i)
    \/ Fetch(i) \/ FetchNothing(i)
    \/ \E w \in Workers, r \in Repos : Dispatch(i, w, r)
    \/ CloseJobs(i) \/ JoinWorkers(i) \/ Release(i) \/ Tick(i)

-----------------------------------------------------------------------------
(* A worker: checkRepo for one repository. *)

\* The job visits its subscriptions in the order of their ids (ORDER BY id ASC).
Current(i, w, s) == s \in todo[i][w] /\ \A u \in todo[i][w] : s <= u

EndJob(i, w) ==
    /\ todo' = [todo EXCEPT ![i][w] = {}]
    /\ wpc' = [wpc EXCEPT ![i][w] = "idle"]
    /\ tag' = [tag EXCEPT ![i][w] = NoTag]

\* continue: the next subscription of the loop, if there is one.
NextSub(i, w, s) ==
    IF todo[i][w] = {s} THEN EndJob(i, w)
    ELSE /\ todo' = [todo EXCEPT ![i][w] = @ \ {s}]
         /\ wpc' = [wpc EXCEPT ![i][w] = "check"]
         /\ UNCHANGED tag

\* Only a release that is neither draft nor prerelease is looked at any further.
WithRelease(i, w, t) ==
    IF t \in StableTags
    THEN /\ tag' = [tag EXCEPT ![i][w] = t]
         /\ wpc' = [wpc EXCEPT ![i][w] = "check"]
         /\ UNCHANGED todo
    ELSE EndJob(i, w)

\* LatestRelease answered from Redis.
ReleaseFromCache(i, w, r) ==
    /\ wpc[i][w] = "start" /\ ~cancelled[i]
    /\ \E s \in todo[i][w] : RepoOf[s] = r
    /\ cache[r] # NoTag
    /\ WithRelease(i, w, cache[r])
    /\ UNCHANGED <<db, lockHolder, process, world>>

CacheMisses(r) == cache[r] = NoTag \/ "redis" \in Faults

\* LatestRelease answered by GitHub, and cached unless Redis fails.
ReleaseFromGitHub(i, w, r) ==
    /\ wpc[i][w] = "start" /\ ~cancelled[i]
    /\ \E s \in todo[i][w] : RepoOf[s] = r
    /\ CacheMisses(r) /\ latest[r] # NoTag
    /\ WithRelease(i, w, latest[r])
    /\ \/ cache' = [cache EXCEPT ![r] = latest[r]]
       \/ "redis" \in Faults /\ UNCHANGED cache
    /\ UNCHANGED <<db, lockHolder, process, latest, mailed>>

\* No release yet (404), rate limited or failed.
ReleaseUnavailable(i, w, r) ==
    /\ wpc[i][w] = "start"
    /\ \E s \in todo[i][w] : RepoOf[s] = r
    /\ CacheMisses(r) /\ (latest[r] = NoTag \/ "github" \in Faults)
    /\ EndJob(i, w)
    /\ UNCHANGED <<db, lockHolder, process, world>>

\* checkRepo returns at one of its three tests of ctx, or because GitHub was asked
\* under a ctx that is done.
Abandon(i, w) ==
    /\ wpc[i][w] \in {"start", "check", "update"} /\ cancelled[i]
    /\ EndJob(i, w)
    /\ UNCHANGED <<db, lockHolder, process, world>>

IsNewFor(i, s, t) == t # seen[i][s]

\* Mutant: the log is not read.
NeverNotified(s, t) == FALSE

WasNotified(s, t) == <<s, t>> \in log

\* The tag is the one this subscription was read with, or WasNotified says so or fails.
Skip(i, w, s) ==
    /\ wpc[i][w] = "check" /\ Current(i, w, s)
    /\ \/ ~IsNewFor(i, s, tag[i][w])
       \/ DbFails(i)
       \/ WasNotified(s, tag[i][w])
    /\ NextSub(i, w, s)
    /\ UNCHANGED <<db, lockHolder, process, world>>

\* Mutant: the notification is recorded before the mail is sent.
MarkThenSend(i, w, s) ==
    /\ wpc[i][w] = "check" /\ Current(i, w, s) /\ ~cancelled[i]
    /\ IsNewFor(i, s, tag[i][w]) /\ ~WasNotified(s, tag[i][w]) /\ row[s] # "deleted"
    /\ log' = log \cup {<<s, tag[i][w]>>}
    /\ wpc' = [wpc EXCEPT ![i][w] = "send"]
    /\ UNCHANGED <<row, lastSeen, lockHolder, process, todo, tag, world>>

NotNotified(i, w, s) ==
    /\ wpc[i][w] = "check" /\ Current(i, w, s) /\ ~cancelled[i]
    /\ IsNewFor(i, s, tag[i][w]) /\ ~WasNotified(s, tag[i][w])
    /\ wpc' = [wpc EXCEPT ![i][w] = "send"]
    /\ UNCHANGED <<db, lockHolder, process, todo, tag, world>>

\* SendReleaseNotificationWithUnsub does not look at ctx.
MailSent(i, w, s) ==
    /\ wpc[i][w] = "send" /\ Current(i, w, s)
    /\ mailed' = mailed \cup {<<s, tag[i][w]>>}
    /\ wpc' = [wpc EXCEPT ![i][w] = "mark"]
    /\ UNCHANGED <<db, lockHolder, process, todo, tag, latest, cache>>

\* Mutant: the error of the mailer is ignored.
MailErrorIgnored(i, w, s) ==
    /\ wpc[i][w] = "send" /\ Current(i, w, s) /\ "smtp" \in Faults
    /\ wpc' = [wpc EXCEPT ![i][w] = "mark"]
    /\ UNCHANGED <<db, lockHolder, process, todo, tag, world>>

\* An error of Close or Quit comes after the relay accepted the mail.
MailFails(i, w, s) ==
    /\ wpc[i][w] = "send" /\ Current(i, w, s) /\ "smtp" \in Faults
    /\ mailed' \in {mailed, mailed \cup {<<s, tag[i][w]>>}}
    /\ NextSub(i, w, s)
    /\ UNCHANGED <<db, lockHolder, process, latest, cache>>

\* Mutant: lastTag is recorded in place of the new tag.
MarkLastTag(i, w, s) ==
    /\ wpc[i][w] = "mark" /\ Current(i, w, s) /\ ~cancelled[i]
    /\ row[s] # "deleted"
    /\ log' = log \cup {<<s, seen[i][s]>>}
    /\ wpc' = [wpc EXCEPT ![i][w] = "update"]
    /\ UNCHANGED <<row, lastSeen, lockHolder, process, todo, tag, world>>

\* INSERT ... ON CONFLICT DO NOTHING; the foreign key refuses a deleted subscription.
MarkNotified(i, w, s) ==
    /\ wpc[i][w] = "mark" /\ Current(i, w, s) /\ ~cancelled[i]
    /\ row[s] # "deleted"
    /\ log' = log \cup {<<s, tag[i][w]>>}
    /\ wpc' = [wpc EXCEPT ![i][w] = "update"]
    /\ UNCHANGED <<row, lastSeen, lockHolder, process, todo, tag, world>>

\* Mutant: the error of MarkNotified is ignored.
MarkErrorIgnored(i, w, s) ==
    /\ wpc[i][w] = "mark" /\ Current(i, w, s)
    /\ DbFails(i) \/ row[s] = "deleted"
    /\ wpc' = [wpc EXCEPT ![i][w] = "update"]
    /\ UNCHANGED <<db, lockHolder, process, todo, tag, world>>

MarkFails(i, w, s) ==
    /\ wpc[i][w] = "mark" /\ Current(i, w, s)
    /\ DbFails(i) \/ row[s] = "deleted"
    /\ log' \in {log} \cup (IF row[s] = "deleted" THEN {} ELSE {log \cup {<<s, tag[i][w]>>}})
    /\ NextSub(i, w, s)
    /\ UNCHANGED <<row, lastSeen, lockHolder, process, world>>

\* Mutant: a last_seen_tag that is there already is not written over.
KeepFirstTag(i, w, s) ==
    /\ wpc[i][w] = "update" /\ Current(i, w, s)
    /\ row[s] # "deleted"
    /\ lastSeen' = [lastSeen EXCEPT ![s] = IF @ = NoTag THEN tag[i][w] ELSE @]
    /\ NextSub(i, w, s)
    /\ UNCHANGED <<row, log, lockHolder, process, world>>

\* The loop goes on whatever the outcome.
UpdateLastSeenTag(i, w, s) ==
    /\ wpc[i][w] = "update" /\ Current(i, w, s)
    /\ row[s] # "deleted"
    /\ lastSeen' = [lastSeen EXCEPT ![s] = tag[i][w]]
    /\ NextSub(i, w, s)
    /\ UNCHANGED <<row, log, lockHolder, process, world>>

UpdateFails(i, w, s) ==
    /\ wpc[i][w] = "update" /\ Current(i, w, s)
    /\ DbFails(i) \/ row[s] = "deleted"
    /\ NextSub(i, w, s)
    /\ UNCHANGED <<db, lockHolder, process, world>>

\* Mutant: the worker does not see that jobs is closed.
ExitOnlyOnCancel(i, w) ==
    /\ wpc[i][w] = "idle" /\ cancelled[i]
    /\ wpc' = [wpc EXCEPT ![i][w] = "exited"]
    /\ UNCHANGED <<db, lockHolder, process, todo, tag, world>>

\* The worker's select: jobs is closed, or ctx is done.
WorkerExit(i, w) ==
    /\ wpc[i][w] = "idle"
    /\ phase[i] = "drain" \/ cancelled[i]
    /\ wpc' = [wpc EXCEPT ![i][w] = "exited"]
    /\ UNCHANGED <<db, lockHolder, process, todo, tag, world>>

SendStep(i, w) == \E s \in Subs : MailSent(i, w, s) \/ MailFails(i, w, s)

WorkerStep(i, w) ==
    \/ \E r \in Repos : \/ ReleaseFromCache(i, w, r)
                        \/ ReleaseFromGitHub(i, w, r)
                        \/ ReleaseUnavailable(i, w, r)
    \/ \E s \in Subs : \/ Skip(i, w, s) \/ NotNotified(i, w, s)
                       \/ MarkNotified(i, w, s) \/ MarkFails(i, w, s)
                       \/ UpdateLastSeenTag(i, w, s) \/ UpdateFails(i, w, s)
    \/ Abandon(i, w) \/ WorkerExit(i, w)

-----------------------------------------------------------------------------
(* The process, the database sessions, GitHub, Redis and the users. *)

\* main cancels ctx when it gets SIGTERM or SIGINT.
Cancel(i) ==
    /\ phase[i] # "down" /\ ~cancelled[i] /\ "sigterm" \in Faults
    /\ cancelled' = [cancelled EXCEPT ![i] = TRUE]
    /\ UNCHANGED <<db, lockHolder, phase, conn, queue, seen, worker, world>>

\* The process ends, wherever the scanner is: main does not wait for it.  The lock
\* stays with a session PostgreSQL has yet to end.
Exit(i) ==
    /\ phase[i] # "down" /\ (cancelled[i] \/ "kill" \in Faults)
    /\ lockHolder' = IF conn[i] = "live" THEN Orphan ELSE lockHolder
    /\ Goto(i, "down")
    /\ cancelled' = [cancelled EXCEPT ![i] = FALSE]
    /\ conn' = [conn EXCEPT ![i] = "none"]
    /\ queue' = [queue EXCEPT ![i] = {}]
    /\ seen' = [seen EXCEPT ![i] = NoTags]
    /\ wpc' = [wpc EXCEPT ![i] = [w \in Workers |-> "exited"]]
    /\ todo' = [todo EXCEPT ![i] = [w \in Workers |-> {}]]
    /\ tag' = [tag EXCEPT ![i] = [w \in Workers |-> NoTag]]
    /\ UNCHANGED <<db, world>>

\* PostgreSQL ends the session nobody uses.
ReapSession ==
    /\ lockHolder = Orphan
    /\ lockHolder' = Nobody
    /\ UNCHANGED <<db, process, worker, world>>

\* The connection that holds the lock breaks under a scan that does not look at it.
LoseSession(i) ==
    /\ conn[i] = "live" /\ "session" \in Faults
    /\ conn' = [conn EXCEPT ![i] = "dead"]
    /\ lockHolder' = Nobody
    /\ UNCHANGED <<db, phase, cancelled, queue, seen, worker, world>>

\* The session that holds the lock ends.
EndSession == IF lockHolder = Orphan THEN ReapSession ELSE \E i \in Instances : LoseSession(i)

Publish(r, t) ==
    /\ latest[r] # t
    /\ latest' = [latest EXCEPT ![r] = t]
    /\ UNCHANGED <<db, lockHolder, process, worker, cache, mailed>>

\* The TTL of the cached release ends.
Expire(r) ==
    /\ cache[r] # NoTag
    /\ cache' = [cache EXCEPT ![r] = NoTag]
    /\ UNCHANGED <<db, lockHolder, process, worker, latest, mailed>>

Confirm(s) ==
    /\ row[s] = "pending"
    /\ row' = [row EXCEPT ![s] = "confirmed"]
    /\ UNCHANGED <<lastSeen, log, lockHolder, process, worker, world>>

\* Only a release mail tells a user the unsubscribe token.  ON DELETE CASCADE empties
\* the log of the subscription.
Unsubscribe(s) ==
    /\ row[s] = "confirmed" /\ \E t \in Tags : <<s, t>> \in mailed
    /\ row' = [row EXCEPT ![s] = "deleted"]
    /\ lastSeen' = [lastSeen EXCEPT ![s] = NoTag]
    /\ log' = {n \in log : n[1] # s}
    /\ UNCHANGED <<lockHolder, process, worker, world>>

EnvStep ==
    \/ \E i \in Instances : Cancel(i) \/ Exit(i)
    \/ EndSession
    \/ \E r \in Repos : Expire(r) \/ \E t \in Tags : Publish(r, t)
    \/ \E s \in Subs : Confirm(s) \/ Unsubscribe(s)

Next ==
    \/ \E i \in Instances : ScanStep(i) \/ Stop(i)
    \/ \E i \in Instances, w \in Workers : WorkerStep(i, w) \/ SendStep(i, w)
    \/ EnvStep

Spec == Init /\ [][Next]_vars

-----------------------------------------------------------------------------
(* Safety. *)

Scanning(i) == phase[i] \in {"fetch", "dispatch", "drain", "release"}

\* The session of a scan that was not broken is the holder of the lock, so two scans
\* overlap only while the connection of one of them is dead (AcquireScanLock).
LockExclusion ==
    /\ \A i \in Instances : conn[i] = "live" <=> lockHolder = i
    /\ \A i \in Instances : Scanning(i) <=> conn[i] # "none"

\* A worker never runs once scan has gone past wg.Wait: nothing is notified by a process
\* that gave the lock back.
NoWorkerOutlivesScan ==
    \A i \in Instances : AllExited(i) \/ phase[i] \in {"dispatch", "drain"}

\* As long as the connection of the lock holds, no worker of any instance mails a tag
\* that notification_log has for the subscription already, whatever else fails: the
\* answer of WasNotified is still true when the mail goes out.
NoSendOfRecorded ==
    \A i \in Instances, w \in Workers, s \in Subs :
        wpc[i][w] = "send" /\ Current(i, w, s) => <<s, tag[i][w]>> \notin log

\* Without faults no subscriber is mailed the same tag twice, even when the latest release
\* of a repository goes back to an older one: a mail about to go out did not go out before.
\* (After an unsubscription the cascade has emptied the log that WasNotified reads.)
NoDuplicateMail ==
    \A i \in Instances, w \in Workers, s \in Subs :
        /\ wpc[i][w] = "send" /\ Current(i, w, s)
        /\ row[s] = "confirmed"
        => <<s, tag[i][w]>> \notin mailed

\* Nothing is recorded as notified that was not mailed: a crash between any two steps of
\* checkRepo repeats a mail and never loses one.
RecordedWasMailed == log \subseteq mailed

\* last_seen_tag never runs ahead of notification_log.
LastSeenWasRecorded ==
    \A s \in Subs : lastSeen[s] # NoTag => <<s, lastSeen[s]>> \in log

\* Mail goes to addresses that were confirmed, and about stable releases only.
MailedConfirmedStable ==
    \A n \in mailed : row[n[1]] # "pending" /\ n[2] \in StableTags

\* The tags recorded for s that a worker is about to write to last_seen_tag.
Underway(s) ==
    {t \in Tags : \E i \in Instances, w \in Workers :
                        wpc[i][w] = "update" /\ Current(i, w, s) /\ tag[i][w] = t}

\* The last_seen_tag of s once the worker on its way has written it.
Newest(s) == IF Underway(s) = {} THEN {lastSeen[s]} ELSE Underway(s)

\* A step that records a tag for s moves Newest to that tag, and no other step moves it.
NewestStep(s) ==
    LET recorded == {t \in Tags : <<s, t>> \in log' \ log}
    IN  row'[s] # "deleted" => Newest(s)' = IF recorded = {} THEN Newest(s) ELSE recorded

\* Without faults last_seen_tag is the tag of the newest record in notification_log, from
\* UpdateLastSeenTag until the next MarkNotified (scanner.go:165 to :175): each new record,
\* and nothing else, changes what last_seen_tag is or is about to be, and changes it to the
\* tag of that record.  No update is lost, comes late or overtakes another.
LastSeenFollowsLog == [][\A s \in Subs : NewestStep(s)]_vars

\* As long as the connection of the lock holds, instances, workers, crashes and failing
\* calls together do no more than the ledger allows: nobody is mailed before confirming or
\* about a release on record, and the two records follow the mail step by step.
Book == INSTANCE Ledger
ImplementsLedger == Book!Spec

-----------------------------------------------------------------------------
(* Liveness. *)

\* What the Go scheduler, the timeouts of database, GitHub and Redis calls, the ticker
\* and PostgreSQL guarantee.  A select whose two cases stay ready takes each in the end.
CodeFairness ==
    /\ \A i \in Instances : WF_vars(ScanStep(i)) /\ SF_vars(Stop(i))
    /\ \A i \in Instances, w \in Workers : WF_vars(WorkerStep(i, w))
    /\ WF_vars(ReapSession)

\* The relay answers every mail, with success or an error: the mailer sets no deadline.
SmtpAnswers == \A i \in Instances, w \in Workers : WF_vars(SendStep(i, w))

\* Faults pass: in the end nothing is stopped or killed any more, a process whose scanner
\* returned makes place for the next one, and what is tried again and again succeeds.
Ended(i) == phase[i] = "returned" /\ Exit(i)

FaultsPass ==
    /\ <>[][\A i \in Instances : ~Cancel(i) /\ (Exit(i) => Ended(i))]_vars
    /\ \A i \in Instances : WF_vars(Ended(i))
    /\ SF_vars(\E i \in Instances : Acquire(i))
    /\ SF_vars(\E i \in Instances : Fetch(i))
    /\ \A r \in Repos :
        /\ WF_vars(Expire(r))
        /\ SF_vars(\E i \in Instances, w \in Workers : ReleaseFromGitHub(i, w, r))
    /\ \A s \in Subs :
        /\ SF_vars(\E i \in Instances, w \in Workers : NotNotified(i, w, s))
        /\ SF_vars(\E i \in Instances, w \in Workers : MailSent(i, w, s))
        /\ SF_vars(\E i \in Instances, w \in Workers : MarkNotified(i, w, s))
        /\ SF_vars(\E i \in Instances, w \in Workers : UpdateLastSeenTag(i, w, s))

FairSpec == Spec /\ CodeFairness
LiveSpec == FairSpec /\ SmtpAnswers
RetrySpec == LiveSpec /\ FaultsPass

\* A stable release that stays the latest is mailed to every confirmed subscriber and
\* recorded, unless the subscription is deleted first: calls that fail and crashes between
\* two steps of checkRepo are made up for by later scans.
Delivery ==
    \A s \in Subs, t \in StableTags :
        (row[s] = "confirmed" /\ latest[RepoOf[s]] = t)
            ~> (<<s, t>> \in mailed \cap log \/ row[s] # "confirmed" \/ latest[RepoOf[s]] # t)

\* last_seen_tag becomes "Last seen release tag for this repository" (swagger.yaml:139).
LastSeenCatchesUp ==
    \A s \in Subs, t \in StableTags :
        (row[s] = "confirmed" /\ latest[RepoOf[s]] = t)
            ~> (lastSeen[s] = t \/ row[s] # "confirmed" \/ latest[RepoOf[s]] # t)

\* A scanner whose ctx is done returns from Run, through the dispatcher, its workers and
\* wg.Wait, without being killed.
ShutdownStops ==
    \A i \in Instances : cancelled[i] ~> phase[i] \in {"returned", "down"}

\* "We check for new releases every 5 minutes" (static/index.html:233): subscriptions are
\* fetched again and again.
ChecksRecur == []<>(\E i \in Instances : phase[i] = "fetch")
=============================================================================
