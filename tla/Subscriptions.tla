---------------------------- MODULE Subscriptions ----------------------------
(***************************************************************************)
(* The subscription service of one server process                          *)
(* (internal/service/subscription.go) over the subscriptions table         *)
(* (internal/repository/subscription.go), as the HTTP handlers call it:    *)
(* Subscribe with its confirmation queue and workers, Confirm and          *)
(* Unsubscribe, and the gauge of active subscriptions.  Requests run in    *)
(* goroutines of their own; one action is one statement, one channel       *)
(* operation, one mail or one update of the gauge.                         *)
(***************************************************************************)
EXTENDS Integers, Sequences, FiniteSets

CONSTANTS
    Requests,    \* calls of POST /api/subscribe; a call that stores a row names it
    Pairs,       \* the (email, repository) pairs
    PairOf,      \* the pair a call asks for
    Handlers,    \* goroutines that serve /api/confirm and /api/unsubscribe
    Workers,     \* goroutines of runConfirmationWorker
    QueueSize,   \* confirmationQueueSize
    MaxGauge,    \* bound of the model on the gauge: no more confirmations are begun
    Faults,      \* what may go wrong, see FaultKinds
    None

\* "db": a statement fails, before or after taking effect (also when the client went away,
\* whose context it runs under); "smtp": a mail fails; "sigterm": a graceful stop; "kill": a
\* crash.
FaultKinds == {"db", "smtp", "sigterm", "kill"}

ASSUME PairAssumption == PairOf \in [Requests -> Pairs]
ASSUME QueueAssumption == QueueSize \in Nat \ {0} /\ MaxGauge \in Nat
ASSUME NoneAssumption == None \notin Requests
ASSUME FaultAssumption == Faults \subseteq FaultKinds

VARIABLES
    row,        \* table subscriptions: "none", "pending", "confirmed" or "deleted"
    spc,        \* where a Subscribe call is
    answer,     \* how it was answered
    mailQ,      \* the buffered channel of confirmation jobs
    job,        \* the job a confirmation worker is sending
    inbox,      \* subscriptions whose confirmation mail was delivered
    attempted,  \* subscriptions whose confirmation mail was sent, with success or not
    hpc,        \* where a Confirm or Unsubscribe call is
    hsub,       \* the subscription it looked up
    knowsUnsub, \* subscriptions that got a release mail, with the link to unsubscribe
    gauge,      \* notifier_active_subscriptions
    stopping    \* the server is shutting down: it accepts no more calls

subscribe == <<spc, answer>>
mail      == <<mailQ, job, inbox, attempted>>
handler   == <<hpc, hsub>>
vars      == <<row, subscribe, mail, handler, knowsUnsub, gauge, stopping>>

TypeOK ==
    /\ row \in [Requests -> {"none", "pending", "confirmed", "deleted"}]
    /\ spc \in [Requests -> {"new", "create", "enqueue", "inline", "done"}]
    /\ answer \in [Requests -> {"none", "ok", "rejected", "conflict", "error", "reset"}]
    /\ mailQ \in Seq(Requests) /\ Len(mailQ) <= QueueSize
    /\ job \in [Workers -> Requests \cup {None}]
    /\ inbox \subseteq Requests /\ attempted \subseteq Requests
    /\ hpc \in [Handlers -> {"idle", "confirm", "inc", "delete", "dec"}]
    /\ hsub \in [Handlers -> Requests \cup {None}]
    /\ knowsUnsub \subseteq Requests
    /\ gauge \in Int
    /\ stopping \in BOOLEAN

Init ==
    /\ row = [q \in Requests |-> "none"]
    /\ spc = [q \in Requests |-> "new"]
    /\ answer = [q \in Requests |-> "none"]
    /\ mailQ = <<>>
    /\ job = [w \in Workers |-> None]
    /\ inbox = {} /\ attempted = {}
    /\ hpc = [h \in Handlers |-> "idle"]
    /\ hsub = [h \in Handlers |-> None]
    /\ knowsUnsub = {}
    /\ gauge = 0
    /\ stopping = FALSE

DbFails == "db" \in Faults

Stored(q) == row[q] \in {"pending", "confirmed"}

Confirmed == {q \in Requests : row[q] = "confirmed"}

-----------------------------------------------------------------------------
(* POST /api/subscribe. *)

Answer(q, a) ==
    /\ spc' = [spc EXCEPT ![q] = "done"]
    /\ answer' = [answer EXCEPT ![q] = a]

\* Validation and RepoExists let the call through, or it is answered 400, 404, 429 or 500.
CheckRepo(q) ==
    /\ spc[q] = "new" /\ ~stopping
    /\ \/ spc' = [spc EXCEPT ![q] = "create"] /\ UNCHANGED answer
       \/ Answer(q, "rejected")
    /\ UNCHANGED <<row, mail, handler, knowsUnsub, gauge, stopping>>

\* Mutant: the table has no such key.
NoUniqueKey(q) == FALSE

\* The unique key of (email, repo).
PairTaken(q) == \E p \in Requests : Stored(p) /\ PairOf[p] = PairOf[q]

Create(q) ==
    /\ spc[q] = "create" /\ ~PairTaken(q)
    /\ row' = [row EXCEPT ![q] = "pending"]
    /\ spc' = [spc EXCEPT ![q] = "enqueue"]
    /\ UNCHANGED <<answer, mail, handler, knowsUnsub, gauge, stopping>>

CreateConflict(q) ==
    /\ spc[q] = "create" /\ PairTaken(q)
    /\ Answer(q, "conflict")
    /\ UNCHANGED <<row, mail, handler, knowsUnsub, gauge, stopping>>

\* Answered 500; the row may be there all the same, with a token nobody is ever sent.
CreateFails(q) ==
    /\ spc[q] = "create" /\ DbFails
    /\ row' \in {row} \cup (IF PairTaken(q) THEN {} ELSE {[row EXCEPT ![q] = "pending"]})
    /\ Answer(q, "error")
    /\ UNCHANGED <<mail, handler, knowsUnsub, gauge, stopping>>

\* Mutant: the queue takes one job more than it has places.
OnePlaceMore == Len(mailQ) <= QueueSize

QueueHasRoom == Len(mailQ) < QueueSize

\* The select: a send on the channel when it has room, else the mail is sent inline.
Enqueue(q) ==
    /\ spc[q] = "enqueue" /\ QueueHasRoom
    /\ mailQ' = Append(mailQ, q)
    /\ Answer(q, "ok")
    /\ UNCHANGED <<row, job, inbox, attempted, handler, knowsUnsub, gauge, stopping>>

\* Mutant: no inline send, the confirmation is dropped.
DropWhenFull(q) ==
    /\ spc[q] = "enqueue" /\ ~QueueHasRoom
    /\ Answer(q, "ok")
    /\ UNCHANGED <<row, mail, handler, knowsUnsub, gauge, stopping>>

QueueFull(q) ==
    /\ spc[q] = "enqueue" /\ ~QueueHasRoom
    /\ spc' = [spc EXCEPT ![q] = "inline"]
    /\ UNCHANGED <<row, answer, mail, handler, knowsUnsub, gauge, stopping>>

\* SendConfirmation returns: delivered, or an error that is only counted.
Send(q) ==
    /\ attempted' = attempted \cup {q}
    /\ \/ inbox' = inbox \cup {q}
       \/ "smtp" \in Faults /\ UNCHANGED inbox

InlineSend(q) ==
    /\ spc[q] = "inline"
    /\ Send(q)
    /\ Answer(q, "ok")
    /\ UNCHANGED <<row, mailQ, job, handler, knowsUnsub, gauge, stopping>>

SubscribeStep(q) ==
    \/ CheckRepo(q) \/ Create(q) \/ CreateConflict(q) \/ CreateFails(q) \/ Enqueue(q) \/ QueueFull(q)

-----------------------------------------------------------------------------
(* runConfirmationWorker. *)

Take(w) ==
    /\ job[w] = None /\ mailQ # <<>>
    /\ job' = [job EXCEPT ![w] = Head(mailQ)]
    /\ mailQ' = Tail(mailQ)
    /\ UNCHANGED <<row, subscribe, inbox, attempted, handler, knowsUnsub, gauge, stopping>>

WorkerSend(w) ==
    /\ job[w] # None
    /\ Send(job[w])
    /\ job' = [job EXCEPT ![w] = None]
    /\ UNCHANGED <<row, subscribe, mailQ, handler, knowsUnsub, gauge, stopping>>

-----------------------------------------------------------------------------
(* GET /api/confirm and GET /api/unsubscribe. *)

Reply(h) ==
    /\ hpc' = [hpc EXCEPT ![h] = "idle"]
    /\ hsub' = [hsub EXCEPT ![h] = None]

Proceed(h, pc, q) ==
    /\ hpc' = [hpc EXCEPT ![h] = pc]
    /\ hsub' = [hsub EXCEPT ![h] = q]

\* Confirmations in flight: the bound of the model counts them.
Confirming == {h \in Handlers : hpc[h] \in {"confirm", "inc"}}

\* Mutant: a token confirms that no mail brought.
ConfirmUnsent(h, q) ==
    /\ hpc[h] = "idle" /\ ~stopping
    /\ gauge + Cardinality(Confirming) < MaxGauge
    /\ Stored(q) /\ Proceed(h, "confirm", q)
    /\ UNCHANGED <<row, subscribe, mail, knowsUnsub, gauge, stopping>>

\* GetByConfirmToken for the token of a mail that arrived.  A lookup that finds no row or
\* fails is answered as a token that was not found, and changes nothing.
ConfirmLookup(h, q) ==
    /\ hpc[h] = "idle" /\ q \in inbox /\ ~stopping
    /\ gauge + Cardinality(Confirming) < MaxGauge
    /\ Stored(q) /\ Proceed(h, "confirm", q)
    /\ UNCHANGED <<row, subscribe, mail, knowsUnsub, gauge, stopping>>

\* Mutant: the confirmation is an upsert.
ConfirmUpsert(h) ==
    /\ hpc[h] = "confirm"
    /\ row' = [row EXCEPT ![hsub[h]] = "confirmed"]
    /\ Proceed(h, "inc", hsub[h])
    /\ UNCHANGED <<subscribe, mail, knowsUnsub, gauge, stopping>>

\* UPDATE ... SET confirmed = TRUE, whatever the row says; no row is ErrNotFound.
ConfirmRow(h) ==
    /\ hpc[h] = "confirm"
    /\ IF Stored(hsub[h])
       THEN row' = [row EXCEPT ![hsub[h]] = "confirmed"] /\ Proceed(h, "inc", hsub[h])
       ELSE UNCHANGED row /\ Reply(h)
    /\ UNCHANGED <<subscribe, mail, knowsUnsub, gauge, stopping>>

\* Mutant: the error of the update is ignored.
ConfirmErrorIgnored(h) ==
    /\ hpc[h] = "confirm" /\ DbFails
    /\ Proceed(h, "inc", hsub[h])
    /\ UNCHANGED <<row, subscribe, mail, knowsUnsub, gauge, stopping>>

ConfirmFails(h) ==
    /\ hpc[h] = "confirm" /\ DbFails
    /\ row' \in {row} \cup (IF Stored(hsub[h]) THEN {[row EXCEPT ![hsub[h]] = "confirmed"]} ELSE {})
    /\ Reply(h)
    /\ UNCHANGED <<subscribe, mail, knowsUnsub, gauge, stopping>>

IncGauge(h) ==
    /\ hpc[h] = "inc"
    /\ gauge' = gauge + 1
    /\ Reply(h)
    /\ UNCHANGED <<row, subscribe, mail, knowsUnsub, stopping>>

\* Mutant: the confirmation mail has the link to unsubscribe as well.
UnsubscribeEarly(h, q) ==
    /\ hpc[h] = "idle" /\ q \in inbox \cup knowsUnsub /\ ~stopping
    /\ Stored(q) /\ Proceed(h, "delete", q)
    /\ UNCHANGED <<row, subscribe, mail, knowsUnsub, gauge, stopping>>

\* GetByUnsubscribeToken.  Only release mails carry the token and only confirmed
\* subscriptions get them, so sub.Confirmed is read as TRUE.
UnsubscribeLookup(h, q) ==
    /\ hpc[h] = "idle" /\ q \in knowsUnsub /\ ~stopping
    /\ Stored(q) /\ Proceed(h, "delete", q)
    /\ UNCHANGED <<row, subscribe, mail, knowsUnsub, gauge, stopping>>

\* Mutant: the number of rows that were deleted is not looked at.
DeleteAnyway(h) ==
    /\ hpc[h] = "delete"
    /\ row' = [row EXCEPT ![hsub[h]] = "deleted"]
    /\ Proceed(h, "dec", hsub[h])
    /\ UNCHANGED <<subscribe, mail, knowsUnsub, gauge, stopping>>

\* DELETE; no row is ErrNotFound.
DeleteRow(h) ==
    /\ hpc[h] = "delete"
    /\ IF Stored(hsub[h])
       THEN row' = [row EXCEPT ![hsub[h]] = "deleted"] /\ Proceed(h, "dec", hsub[h])
       ELSE UNCHANGED row /\ Reply(h)
    /\ UNCHANGED <<subscribe, mail, knowsUnsub, gauge, stopping>>

DeleteFails(h) ==
    /\ hpc[h] = "delete" /\ DbFails
    /\ row' \in {row} \cup (IF Stored(hsub[h]) THEN {[row EXCEPT ![hsub[h]] = "deleted"]} ELSE {})
    /\ Reply(h)
    /\ UNCHANGED <<subscribe, mail, knowsUnsub, gauge, stopping>>

DecGauge(h) ==
    /\ hpc[h] = "dec"
    /\ gauge' = gauge - 1
    /\ Reply(h)
    /\ UNCHANGED <<row, subscribe, mail, knowsUnsub, stopping>>

HandlerStep(h) ==
    \/ ConfirmRow(h) \/ ConfirmFails(h) \/ IncGauge(h)
    \/ DeleteRow(h) \/ DeleteFails(h) \/ DecGauge(h)

-----------------------------------------------------------------------------
(* The scanner and the process. *)

\* The scanner sends a release mail.
ReleaseMail(q) ==
    /\ row[q] = "confirmed" /\ q \notin knowsUnsub
    /\ knowsUnsub' = knowsUnsub \cup {q}
    /\ UNCHANGED <<row, subscribe, mail, handler, gauge, stopping>>

\* SIGTERM: server.Shutdown closes the listener ...
Shutdown ==
    /\ ~stopping /\ "sigterm" \in Faults
    /\ stopping' = TRUE
    /\ UNCHANGED <<row, subscribe, mail, handler, knowsUnsub, gauge>>

InFlight(q) == spc[q] \in {"create", "enqueue", "inline"}

\* ... and waits for the calls in flight, 30 seconds at most; then the process ends, with
\* its queue, its workers and its metrics, and the next one starts.
Exit ==
    /\ stopping \/ "kill" \in Faults
    /\ spc' = [q \in Requests |-> IF InFlight(q) THEN "done" ELSE spc[q]]
    /\ answer' = [q \in Requests |-> IF InFlight(q) THEN "reset" ELSE answer[q]]
    /\ mailQ' = <<>>
    /\ job' = [w \in Workers |-> None]
    /\ hpc' = [h \in Handlers |-> "idle"]
    /\ hsub' = [h \in Handlers |-> None]
    /\ gauge' = 0
    /\ stopping' = FALSE
    /\ UNCHANGED <<row, inbox, attempted, knowsUnsub>>

\* What goroutines of the process do.
Work ==
    \/ \E q \in Requests : SubscribeStep(q) \/ InlineSend(q)
    \/ \E w \in Workers : Take(w) \/ WorkerSend(w)
    \/ \E h \in Handlers : HandlerStep(h)
    \/ \E h \in Handlers, q \in Requests : ConfirmLookup(h, q) \/ UnsubscribeLookup(h, q)

Next == Work \/ (\E q \in Requests : ReleaseMail(q)) \/ Shutdown \/ Exit

Spec == Init /\ [][Next]_vars

-----------------------------------------------------------------------------
(* Safety. *)

\* As long as no statement fails and no process ends, the gauge never falls below the number of
\* confirmed subscriptions, calls in flight accounted for: two calls that unsubscribe the same
\* subscription at once count it down once, because only one of them deletes a row.  It holds of
\* one process that serves every call: each process has a gauge of its own (main.go:57), and
\* what another one confirms is not counted in this one.
GaugeNotBelowConfirmed ==
    gauge + Cardinality({h \in Handlers : hpc[h] = "inc"})
        >= Cardinality(Confirmed) + Cardinality({h \in Handlers : hpc[h] = "dec"})

\* A call that is about to count and answer OK changed the table: what it reports happened,
\* whichever calls ran between its lookup and its update.
SuccessIsReal ==
    \A h \in Handlers :
        /\ hpc[h] = "inc" => row[hsub[h]] \in {"confirmed", "deleted"}
        /\ hpc[h] = "dec" => row[hsub[h]] = "deleted"

-----------------------------------------------------------------------------
(* Liveness. *)

\* The Go scheduler runs the goroutines; database calls time out; the relay answers.
Fairness ==
    /\ \A q \in Requests : WF_vars(SubscribeStep(q)) /\ WF_vars(InlineSend(q))
    /\ \A w \in Workers : WF_vars(Take(w)) /\ WF_vars(WorkerSend(w))
    /\ \A h \in Handlers : WF_vars(HandlerStep(h))

FairSpec == Spec /\ Fairness

\* The mails the service owes: stored by a Create that succeeded, and not sent yet.
Owed ==
    {q \in Requests : \/ spc[q] \in {"enqueue", "inline"}
                      \/ \E n \in 1..Len(mailQ) : mailQ[n] = q
                      \/ \E w \in Workers : job[w] = q}

\* The mails it will never send: stored, and answered so or cut off by the end of a process.
Forgotten ==
    {q \in Requests : row[q] # "none" /\ answer[q] \in {"ok", "reset"}} \ (Owed \cup attempted)

\* Queue, workers and inline sends implement the outbox: a stored subscription whose call
\* did not fail has its mail owed, attempted or forgotten; none is dropped when the queue
\* is full, none is sent twice, and only the end of a process forgets.
Box == INSTANCE Outbox WITH owed <- Owed, forgotten <- Forgotten, Crashes <- "kill" \in Faults
ImplementsOutbox == Box!Spec

\* "avoid silently dropping confirmations" (service/subscription.go:99): a subscription that
\* was stored and answered OK has its mail attempted.
NothingDropped == \A q \in Requests : answer[q] = "ok" ~> q \in attempted
=============================================================================
