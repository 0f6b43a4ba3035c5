------------------------------- MODULE Mailer -------------------------------
(***************************************************************************)
(* One call of send (internal/mailer/mailer.go): the SMTP dialogue with    *)
(* the relay, for every setting of the mailer (internal/config), and what  *)
(* the relay has taken when the call returns.                              *)
(***************************************************************************)
EXTENDS Naturals, Sequences

CONSTANTS
    Environments, \* the settings of a deployment that load
    Faults        \* what may go wrong, see FaultKinds

\* "refuse": the relay answers a command with an error; "break": the connection breaks,
\* before or after the relay got what was sent.
FaultKinds == {"refuse", "break"}

\* url: CLOUDMAILIN_SMTP_URL is set; starttls: its parameter; tls: SMTP_TLS; user: a user
\* name is set, in the URL or in SMTP_USERNAME; local: the relay is this machine.
Settings ==
    [url : BOOLEAN, starttls : {"", "true", "other"}, tls : {"true", "other"}, user : BOOLEAN, local : BOOLEAN]

ASSUME EnvironmentsAssumption == Environments \subseteq Settings
ASSUME FaultsAssumption == Faults \subseteq FaultKinds

VARIABLES
    env,      \* the settings
    relay,    \* what the relay offers: STARTTLS, and AUTH "never", "secure" (under TLS) or "always"
    step,     \* what send does next
    conn,     \* the TCP connection
    deferred, \* client.Close runs when send returns
    secure,   \* TLS is on
    inClear,  \* the relay, and who listens, got commands that were not encrypted
    written,  \* the message was written up to its last line
    taken,    \* the messages the relay has taken over, "whole" or in "part"
    result    \* what send returned

link == <<conn, deferred>>
vars == <<env, relay, step, link, secure, inClear, written, taken, result>>

Commands == {"auth", "mail", "rcpt", "data"}

TypeOK ==
    /\ env \in Environments
    /\ relay \in [starttls : BOOLEAN, auth : {"never", "secure", "always"}]
    /\ step \in {"dial", "greet", "starttls", "write", "close", "quit", "returned"} \cup Commands
    /\ conn \in {"none", "open", "closed"} /\ deferred \in BOOLEAN /\ secure \in BOOLEAN
    /\ inClear \subseteq Commands \cup {"message"} /\ written \in BOOLEAN
    /\ taken \in {<<>>, <<"whole">>, <<"part">>}
    /\ result \in {"none", "ok", "error"}

Init ==
    /\ env \in Environments
    /\ relay \in [starttls : BOOLEAN, auth : {"never", "secure", "always"}]
    /\ step = "dial" /\ conn = "none" /\ deferred = FALSE /\ secure = FALSE
    /\ inClear = {} /\ written = FALSE /\ taken = <<>>
    /\ result = "none"

-----------------------------------------------------------------------------
(* The settings. *)

\* With a URL, STARTTLS unless it is switched off; else only if SMTP_TLS says so.
UseTLS == IF env.url THEN env.starttls # "other" ELSE env.tls = "true"

\* New: credentials only if there is a user name.
UseAuth == env.user

\* smtp.PlainAuth hands no password to a remote relay in clear.
AuthAllowed == secure \/ env.local

OffersAuth == relay.auth = "always" \/ (relay.auth = "secure" /\ secure)

-----------------------------------------------------------------------------
(* send. *)

Breaks == "break" \in Faults

\* A return runs what was deferred up to there, and nothing else.
Return(what) ==
    /\ step' = "returned"
    /\ result' = what
    /\ conn' = IF deferred THEN "closed" ELSE conn
    /\ UNCHANGED deferred

Dial ==
    /\ step = "dial"
    /\ \/ step' = "greet" /\ conn' = "open" /\ UNCHANGED <<deferred, result>>
       \/ Breaks /\ Return("error")
    /\ UNCHANGED <<env, relay, secure, inClear, written, taken>>

AfterTLS == IF UseAuth THEN "auth" ELSE "mail"

\* NewClient reads the greeting; only then is Close deferred.
Greet ==
    /\ step = "greet"
    /\ deferred' = TRUE
    /\ step' = IF UseTLS THEN "starttls" ELSE AfterTLS
    /\ UNCHANGED <<env, relay, conn, secure, inClear, written, taken, result>>

\* Mutant: the return is left to close the connection.
GreetLeaks ==
    /\ step = "greet" /\ Faults # {}
    /\ Return("error")
    /\ UNCHANGED <<env, relay, secure, inClear, written, taken>>

\* conn.Close before the return, which has nothing deferred yet.
GreetFails ==
    /\ step = "greet" /\ Faults # {}
    /\ conn' = "closed"
    /\ step' = "returned" /\ result' = "error"
    /\ UNCHANGED <<env, relay, deferred, secure, inClear, written, taken>>

StartTLS ==
    /\ step = "starttls" /\ relay.starttls
    /\ secure' = TRUE
    /\ step' = AfterTLS
    /\ UNCHANGED <<env, relay, link, inClear, written, taken, result>>

\* Mutant: a relay without STARTTLS is talked to in clear.
GoOnInClear ==
    /\ step = "starttls" /\ ~relay.starttls
    /\ step' = AfterTLS
    /\ UNCHANGED <<env, relay, link, secure, inClear, written, taken, result>>

\* STARTTLS is not offered, refused, or the handshake fails.
StartTLSFails ==
    /\ step = "starttls" /\ (~relay.starttls \/ Faults # {})
    /\ Return("error")
    /\ UNCHANGED <<env, relay, secure, inClear, written, taken>>

MaySend(c) == c = "auth" => OffersAuth /\ AuthAllowed

\* What went over the wire is read by others unless TLS is on.
Sent(what) == inClear' = inClear \cup (IF secure THEN {} ELSE {what})

NextCommand == [auth |-> "mail", mail |-> "rcpt", rcpt |-> "data", data |-> "write"]

Command(c) ==
    /\ step = c /\ MaySend(c)
    /\ Sent(c)
    /\ step' = NextCommand[c]
    /\ UNCHANGED <<env, relay, link, secure, written, taken, result>>

\* AUTH is not offered, or is not safe: nothing is sent.
AuthUnsuitable ==
    /\ step = "auth" /\ ~MaySend("auth")
    /\ Return("error")
    /\ UNCHANGED <<env, relay, secure, inClear, written, taken>>

\* Refused, or the connection breaks.
CommandFails(c) ==
    /\ step = c /\ MaySend(c) /\ Faults # {}
    /\ Sent(c)
    /\ Return("error")
    /\ UNCHANGED <<env, relay, secure, written, taken>>

Write ==
    /\ step = "write"
    /\ Sent("message")
    /\ written' = TRUE
    /\ step' = "close"
    /\ UNCHANGED <<env, relay, link, secure, taken, result>>

\* Mutant: the end of the message still goes out.
EndTruncated ==
    /\ step = "write" /\ Breaks
    /\ Sent("message")
    /\ taken' \in {taken, Append(taken, "part")}
    /\ Return("error")
    /\ UNCHANGED <<env, relay, secure, written>>

\* The error sticks to the connection: the Close that follows sends no end of message.
WriteFails ==
    /\ step = "write" /\ Breaks
    /\ Sent("message")
    /\ Return("error")
    /\ UNCHANGED <<env, relay, secure, written, taken>>

\* The end of the message, and the answer that the relay takes it over.
Close ==
    /\ step = "close"
    /\ taken' = Append(taken, "whole")
    /\ step' = "quit"
    /\ UNCHANGED <<env, relay, link, secure, inClear, written, result>>

\* Mutant: the message is sent again.
CloseRetries ==
    /\ step = "close" /\ Faults # {}
    /\ taken' = IF Breaks THEN Append(taken, "whole") ELSE taken
    /\ step' = "write"
    /\ UNCHANGED <<env, relay, link, secure, inClear, written, result>>

\* The message is refused, or the connection breaks before or after it was taken over.
CloseFails ==
    /\ step = "close" /\ Faults # {}
    /\ taken' \in {taken} \cup (IF Breaks THEN {Append(taken, "whole")} ELSE {})
    /\ Return("error")
    /\ UNCHANGED <<env, relay, secure, inClear, written>>

\* An error of QUIT is returned although the message was taken over.
Quit ==
    /\ step = "quit"
    /\ Return("ok") \/ (Faults # {} /\ Return("error"))
    /\ UNCHANGED <<env, relay, secure, inClear, written, taken>>

Step ==
    \/ Dial \/ Greet \/ GreetFails \/ StartTLS \/ StartTLSFails \/ AuthUnsuitable
    \/ \E c \in Commands : Command(c) \/ CommandFails(c)
    \/ Write \/ WriteFails \/ Close \/ CloseFails \/ Quit

Spec == Init /\ [][Step]_vars

-----------------------------------------------------------------------------
(* Properties. *)

\* A call that succeeds has handed the whole message to the relay once, and no dialogue,
\* however it ends, hands over a message that is cut off (mailer.go:105 to :117).  A call that
\* fails has handed over nothing or all of it: to send the mail again may repeat it.
SuccessIsTaken ==
    /\ result = "ok" => taken = <<"whole">>
    /\ \A n \in 1..Len(taken) : taken[n] = "whole" /\ written

\* With TLS asked for, nothing but the greeting is said in clear, whatever the relay offers
\* or omits; without it, credentials still never leave this machine in clear.
NothingInClear ==
    /\ UseTLS => inClear = {}
    /\ "auth" \in inClear => env.local

\* No way out of send leaves its connection open: NewClient, before which nothing is deferred,
\* closes it when it fails (mailer.go:71), and all that comes later relies on the one Close
\* that is deferred (mailer.go:74).
ConnClosed == step = "returned" => conn # "open"
=============================================================================
