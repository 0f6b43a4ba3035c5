----------------------------- MODULE MailerProofs -----------------------------
(***************************************************************************)
(* The SMTP dialogue for every set of settings, every relay and every set  *)
(* of faults: what a call that returned has handed over, said in clear and *)
(* left open.                                                              *)
(***************************************************************************)
EXTENDS Mailer, TLAPS

-----------------------------------------------------------------------------
(* The inductive invariant. *)

\* Past STARTTLS: where the settings ask for TLS, it is on.
Secured == UseTLS /\ step \in Commands \cup {"write", "close", "quit"} => secure

\* What the relay has taken and what send returned, by the place where send is.
Progress ==
    /\ step \notin {"quit", "returned"} => taken = <<>>
    /\ step = "quit" => taken = <<"whole">>
    /\ step = "close" \/ taken # <<>> => written
    /\ taken # <<"part">>
    /\ result = "ok" => step = "returned" /\ taken = <<"whole">>

\* From the greeting to the return the Close of an open connection is deferred.
CloseDeferred ==
    /\ step = "dial" => conn = "none"
    /\ step \notin {"dial", "greet"} /\ conn = "open" => deferred

DialogueInv == TypeOK /\ Secured /\ NothingInClear /\ Progress /\ CloseDeferred /\ ConnClosed

LEMMA DialogueInit == Init => DialogueInv
<1> SUFFICES ASSUME Init
             PROVE  DialogueInv
  OBVIOUS
<1>1. TypeOK
  BY DEF Init, TypeOK
<1>2. Secured /\ NothingInClear /\ CloseDeferred /\ ConnClosed
  BY DEF Init, Secured, NothingInClear, CloseDeferred, ConnClosed, Commands
<1>3. Progress
  BY DEF Init, Progress
<1> QED
  BY <1>1, <1>2, <1>3 DEF DialogueInv

-----------------------------------------------------------------------------
(* One step of send. *)

\* The ways out of send that leave the closing to the return, all but the last of them
\* failures: none is taken with a connection whose Close is not deferred yet.  What the relay
\* has taken is none of the message or, when the answer to its end or to QUIT was lost, the
\* whole of it.
LEMMA ReturnKeeps ==
    ASSUME DialogueInv, NEW what \in {"ok", "error"}, Return(what),
           UNCHANGED <<env, relay, secure, written>>, step \notin {"greet", "returned"},
           NothingInClear', inClear' \subseteq Commands \cup {"message"},
           taken' = <<>> \/ (taken' = <<"whole">> /\ written),
           what = "ok" => taken' = <<"whole">>
    PROVE  DialogueInv'
<1>1. TypeOK' /\ CloseDeferred' /\ ConnClosed'
  BY DEF DialogueInv, TypeOK, Return, CloseDeferred, ConnClosed
<1>2. Secured'
  BY DEF Secured, Return, Commands
<1>3. Progress'
  BY <1>1 DEF DialogueInv, TypeOK, Progress, Return
<1> QED
  BY <1>1, <1>2, <1>3 DEF DialogueInv

\* A command or the message is sent where TLS is on if it is asked for; credentials only
\* where PlainAuth lets them.
LEMMA SentKeeps ==
    ASSUME DialogueInv, NEW what \in Commands \cup {"message"}, Sent(what), UNCHANGED env,
           step \in Commands \cup {"write"}, what = "auth" => AuthAllowed
    PROVE  NothingInClear' /\ inClear' \subseteq Commands \cup {"message"}
<1>1. UseTLS => secure
  BY DEF DialogueInv, Secured
<1>2. UseTLS' <=> UseTLS
  BY DEF UseTLS
<1>3. CASE secure
  BY <1>2, <1>3 DEF Sent, DialogueInv, TypeOK, NothingInClear
<1>4. CASE ~secure
  BY <1>1, <1>2, <1>4 DEF Sent, DialogueInv, TypeOK, NothingInClear, AuthAllowed
<1> QED
  BY <1>3, <1>4

LEMMA DialogueStep == DialogueInv /\ [Step]_vars => DialogueInv'
<1> SUFFICES ASSUME DialogueInv, [Step]_vars
             PROVE  DialogueInv'
  OBVIOUS
<1> USE DEF DialogueInv
<1>u. ASSUME UNCHANGED <<env, inClear>>
      PROVE  NothingInClear' /\ inClear' \subseteq Commands \cup {"message"}
  BY <1>u DEF NothingInClear, UseTLS, TypeOK
<1>1. CASE UNCHANGED vars
  BY <1>1 DEF vars, link, TypeOK, Secured, NothingInClear, Progress, CloseDeferred, ConnClosed, UseTLS
<1>2. CASE Dial
  <2>1. CASE Return("error")
    BY <1>2, <2>1, <1>u, ReturnKeeps DEF Dial, Progress
  <2>2. CASE step' = "greet" /\ conn' = "open" /\ UNCHANGED <<deferred, result>>
    BY <1>2, <2>2, <1>u DEF Dial, TypeOK, Secured, Progress, CloseDeferred, ConnClosed, Commands
  <2> QED
    BY <1>2, <2>1, <2>2 DEF Dial
<1>3. CASE Greet
  <2>1. step' \in {"starttls", "auth", "mail"} /\ (UseTLS => step' = "starttls")
    BY <1>3 DEF Greet, AfterTLS
  <2>2. TypeOK' /\ Progress' /\ CloseDeferred' /\ ConnClosed'
    BY <1>3, <2>1 DEF Greet, TypeOK, Progress, CloseDeferred, ConnClosed, Commands
  <2>3. Secured'
    BY <1>3, <2>1 DEF Greet, Secured, UseTLS, Commands
  <2> QED
    BY <1>3, <1>u, <2>2, <2>3 DEF Greet
<1>4. CASE GreetFails
  <2>1. TypeOK' /\ Progress' /\ CloseDeferred' /\ ConnClosed'
    BY <1>4 DEF GreetFails, TypeOK, Progress, CloseDeferred, ConnClosed
  <2>2. Secured'
    BY <1>4 DEF GreetFails, Secured, Commands
  <2> QED
    BY <1>4, <1>u, <2>1, <2>2 DEF GreetFails
<1>5. CASE StartTLS
  <2>1. step' \in {"auth", "mail"} /\ secure'
    BY <1>5 DEF StartTLS, AfterTLS
  <2>2. TypeOK' /\ Progress' /\ CloseDeferred' /\ ConnClosed'
    BY <1>5, <2>1 DEF StartTLS, link, TypeOK, Progress, CloseDeferred, ConnClosed, Commands
  <2> QED
    BY <1>5, <1>u, <2>1, <2>2 DEF StartTLS, Secured
<1>6. CASE StartTLSFails
  BY <1>6, <1>u, ReturnKeeps DEF StartTLSFails, Progress
<1>7. CASE AuthUnsuitable
  BY <1>7, <1>u, ReturnKeeps DEF AuthUnsuitable, Progress
<1>8. ASSUME NEW c \in Commands, Command(c)
      PROVE  DialogueInv'
  <2>1. NothingInClear' /\ inClear' \subseteq Commands \cup {"message"}
    BY <1>8, SentKeeps DEF Command, MaySend
  <2>2. step' \in {"mail", "rcpt", "data", "write"}
    BY <1>8 DEF Command, NextCommand, Commands
  <2>3. TypeOK' /\ Progress' /\ CloseDeferred' /\ ConnClosed'
    BY <1>8, <2>1, <2>2 DEF Command, link, TypeOK, Progress, CloseDeferred, ConnClosed, Commands
  <2>4. Secured'
    BY <1>8, <2>2 DEF Command, Secured, UseTLS, Commands
  <2> QED
    BY <2>1, <2>3, <2>4
<1>9. ASSUME NEW c \in Commands, CommandFails(c)
      PROVE  DialogueInv'
  <2>1. NothingInClear' /\ inClear' \subseteq Commands \cup {"message"}
    BY <1>9, SentKeeps DEF CommandFails, MaySend
  <2> QED
    BY <1>9, <2>1, ReturnKeeps DEF CommandFails, Progress, Commands
<1>10. CASE Write
  <2>1. NothingInClear' /\ inClear' \subseteq Commands \cup {"message"}
    BY <1>10, SentKeeps DEF Write
  <2>2. TypeOK' /\ Progress' /\ CloseDeferred' /\ ConnClosed'
    BY <1>10, <2>1 DEF Write, link, TypeOK, Progress, CloseDeferred, ConnClosed, Commands
  <2> QED
    BY <1>10, <2>1, <2>2 DEF Write, Secured, UseTLS, Commands
<1>11. CASE WriteFails
  <2>1. NothingInClear' /\ inClear' \subseteq Commands \cup {"message"}
    BY <1>11, SentKeeps DEF WriteFails
  <2> QED
    BY <1>11, <2>1, ReturnKeeps DEF WriteFails, Progress
<1>12. CASE Close
  <2>1. taken' = <<"whole">> /\ written
    BY <1>12 DEF Close, Progress
  <2>2. TypeOK' /\ Progress' /\ CloseDeferred' /\ ConnClosed'
    BY <1>12, <2>1 DEF Close, link, TypeOK, Progress, CloseDeferred, ConnClosed, Commands
  <2> QED
    BY <1>12, <1>u, <2>2 DEF Close, Secured, UseTLS, Commands
<1>13. CASE CloseFails
  <2>1. taken = <<>> /\ written
    BY <1>13 DEF CloseFails, Progress
  <2>2. taken' = <<>> \/ taken' = <<"whole">>
    BY <1>13, <2>1 DEF CloseFails
  <2> QED
    BY <1>13, <1>u, <2>1, <2>2, ReturnKeeps DEF CloseFails
<1>14. CASE Quit
  <2>1. taken = <<"whole">> /\ written
    BY <1>14 DEF Quit, Progress
  <2> QED
    BY <1>14, <1>u, <2>1, ReturnKeeps DEF Quit
<1> QED
  BY <1>1, <1>2, <1>3, <1>4, <1>5, <1>6, <1>7, <1>8, <1>9, <1>10, <1>11, <1>12, <1>13, <1>14 DEF Step

LEMMA DialogueAlways == Spec => []DialogueInv
BY DialogueInit, DialogueStep, PTL DEF Spec

-----------------------------------------------------------------------------
(* The theorems. *)

\* Every state variable of send keeps its type: in particular the relay takes one message at
\* most (mailer.go:105).
THEOREM TypeCorrect == Spec => []TypeOK
<1>1. DialogueInv => TypeOK
  BY DEF DialogueInv
<1> QED
  BY <1>1, DialogueAlways, PTL

\* A call that returns no error has handed over the whole message, and no way out of send
\* hands over a part of it (mailer.go:109).
THEOREM SuccessTaken == Spec => []SuccessIsTaken
<1>1. ASSUME DialogueInv
      PROVE  SuccessIsTaken
  <2>1. taken = <<>> \/ (taken = <<"whole">> /\ written)
    BY <1>1 DEF DialogueInv, TypeOK, Progress
  <2> QED
    BY <1>1, <2>1 DEF DialogueInv, Progress, SuccessIsTaken
<1> QED
  BY <1>1, DialogueAlways, PTL

\* With TLS asked for nothing is said in clear, and credentials for another machine never
\* are, whatever the relay offers and wherever the dialogue breaks (mailer.go:76).
THEOREM SaidUnderTLS == Spec => []NothingInClear
<1>1. DialogueInv => NothingInClear
  BY DEF DialogueInv
<1> QED
  BY <1>1, DialogueAlways, PTL

\* send returns with its connection closed or never opened: by the explicit Close as long as
\* nothing is deferred (mailer.go:71), by the deferred one from there on (mailer.go:74).
THEOREM ConnectionClosed == Spec => []ConnClosed
<1>1. DialogueInv => ConnClosed
  BY DEF DialogueInv
<1> QED
  BY <1>1, DialogueAlways, PTL
=============================================================================
