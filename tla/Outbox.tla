------------------------------- MODULE Outbox -------------------------------
(***************************************************************************)
(* What the service promises about confirmation mails, with no queue, no   *)
(* workers and no table: once a subscription is stored its mail is owed,   *)
(* and a mail that is owed is attempted once, unless the process is        *)
(* stopped and ends first, or dies: then all it owed is forgotten for      *)
(* good.                                                                   *)
(***************************************************************************)
CONSTANTS
    Requests,
    Crashes    \* a process may also end without being stopped

VARIABLES
    owed,       \* mails to be sent
    attempted,  \* mails that were sent, with success or not
    forgotten,  \* what processes owed when they ended
    stopping    \* the process is being stopped

vars == <<owed, attempted, forgotten, stopping>>

Init == owed = {} /\ attempted = {} /\ forgotten = {} /\ stopping = FALSE

Accept(q) ==
    /\ q \notin owed \cup attempted \cup forgotten
    /\ owed' = owed \cup {q}
    /\ UNCHANGED <<attempted, forgotten, stopping>>

Attempt(q) ==
    /\ q \in owed
    /\ owed' = owed \ {q}
    /\ attempted' = attempted \cup {q}
    /\ UNCHANGED <<forgotten, stopping>>

Stop ==
    /\ stopping' = TRUE
    /\ UNCHANGED <<owed, attempted, forgotten>>

End ==
    /\ stopping \/ Crashes
    /\ stopping' = FALSE
    /\ owed' = {}
    /\ forgotten' = forgotten \cup owed
    /\ UNCHANGED attempted

Next == (\E q \in Requests : Accept(q) \/ Attempt(q)) \/ Stop \/ End

Spec == Init /\ [][Next]_vars /\ \A q \in Requests : WF_vars(Attempt(q))
=============================================================================
