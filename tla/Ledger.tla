------------------------------- MODULE Ledger -------------------------------
(***************************************************************************)
(* What the scanner promises to the subscribers and to its two records,    *)
(* with no processes, no lock and no scans: a release is mailed only to an *)
(* address that was confirmed and never once it is on record; it is put on *)
(* record only after it was mailed; last_seen_tag is taken from the        *)
(* record; and the record ends with its subscription.                      *)
(***************************************************************************)
CONSTANTS Subs, Tags, StableTags, NoTag

VARIABLES row, lastSeen, log, mailed

vars == <<row, lastSeen, log, mailed>>

Init ==
    /\ row = [s \in Subs |-> "pending"]
    /\ lastSeen = [s \in Subs |-> NoTag]
    /\ log = {} /\ mailed = {}

Confirm(s) ==
    /\ row[s] = "pending"
    /\ row' = [row EXCEPT ![s] = "confirmed"]
    /\ UNCHANGED <<lastSeen, log, mailed>>

Mail(s, t) ==
    /\ row[s] # "pending" /\ t \in StableTags
    /\ <<s, t>> \notin log
    /\ mailed' = mailed \cup {<<s, t>>}
    /\ UNCHANGED <<row, lastSeen, log>>

Record(s, t) ==
    /\ row[s] = "confirmed" /\ <<s, t>> \in mailed
    /\ log' = log \cup {<<s, t>>}
    /\ UNCHANGED <<row, lastSeen, mailed>>

Note(s, t) ==
    /\ row[s] = "confirmed" /\ <<s, t>> \in log
    /\ lastSeen' = [lastSeen EXCEPT ![s] = t]
    /\ UNCHANGED <<row, log, mailed>>

Delete(s) ==
    /\ row[s] = "confirmed"
    /\ row' = [row EXCEPT ![s] = "deleted"]
    /\ lastSeen' = [lastSeen EXCEPT ![s] = NoTag]
    /\ log' = {n \in log : n[1] # s}
    /\ UNCHANGED mailed

Next ==
    \E s \in Subs : \/ Confirm(s) \/ Delete(s)
                    \/ \E t \in Tags : Mail(s, t) \/ Record(s, t) \/ Note(s, t)

Spec == Init /\ [][Next]_vars
=============================================================================
