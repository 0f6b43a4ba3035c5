---------------------------- MODULE GitHubClient ----------------------------
(***************************************************************************)
(* The GitHub client (internal/github/client.go) over its Redis cache      *)
(* (internal/cache/redis.go), for the two keys of one repository: calls of *)
(* RepoExists and LatestRelease by several goroutines, each a lookup, a    *)
(* request and a write-back that others may overtake, while the repository *)
(* changes and time passes.                                                *)
(***************************************************************************)
EXTENDS Naturals

CONSTANTS
    Callers,   \* goroutines: HTTP calls and scan workers
    Tags,      \* release tags
    TTL,       \* GITHUB_CACHE_TTL, in ticks; a key written with 0 never expires
    CallTime,  \* ticks a call may take after GitHub answered (reading the body, Redis)
    Faults,    \* what may go wrong, see FaultKinds
    None

\* "redis": Get or Set fails; "net": no answer within githubRequestTimeout; "403", "429",
\* "other": GitHub answers so in place of the true status, "other" being every status but 2xx,
\* 403, 404 and 429, none of which the client tells apart (a 5xx, the 401 of a token that was
\* revoked, 451, a redirect that leads nowhere); "change": the repository changes.
FaultKinds == {"redis", "net", "403", "429", "other", "change"}

ASSUME TimeAssumption == TTL \in Nat /\ CallTime \in Nat
ASSUME FaultAssumption == Faults \subseteq FaultKinds
ASSUME NoneAssumption == None \notin {"exists", "release", "not found", "rate limited", "error"}

VARIABLES
    there,    \* GitHub: the repository exists, for the token that asks
    latest,   \* GitHub: its latest release
    cache,    \* Redis: of each key, None or [val, left, age]
    pc,       \* of a call: where it is
    key,      \* the key it asks for: "repo" for RepoExists, "release" for LatestRelease
    reply,    \* GitHub's answer, [status, val, age]
    result    \* what the call returned

github == <<there, latest>>
call   == <<pc, key, reply, result>>
vars   == <<github, cache, call>>

Keys == {"repo", "release"}
Results == {"exists", "release", "not found", "rate limited", "error"}
Vals == Tags \cup BOOLEAN \cup {None}
Entry == [val : Vals, left : 0..TTL, age : Nat]
Reply == [status : {"2xx", "404", "403", "429", "other"}, val : Vals, age : 0..CallTime]

TypeOK ==
    /\ there \in BOOLEAN /\ latest \in Tags \cup {None}
    /\ cache \in [Keys -> Entry \cup {None}]
    /\ pc \in [Callers -> {"idle", "get", "ask", "reply", "done"}]
    /\ key \in [Callers -> Keys]
    /\ reply \in [Callers -> Reply \cup {None}]
    /\ result \in [Callers -> Results \cup {None}]

Init ==
    /\ there \in BOOLEAN /\ latest = None
    /\ cache = [k \in Keys |-> None]
    /\ pc = [c \in Callers |-> "idle"]
    /\ key = [c \in Callers |-> "repo"]
    /\ reply = [c \in Callers |-> None]
    /\ result = [c \in Callers |-> None]

Goto(c, p) == pc' = [pc EXCEPT ![c] = p]

Return(c, what) ==
    /\ Goto(c, "done")
    /\ result' = [result EXCEPT ![c] = what]
    /\ reply' = [reply EXCEPT ![c] = None]
    /\ UNCHANGED <<github, key>>

-----------------------------------------------------------------------------
(* A call. *)

Call(c, k) ==
    /\ pc[c] \in {"idle", "done"}
    /\ Goto(c, "get")
    /\ key' = [key EXCEPT ![c] = k]
    /\ result' = [result EXCEPT ![c] = None]
    /\ UNCHANGED <<github, cache, reply>>

Hit(c) ==
    /\ pc[c] = "get" /\ cache[key[c]] # None
    /\ Return(c, IF key[c] = "release" THEN "release"
                 ELSE IF cache["repo"].val THEN "exists" ELSE "not found")
    /\ UNCHANGED cache

Miss(c) ==
    /\ pc[c] = "get" /\ (cache[key[c]] = None \/ "redis" \in Faults)
    /\ Goto(c, "ask")
    /\ UNCHANGED <<github, cache, key, reply, result>>

\* What GitHub says of the key when nothing is wrong.
Truth(k) ==
    IF k = "repo" THEN [status |-> IF there THEN "2xx" ELSE "404", val |-> there, age |-> 0]
    ELSE [status |-> IF there /\ latest # None THEN "2xx" ELSE "404", val |-> latest, age |-> 0]

Refusals == {[status |-> f, val |-> None, age |-> 0] : f \in Faults \cap {"403", "429", "other"}}

\* getJSON: the state of the repository at this moment is what the caller will work with.
Answered(c) ==
    /\ pc[c] = "ask"
    /\ reply' = [reply EXCEPT ![c] = Truth(key[c])]
    /\ Goto(c, "reply")
    /\ UNCHANGED <<github, cache, key, result>>

Refused(c) ==
    /\ pc[c] = "ask"
    /\ \E r \in Refusals : reply' = [reply EXCEPT ![c] = r]
    /\ Goto(c, "reply")
    /\ UNCHANGED <<github, cache, key, result>>

NoAnswer(c) ==
    /\ pc[c] = "ask" /\ "net" \in Faults
    /\ Return(c, "error")
    /\ UNCHANGED cache

\* Mutant: the TTL is not passed on.
SetForEver(c, v) ==
    cache' = [cache EXCEPT ![key[c]] = [val |-> v, left |-> 0, age |-> reply[c].age]]

\* Cache.Set, whose failure is only logged.
Set(c, v) ==
    \/ cache' = [cache EXCEPT ![key[c]] = [val |-> v, left |-> TTL, age |-> reply[c].age]]
    \/ "redis" \in Faults /\ UNCHANGED cache

Replied(c, k, statuses) == pc[c] = "reply" /\ key[c] = k /\ reply[c].status \in statuses

\* Any status but 2xx, 403 and 429 is taken for a missing repository, and is cached.
RepoExists(c) ==
    \/ Replied(c, "repo", {"403", "429"}) /\ Return(c, "rate limited") /\ UNCHANGED cache
    \/ Replied(c, "repo", {"2xx"}) /\ Set(c, TRUE) /\ Return(c, "exists")
    \/ Replied(c, "repo", {"404", "other"}) /\ Set(c, FALSE) /\ Return(c, "not found")

\* Only a release is cached; a 403 is the rate limit if its body says so.
LatestRelease(c) ==
    \/ Replied(c, "release", {"2xx"}) /\ Set(c, reply[c].val) /\ Return(c, "release")
    \/ Replied(c, "release", {"404"}) /\ Return(c, "not found") /\ UNCHANGED cache
    \/ Replied(c, "release", {"403", "429"}) /\ Return(c, "rate limited") /\ UNCHANGED cache
    \/ Replied(c, "release", {"403", "other"}) /\ Return(c, "error") /\ UNCHANGED cache

CallStep(c) ==
    Hit(c) \/ Miss(c) \/ Answered(c) \/ Refused(c) \/ NoAnswer(c) \/ RepoExists(c) \/ LatestRelease(c)

-----------------------------------------------------------------------------
(* The repository and the clock. *)

\* Releases are published and withdrawn, the repository is created, renamed or deleted.
Change ==
    /\ "change" \in Faults
    /\ there' \in BOOLEAN /\ latest' \in Tags \cup {None}
    /\ github' # github
    /\ UNCHANGED <<cache, call>>

\* Redis drops an entry when its TTL has run out.  (The age of one that never expires is
\* not counted any further: a bound of the model.)
Aged(e) ==
    IF e = None \/ e.left = 1 THEN None
    ELSE IF e.left = 0 THEN e
    ELSE [val |-> e.val, left |-> e.left - 1, age |-> e.age + 1]

\* Mutant: calls have no deadline.
TickAnyway ==
    /\ cache' = [k \in Keys |-> Aged(cache[k])]
    /\ reply' = [c \in Callers |-> IF reply[c] = None THEN None ELSE [reply[c] EXCEPT !.age = @ + 1]]
    /\ UNCHANGED <<github, pc, key, result>>

\* A call that has its answer ends in time (githubRequestTimeout, the timeouts of Redis).
Tick ==
    /\ \A c \in Callers : reply[c] # None => reply[c].age < CallTime
    /\ cache' = [k \in Keys |-> Aged(cache[k])]
    /\ reply' = [c \in Callers |-> IF reply[c] = None THEN None ELSE [reply[c] EXCEPT !.age = @ + 1]]
    /\ UNCHANGED <<github, pc, key, result>>

Next ==
    \/ \E c \in Callers : CallStep(c) \/ \E k \in Keys : Call(c, k)
    \/ Change \/ Tick

Spec == Init /\ [][Next]_vars

\* Calls go on; the repository and the statuses of GitHub settle in the end (an outage passes,
\* a token that was revoked is replaced).
FairSpec ==
    /\ Spec
    /\ \A c \in Callers : WF_vars(CallStep(c))
    /\ WF_vars(Tick)
    /\ <>[][~Change /\ \A c \in Callers : ~Refused(c)]_vars

-----------------------------------------------------------------------------
(* Properties. *)

\* However calls overtake each other, nothing the cache answers is older than the TTL and
\* the time of one call.  (A TTL of 0, which config.Load accepts, means no expiry.)
StaleBound ==
    \A k \in Keys : cache[k] # None => cache[k].age + cache[k].left <= TTL + CallTime /\ cache[k].left > 0

\* Once the repository stays as it is and GitHub answers with true statuses, the cache says
\* the truth for good: neither a stale write-back nor a cached failure outlives its TTL.
CacheCatchesUp ==
    <>[](/\ cache["repo"] # None => cache["repo"].val = there
         /\ cache["release"] # None => there /\ cache["release"].val = latest)

\* "repository not found on GitHub" (api/handler.go:28): as long as the repository does not
\* change, it is reported missing only when it is.
NotFoundIsMissing ==
    \A c \in Callers : key[c] = "repo" /\ result[c] = "not found" => ~there
=============================================================================
