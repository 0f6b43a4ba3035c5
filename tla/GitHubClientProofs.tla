------------------------- MODULE GitHubClientProofs -------------------------
(***************************************************************************)
(* How old an answer of the cache may be, and when a repository that is    *)
(* reported missing is missing, for every TTL and number of callers.       *)
(***************************************************************************)
EXTENDS GitHubClient, TLAPS

-----------------------------------------------------------------------------
(* The inductive invariants. *)

\* A call that has an answer is about to use it.
ReplyHeld == \A c \in Callers : pc[c] = "reply" => reply[c] \in Reply

TypeInv == TypeOK /\ ReplyHeld

CacheTyped == cache \in [Keys -> Entry \cup {None}]

Fresh(e) == e.age + e.left <= TTL + CallTime /\ e.left > 0

\* The statuses that tell of the repository what is so, or nothing.
Honest == {"403", "429", IF there THEN "2xx" ELSE "404"}

\* What is cached or on its way about the repository is true, unless it is a refusal.
TruthInv ==
    /\ cache["repo"] # None => cache["repo"].val = there
    /\ \A c \in Callers :
        pc[c] = "reply" /\ key[c] = "repo" =>
            reply[c].status \in Honest
    /\ NotFoundIsMissing

-----------------------------------------------------------------------------
(* Entries and answers. *)

\* An entry grows as old as its TTL shrinks.
LEMMA AgedFresh ==
    ASSUME NEW e \in Entry \cup {None}, Aged(e) # None, Fresh(e)
    PROVE  Aged(e) \in Entry /\ Fresh(Aged(e))
<1>1. e # None /\ e.left # 1
  BY DEF Aged
<1>2. e \in Entry /\ e.left # 0
  BY <1>1, TimeAssumption DEF Fresh, Entry
<1>3. Aged(e) = [val |-> e.val, left |-> e.left - 1, age |-> e.age + 1]
  BY <1>1, <1>2 DEF Aged
<1>4. e.left - 1 \in 0..TTL /\ e.age + 1 \in Nat /\ e.left - 1 > 0
  BY <1>1, <1>2, TimeAssumption DEF Entry
<1>5. Aged(e) \in Entry
  BY <1>2, <1>3, <1>4 DEF Entry
<1>6. (e.age + 1) + (e.left - 1) <= TTL + CallTime
  BY <1>2, TimeAssumption DEF Fresh, Entry
<1> QED
  BY <1>3, <1>4, <1>5, <1>6 DEF Fresh

LEMMA AgedType ==
    ASSUME NEW e \in Entry \cup {None}
    PROVE  Aged(e) \in Entry \cup {None}
<1>1. CASE e \in Entry /\ e.left # 0 /\ e # None /\ e.left # 1
  <2>1. Aged(e) = [val |-> e.val, left |-> e.left - 1, age |-> e.age + 1]
    BY <1>1 DEF Aged
  <2>2. e.left - 1 \in 0..TTL /\ e.age + 1 \in Nat
    BY <1>1, TimeAssumption DEF Entry
  <2> QED
    BY <1>1, <2>1, <2>2 DEF Entry
<1>2. CASE ~(e \in Entry /\ e.left # 0 /\ e # None /\ e.left # 1)
  BY <1>2 DEF Aged
<1> QED
  BY <1>1, <1>2

\* What a call writes to the cache starts with the whole TTL.
LEMMA SetEntry ==
    ASSUME TypeInv, NEW c \in Callers, pc[c] = "reply", NEW v \in Vals, Set(c, v)
    PROVE  \/ UNCHANGED cache
           \/ \E e \in Entry : /\ cache' = [cache EXCEPT ![key[c]] = e]
                               /\ e.val = v /\ e.left = TTL /\ e.age <= CallTime
<1> DEFINE e == [val |-> v, left |-> TTL, age |-> reply[c].age]
<1>1. reply[c].age \in 0..CallTime
  BY DEF TypeInv, ReplyHeld, Reply
<1>2. e \in Entry /\ e.val = v /\ e.left = TTL /\ e.age <= CallTime
  BY <1>1, TimeAssumption DEF Entry
<1>3. UNCHANGED cache \/ cache' = [cache EXCEPT ![key[c]] = e]
  BY DEF Set
<1> HIDE DEF e
<1> QED
  BY <1>2, <1>3

\* What an answered call does to the cache: nothing, or an entry for its key.
LEMMA RepliedEntry ==
    ASSUME TypeInv, NEW c \in Callers, RepoExists(c) \/ LatestRelease(c)
    PROVE  /\ pc[c] = "reply" /\ \E what \in Results : Return(c, what)
           /\ \/ UNCHANGED cache
              \/ \E e \in Entry : /\ cache' = [cache EXCEPT ![key[c]] = e]
                                  /\ e.left = TTL /\ e.age <= CallTime
<1>1. pc[c] = "reply" /\ \E what \in Results : Return(c, what)
  BY DEF RepoExists, LatestRelease, Replied, Results
<1>2. reply[c].val \in Vals
  BY <1>1 DEF TypeInv, ReplyHeld, Reply
<1>3. \/ UNCHANGED cache
      \/ \E v \in Vals : Set(c, v)
  BY <1>2 DEF RepoExists, LatestRelease, Vals
<1> QED
  BY <1>1, <1>3, SetEntry

\* GitHub's answers, true or refusals.
LEMMA Answers ==
    ASSUME TypeInv, NEW c \in Callers, Answered(c) \/ Refused(c)
    PROVE  /\ pc[c] = "ask" /\ pc' = [pc EXCEPT ![c] = "reply"]
           /\ UNCHANGED <<github, cache, key, result>>
           /\ \E r \in Reply : /\ reply' = [reply EXCEPT ![c] = r]
                               /\ r = Truth(key[c]) \/ r \in Refusals
<1>1. Truth(key[c]) \in Reply
  BY TimeAssumption DEF TypeInv, TypeOK, Truth, Reply, Keys, Vals
<1>2. Refusals \subseteq Reply
  BY TimeAssumption DEF Refusals, Reply, Vals
<1> QED
  BY <1>1, <1>2 DEF Answered, Refused, Goto

-----------------------------------------------------------------------------
(* Types. *)

LEMMA ReturnTyped ==
    ASSUME TypeInv, NEW c \in Callers, NEW what \in Results, Return(c, what), CacheTyped'
    PROVE  TypeInv'
<1>1. TypeOK'
  BY DEF TypeInv, TypeOK, CacheTyped, Return, Goto, github
<1>2. ReplyHeld'
  BY DEF TypeInv, TypeOK, ReplyHeld, Return, Goto
<1> QED
  BY <1>1, <1>2 DEF TypeInv

\* The clock ages entries and answers within their types.
LEMMA TickTyped == ASSUME TypeInv, Tick PROVE TypeInv'
<1>1. cache' = [k \in Keys |-> Aged(cache[k])] /\ UNCHANGED <<github, pc, key, result>>
  BY DEF Tick
<1>2. ASSUME NEW c \in Callers
      PROVE  reply'[c] \in Reply \cup {None} /\ (reply[c] \in Reply => reply'[c] \in Reply)
  <2>1. CASE reply[c] = None
    BY <2>1 DEF Tick, TypeInv, TypeOK
  <2>2. CASE reply[c] # None
    <3>1. reply[c] \in Reply /\ reply[c].age < CallTime
      BY <2>2 DEF Tick, TypeInv, TypeOK
    <3>2. reply'[c] = [reply[c] EXCEPT !.age = @ + 1]
      BY <2>2 DEF Tick
    <3> QED
      BY <3>1, <3>2, TimeAssumption DEF Reply
  <2> QED
    BY <2>1, <2>2
<1>3. CacheTyped'
  BY <1>1, AgedType DEF TypeInv, TypeOK, CacheTyped
<1>4. reply' \in [Callers -> Reply \cup {None}]
  BY <1>2 DEF Tick
<1>5. TypeOK'
  BY <1>1, <1>3, <1>4 DEF TypeInv, TypeOK, CacheTyped, github
<1>6. ReplyHeld'
  BY <1>1, <1>2 DEF TypeInv, ReplyHeld
<1> QED
  BY <1>5, <1>6 DEF TypeInv

LEMMA TypeStep == TypeInv /\ [Next]_vars => TypeInv'
<1> SUFFICES ASSUME TypeInv, [Next]_vars
             PROVE  TypeInv'
  OBVIOUS
<1>u. ASSUME UNCHANGED cache
      PROVE  CacheTyped'
  BY <1>u DEF TypeInv, TypeOK, CacheTyped
<1>1. CASE UNCHANGED vars
  BY <1>1 DEF TypeInv, TypeOK, ReplyHeld, vars, github, call
<1>2. ASSUME NEW c \in Callers, NEW k \in Keys, Call(c, k)
      PROVE  TypeInv'
  BY <1>2 DEF Call, Goto, github, TypeInv, TypeOK, ReplyHeld
<1>3. ASSUME NEW c \in Callers, Hit(c) \/ NoAnswer(c)
      PROVE  TypeInv'
  <2>1. UNCHANGED cache /\ \E what \in Results : Return(c, what)
    BY <1>3 DEF Hit, NoAnswer, Results
  <2> QED
    BY <1>u, <2>1, ReturnTyped
<1>4. ASSUME NEW c \in Callers, Miss(c)
      PROVE  TypeInv'
  BY <1>4 DEF Miss, Goto, github, TypeInv, TypeOK, ReplyHeld
<1>5. ASSUME NEW c \in Callers, Answered(c) \/ Refused(c)
      PROVE  TypeInv'
  <2>1. /\ pc' = [pc EXCEPT ![c] = "reply"] /\ UNCHANGED <<github, cache, key, result>>
        /\ \E r \in Reply : reply' = [reply EXCEPT ![c] = r]
    BY <1>5, Answers
  <2>2. TypeOK'
    BY <2>1 DEF TypeInv, TypeOK, github
  <2>3. ReplyHeld'
    BY <2>1 DEF TypeInv, TypeOK, ReplyHeld
  <2> QED
    BY <2>2, <2>3 DEF TypeInv
<1>6. ASSUME NEW c \in Callers, RepoExists(c) \/ LatestRelease(c)
      PROVE  TypeInv'
  <2>1. CacheTyped'
    BY <1>6, <1>u, RepliedEntry DEF TypeInv, TypeOK, CacheTyped
  <2> QED
    BY <1>6, <2>1, RepliedEntry, ReturnTyped
<1>7. CASE Change
  BY <1>7 DEF Change, call, TypeInv, TypeOK, ReplyHeld
<1> QED
  BY <1>1, <1>2, <1>3, <1>4, <1>5, <1>6, <1>7, TickTyped DEF Next, CallStep

\* Every state variable of the client keeps its type, whatever the TTL; what a goroutine
\* returns is one of the answers api/handler.go tells apart (client.go:44).
THEOREM TypeCorrect == Spec => []TypeOK
<1>1. Init => TypeInv
  BY DEF Init, TypeInv, TypeOK, ReplyHeld, Keys
<1>2. TypeInv => TypeOK
  BY DEF TypeInv
<1> QED
  BY <1>1, <1>2, TypeStep, PTL DEF Spec

-----------------------------------------------------------------------------
(* Staleness. *)

LEMMA BoundStep == TTL # 0 /\ TypeInv /\ StaleBound /\ [Next]_vars => StaleBound'
<1> SUFFICES ASSUME TTL # 0, TypeInv, StaleBound, [Next]_vars
             PROVE  StaleBound'
  OBVIOUS
<1>1. CASE UNCHANGED cache
  BY <1>1 DEF StaleBound
<1>2. ASSUME NEW c \in Callers, RepoExists(c) \/ LatestRelease(c)
      PROVE  StaleBound'
  <2>1. ASSUME NEW e \in Entry, cache' = [cache EXCEPT ![key[c]] = e], e.left = TTL, e.age <= CallTime
        PROVE  StaleBound'
    <3>1. Fresh(e)
      BY <2>1, TimeAssumption DEF Entry, Fresh
    <3>2. \A k \in Keys : cache'[k] = e \/ cache'[k] = cache[k]
      BY <2>1 DEF TypeInv, TypeOK
    <3> QED
      BY <3>1, <3>2 DEF StaleBound, Fresh
  <2> QED
    BY <1>1, <1>2, <2>1, RepliedEntry
<1>3. CASE Tick
  <2> SUFFICES ASSUME NEW k \in Keys, cache'[k] # None
               PROVE  Fresh(cache'[k])
    BY DEF StaleBound, Fresh
  <2>1. cache'[k] = Aged(cache[k])
    BY <1>3 DEF Tick
  <2>2. cache[k] # None
    BY <2>1 DEF Aged
  <2>3. Fresh(cache[k])
    BY <2>2 DEF StaleBound, Fresh
  <2> QED
    BY <2>1, <2>3, AgedFresh DEF TypeInv, TypeOK
<1>4. ASSUME NEW c \in Callers, Hit(c) \/ Miss(c) \/ Answered(c) \/ Refused(c) \/ NoAnswer(c)
      PROVE  UNCHANGED cache
  BY <1>4 DEF Hit, Miss, Answered, Refused, NoAnswer
<1>5. ASSUME NEW c \in Callers, NEW k \in Keys, Call(c, k)
      PROVE  UNCHANGED cache
  BY <1>5 DEF Call
<1>6. Change \/ UNCHANGED vars => UNCHANGED cache
  BY DEF Change, vars
<1> QED
  BY <1>1, <1>2, <1>3, <1>4, <1>5, <1>6 DEF Next, CallStep

\* With a TTL that is not 0 the cache never answers with what GitHub said longer ago than
\* the TTL and the time of one call, whichever calls overtake each other (client.go:90).
THEOREM BoundedStaleness == ASSUME TTL # 0 PROVE Spec => []StaleBound
<1> DEFINE Inv == TypeInv /\ StaleBound
<1>1. Init => Inv
  BY DEF Init, TypeInv, TypeOK, ReplyHeld, StaleBound, Keys
<1>2. Inv /\ [Next]_vars => Inv'
  BY TypeStep, BoundStep
<1> QED
  BY <1>1, <1>2, PTL DEF Spec

-----------------------------------------------------------------------------
(* Missing repositories. *)

\* With no refusal but the rate limit an answer about the repository is the truth or 403, 429.
LEMMA TrueStatus ==
    ASSUME Faults \cap {"other", "change"} = {}, NEW r, r = Truth("repo") \/ r \in Refusals
    PROVE  r.status \in Honest
BY DEF Truth, Refusals, Honest

LEMMA TruthStep ==
    ASSUME Faults \cap {"other", "change"} = {}, TypeInv, TruthInv, [Next]_vars
    PROVE  TruthInv'
<1> USE DEF Keys
<1>0. there' = there
  BY DEF Next, CallStep, Call, Hit, Miss, Answered, Refused, NoAnswer, RepoExists, LatestRelease,
         Return, Change, Tick, github, vars
<1>h. Honest' = Honest
  BY <1>0 DEF Honest
<1>u. ASSUME cache'["repo"] \in {None, cache["repo"]}
      PROVE  cache'["repo"] # None => cache'["repo"].val = there'
  BY <1>0, <1>u DEF TruthInv
<1>r. ASSUME NEW c \in Callers, NEW what, Return(c, what),
             cache'["repo"] # None => cache'["repo"].val = there',
             key[c] = "repo" /\ what = "not found" => ~there
      PROVE  TruthInv'
  <2>1. /\ pc' = [pc EXCEPT ![c] = "done"] /\ result' = [result EXCEPT ![c] = what]
        /\ reply' = [reply EXCEPT ![c] = None] /\ key' = key
    BY <1>r DEF Return, Goto
  <2>2. ASSUME NEW d \in Callers, pc'[d] = "reply"
        PROVE  d # c /\ pc[d] = "reply" /\ reply'[d] = reply[d]
    BY <2>1, <2>2 DEF TypeInv, TypeOK
  <2>3. NotFoundIsMissing'
    BY <1>0, <1>r, <2>1 DEF TypeInv, TypeOK, TruthInv, NotFoundIsMissing
  <2>4. ASSUME NEW d \in Callers, pc'[d] = "reply", key'[d] = "repo"
        PROVE  reply'[d].status \in Honest
    BY <2>1, <2>2, <2>4 DEF TruthInv
  <2>5. cache'["repo"] # None => cache'["repo"].val = there'
    BY <1>r
  <2> QED
    BY <1>h, <2>3, <2>4, <2>5 DEF TruthInv
<1>1. CASE UNCHANGED vars
  BY <1>h, <1>1 DEF vars, github, call, TruthInv, NotFoundIsMissing
<1>2. ASSUME NEW c \in Callers, NEW k \in Keys, Call(c, k)
      PROVE  TruthInv'
  <2>1. /\ pc' = [pc EXCEPT ![c] = "get"] /\ key' = [key EXCEPT ![c] = k]
        /\ result' = [result EXCEPT ![c] = None] /\ UNCHANGED <<cache, reply>>
    BY <1>2 DEF Call, Goto
  <2>2. ASSUME NEW d \in Callers, pc'[d] = "reply"
        PROVE  d # c /\ pc[d] = "reply" /\ key'[d] = key[d]
    BY <2>1, <2>2 DEF TypeInv, TypeOK
  <2>3. NotFoundIsMissing'
    BY <1>0, <2>1, NoneAssumption DEF TypeInv, TypeOK, TruthInv, NotFoundIsMissing
  <2> QED
    BY <1>h, <1>u, <2>1, <2>2, <2>3 DEF TruthInv
<1>3. ASSUME NEW c \in Callers, Hit(c)
      PROVE  TruthInv'
  <2> DEFINE what == IF key[c] = "release" THEN "release"
                     ELSE IF cache["repo"].val THEN "exists" ELSE "not found"
  <2>1. Return(c, what) /\ (key[c] = "repo" => cache["repo"] # None)
    BY <1>3 DEF Hit
  <2>2. cache' = cache
    BY <1>3 DEF Hit
  <2> QED
    <3>1. key[c] = "repo" /\ what = "not found" => ~cache["repo"].val
      OBVIOUS
    <3>2. key[c] = "repo" /\ what = "not found" => ~there
      BY <2>1, <3>1 DEF TruthInv
    <3>3. cache'["repo"] # None => cache'["repo"].val = there'
      BY <1>u, <2>2
    <3> HIDE DEF what
    <3> QED
      BY <1>r, <2>1, <3>2, <3>3
<1>4. ASSUME NEW c \in Callers, Miss(c)
      PROVE  TruthInv'
  <2>1. pc' = [pc EXCEPT ![c] = "ask"] /\ UNCHANGED <<cache, key, reply, result>>
    BY <1>4 DEF Miss, Goto
  <2>2. ASSUME NEW d \in Callers, pc'[d] = "reply"
        PROVE  pc[d] = "reply"
    BY <2>1, <2>2 DEF TypeInv, TypeOK
  <2>3. NotFoundIsMissing'
    BY <1>0, <2>1 DEF TruthInv, NotFoundIsMissing
  <2> QED
    BY <1>h, <1>u, <2>1, <2>2, <2>3 DEF TruthInv
<1>5. ASSUME NEW c \in Callers, Answered(c) \/ Refused(c)
      PROVE  TruthInv'
  <2>1. PICK r \in Reply : reply' = [reply EXCEPT ![c] = r] /\ (r = Truth(key[c]) \/ r \in Refusals)
    BY <1>5, Answers
  <2>2. pc' = [pc EXCEPT ![c] = "reply"] /\ UNCHANGED <<github, cache, key, result>>
    BY <1>5, Answers
  <2>3. key[c] = "repo" => r.status \in Honest
    BY <2>1, TrueStatus
  <2> QED
    <3>1. ASSUME NEW d \in Callers, pc'[d] = "reply", key'[d] = "repo"
          PROVE  reply'[d].status \in Honest
      BY <2>1, <2>2, <2>3, <3>1 DEF TypeInv, TypeOK, TruthInv
    <3>2. NotFoundIsMissing'
      BY <1>0, <2>2 DEF TruthInv, NotFoundIsMissing
    <3> QED
      BY <1>h, <1>u, <2>2, <3>1, <3>2 DEF TruthInv
<1>6. ASSUME NEW c \in Callers, NoAnswer(c)
      PROVE  TruthInv'
  BY <1>6, <1>u, <1>r DEF NoAnswer
<1>7. ASSUME NEW c \in Callers, RepoExists(c)
      PROVE  TruthInv'
  <2>1. pc[c] = "reply" /\ key[c] = "repo"
    BY <1>7 DEF RepoExists, Replied
  <2>2. reply[c].status \in Honest
    BY <2>1 DEF TruthInv
  <2>3. ASSUME NEW v \in BOOLEAN, Set(c, v), v = there
        PROVE  cache'["repo"] # None => cache'["repo"].val = there'
    <3>1. \/ UNCHANGED cache
          \/ \E e \in Entry : cache' = [cache EXCEPT ![key[c]] = e] /\ e.val = v
      BY <2>1, <2>3, SetEntry DEF Vals
    <3> QED
      BY <1>0, <1>u, <2>1, <2>3, <3>1 DEF TypeInv, TypeOK
  <2>4. CASE Return(c, "rate limited") /\ UNCHANGED cache
    BY <1>u, <1>r, <2>4
  <2>5. CASE Replied(c, "repo", {"2xx"}) /\ Set(c, TRUE) /\ Return(c, "exists")
    <3>1. there
      BY <2>2, <2>5 DEF Replied, Honest
    <3>2. there = TRUE
      BY <3>1 DEF TypeInv, TypeOK
    <3> QED
      BY <1>r, <2>3, <2>5, <3>2
  <2>6. CASE Replied(c, "repo", {"404", "other"}) /\ Set(c, FALSE) /\ Return(c, "not found")
    <3>1. ~there
      BY <2>2, <2>6 DEF Replied, Honest
    <3>2. there = FALSE
      BY <3>1 DEF TypeInv, TypeOK
    <3> QED
      BY <1>r, <2>3, <2>6, <3>1, <3>2
  <2> QED
    BY <1>7, <2>4, <2>5, <2>6 DEF RepoExists
<1>8. ASSUME NEW c \in Callers, LatestRelease(c)
      PROVE  TruthInv'
  <2>1. key[c] = "release" /\ pc[c] = "reply" /\ \E what : Return(c, what)
    BY <1>8 DEF LatestRelease, Replied
  <2>2. cache'["repo"] = cache["repo"]
    BY <1>8, <2>1, RepliedEntry DEF TypeInv, TypeOK
  <2> QED
    BY <1>u, <1>r, <2>1, <2>2
<1>9. CASE Tick
  <2>1. cache'["repo"] = Aged(cache["repo"]) /\ UNCHANGED <<github, pc, key, result>>
    BY <1>9 DEF Tick
  <2>2. cache'["repo"] # None => cache'["repo"].val = there'
    BY <1>0, <2>1 DEF Aged, TruthInv
  <2>3. ASSUME NEW c \in Callers, pc[c] = "reply", key[c] = "repo"
        PROVE  reply'[c].status \in Honest
    <3>1. reply[c] \in Reply /\ reply[c].status \in Honest
      BY <2>3 DEF TypeInv, ReplyHeld, TruthInv
    <3>2. CASE reply[c] = None
      BY <1>9, <3>1, <3>2 DEF Tick
    <3>3. CASE reply[c] # None
      BY <1>9, <3>1, <3>3 DEF Tick, Reply
    <3> QED
      BY <3>2, <3>3
  <2> QED
    BY <1>0, <1>h, <2>1, <2>2, <2>3 DEF TruthInv, NotFoundIsMissing
<1>10. ~Change
  BY DEF Change
<1> QED
  BY <1>1, <1>2, <1>3, <1>4, <1>5, <1>6, <1>7, <1>8, <1>9, <1>10 DEF Next, CallStep

\* What the run GitHubMissing refutes holds once its cause is taken away: while GitHub answers
\* with no status but 2xx, 403, 404 and 429 (no 5xx, no 401 of a revoked token) and the
\* repository stays as it is, RepoExists reports it missing only when it is, whatever the
\* cache, the rate limit and the network do (client.go:67).
THEOREM MissingIsMissing ==
    ASSUME Faults \cap {"other", "change"} = {}
    PROVE  Spec => []NotFoundIsMissing
<1> DEFINE Inv == TypeInv /\ TruthInv
<1>1. Init => Inv
  BY NoneAssumption DEF Init, TypeInv, TypeOK, ReplyHeld, TruthInv, NotFoundIsMissing, Keys
<1>2. Inv /\ [Next]_vars => Inv'
  BY TypeStep, TruthStep
<1>3. Inv => NotFoundIsMissing
  BY DEF TruthInv
<1> QED
  BY <1>1, <1>2, <1>3, PTL DEF Spec
=============================================================================
