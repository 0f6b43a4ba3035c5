------------------------ MODULE SubscriptionsOutbox ------------------------
(***************************************************************************)
(* Every step of the service is a step of Outbox or changes none of its    *)
(* variables, for every number of calls, workers and places in the queue   *)
(* and for every choice of faults.                                         *)
(***************************************************************************)
EXTENDS SubscriptionsProofs

-----------------------------------------------------------------------------
(* The queue as the set of its jobs.                                                      *)

In(q, s) == \E n \in 1..Len(s) : s[n] = q
Once(s) == \A m, n \in 1..Len(s) : s[m] = s[n] => m = n

LEMMA AppendJob ==
    ASSUME NEW S, NEW s \in Seq(S), NEW q \in S
    PROVE  /\ \A p : In(p, Append(s, q)) <=> p = q \/ In(p, s)
           /\ Once(s) /\ ~In(q, s) => Once(Append(s, q))
<1>1. /\ Len(Append(s, q)) = Len(s) + 1 /\ Append(s, q)[Len(s) + 1] = q
      /\ \A n \in 1..Len(s) : Append(s, q)[n] = s[n]
      /\ Len(s) \in Nat
  OBVIOUS
<1>2. \A n : n \in 1..Len(s) + 1 <=> n \in 1..Len(s) \/ n = Len(s) + 1
  BY <1>1
<1> DEFINE t == Append(s, q)
<1>3. Len(t) = Len(s) + 1 /\ t[Len(s) + 1] = q /\ \A n \in 1..Len(s) : t[n] = s[n]
  BY <1>1
<1> HIDE DEF t
<1>4. ASSUME NEW p PROVE In(p, t) <=> p = q \/ In(p, s)
  BY <1>1, <1>2, <1>3 DEF In
<1>5. Once(s) /\ ~In(q, s) => Once(t)
  BY <1>2, <1>3 DEF In, Once
<1> QED
  BY <1>4, <1>5 DEF t

LEMMA TakeJob ==
    ASSUME NEW S, NEW s \in Seq(S), s # <<>>
    PROVE  /\ \A p : In(p, s) <=> p = Head(s) \/ In(p, Tail(s))
           /\ Once(s) => Once(Tail(s)) /\ ~In(Head(s), Tail(s))
<1> DEFINE t == Tail(s)
<1>1. /\ Len(s) \in Nat \ {0} /\ Len(t) = Len(s) - 1 /\ Head(s) = s[1]
      /\ \A n \in 1..Len(s) - 1 : t[n] = s[n + 1]
  OBVIOUS
<1> HIDE DEF t
<1>2. ASSUME NEW p PROVE In(p, s) <=> p = Head(s) \/ In(p, t)
  <2>1. ASSUME NEW n \in 1..Len(s), s[n] = p PROVE p = Head(s) \/ In(p, t)
    <3>1. CASE n = 1
      BY <1>1, <2>1, <3>1
    <3>2. CASE n # 1
      <4>1. n - 1 \in 1..Len(t) /\ t[n - 1] = p
        BY <1>1, <2>1, <3>2
      <4> QED
        BY <4>1 DEF In
    <3> QED
      BY <3>1, <3>2
  <2>2. p = Head(s) => In(p, s)
    <3>1. 1 \in 1..Len(s)
      BY <1>1
    <3> QED
      BY <1>1, <3>1 DEF In
  <2>3. ASSUME NEW n \in 1..Len(t), t[n] = p PROVE In(p, s)
    <3>1. n + 1 \in 1..Len(s) /\ s[n + 1] = p
      BY <1>1, <2>3
    <3> QED
      BY <3>1 DEF In
  <2> QED
    BY <2>1, <2>2, <2>3 DEF In
<1>3. ASSUME Once(s) PROVE Once(t) /\ ~In(Head(s), t)
  <2>1. ASSUME NEW m \in 1..Len(t), NEW n \in 1..Len(t), t[m] = t[n] PROVE m = n
    <3>1. m + 1 \in 1..Len(s) /\ n + 1 \in 1..Len(s) /\ s[m + 1] = s[n + 1]
      BY <1>1, <2>1
    <3>2. m + 1 = n + 1
      BY <1>3, <3>1 DEF Once
    <3> QED
      BY <1>1, <3>2
  <2>2. ASSUME NEW n \in 1..Len(t), t[n] = Head(s) PROVE FALSE
    <3>1. n + 1 \in 1..Len(s) /\ 1 \in 1..Len(s) /\ s[n + 1] = s[1]
      BY <1>1, <2>2
    <3>2. n + 1 = 1
      BY <1>3, <3>1 DEF Once
    <3> QED
      BY <1>1, <3>2
  <2> QED
    BY <2>1, <2>2 DEF Once, In
<1> QED
  BY <1>2, <1>3 DEF t

-----------------------------------------------------------------------------
(* Where a mail is, it is once, and its call has gone past the place before.              *)

Sending(q) == \E w \in Workers : job[w] = q

\* A call that is not done has its mail nowhere; one whose mail waits or is being sent was
\* answered OK; no mail is in two places.
OutboxInv ==
    /\ \A q \in Requests : spc[q] # "done" =>
           answer[q] = "none" /\ q \notin attempted /\ ~In(q, mailQ) /\ ~Sending(q)
    /\ \A q \in Requests : spc[q] \in {"enqueue", "inline"} => row[q] # "none"
    /\ \A q \in Requests : In(q, mailQ) \/ Sending(q) =>
           row[q] # "none" /\ answer[q] = "ok" /\ q \notin attempted
    /\ Once(mailQ)
    /\ \A w \in Workers : job[w] # None =>
           ~In(job[w], mailQ) /\ \A v \in Workers : job[v] = job[w] => v = w

\* A step of the outbox, or one it does not see.
BoxStep == [Box!Next]_(Box!vars)

\* The mails that wait, with the queue as a set.
LEMMA OwedIs ==
    /\ Owed = {q \in Requests : spc[q] \in {"enqueue", "inline"} \/ In(q, mailQ) \/ Sending(q)}
    /\ Owed' = {q \in Requests : spc'[q] \in {"enqueue", "inline"} \/ In(q, mailQ') \/ Sending(q)'}
BY DEF Owed, In, Sending

LEMMA Unseen ==
    ASSUME Owed' = Owed, attempted' = attempted, Forgotten' = Forgotten, stopping' = stopping
    PROVE  BoxStep
BY DEF BoxStep, Box!vars

LEMMA AttemptStep ==
    ASSUME NEW q \in Requests, q \in Owed, Owed' = Owed \ {q}, attempted' = attempted \cup {q},
           Forgotten' = Forgotten, stopping' = stopping
    PROVE  BoxStep
BY DEF BoxStep, Box!Next, Box!Attempt

\* What the steps of Subscribe do.
LEMMA SubscribeOutbox ==
    ASSUME TypeInv, SuccessInv, OutboxInv, NEW q \in Requests, SubscribeStep(q) \/ InlineSend(q)
    PROVE  OutboxInv' /\ BoxStep
<1>0. /\ row \in [Requests -> {"none", "pending", "confirmed", "deleted"}]
      /\ spc \in [Requests -> {"new", "create", "enqueue", "inline", "done"}]
      /\ answer \in [Requests -> {"none", "ok", "rejected", "conflict", "error", "reset"}]
      /\ mailQ \in Seq(Requests) /\ attempted \subseteq Requests
      /\ spc[q] \in {"new", "create"} => row[q] = "none"
  BY DEF TypeInv, TypeOK, SuccessInv, FreshRow
<1>1. /\ spc[q] # "done" => answer[q] = "none" /\ q \notin attempted /\ ~In(q, mailQ) /\ ~Sending(q)
      /\ spc[q] \in {"enqueue", "inline"} => row[q] # "none"
  BY DEF OutboxInv
<1>2. CASE CheckRepo(q) \/ CreateConflict(q) \/ CreateFails(q) \/ QueueFull(q)
  <2>1. /\ mailQ' = mailQ /\ job' = job /\ attempted' = attempted /\ stopping' = stopping
        /\ spc[q] # "done"
        /\ \A p \in Requests \ {q} : spc'[p] = spc[p] /\ answer'[p] = answer[p] /\ row'[p] = row[p]
        /\ \/ spc'[q] = "create" /\ answer'[q] = answer[q] /\ row'[q] = row[q]
              /\ spc[q] = "new"
           \/ spc'[q] = "done" /\ answer'[q] \in {"rejected", "conflict", "error"}
              /\ spc[q] \in {"new", "create"}
           \/ spc'[q] = "inline" /\ answer'[q] = answer[q] /\ row'[q] = row[q]
              /\ spc[q] = "enqueue"
    BY <1>0, <1>2 DEF CheckRepo, CreateConflict, CreateFails, QueueFull, Answer, mail
  <2>2. \A p : (In(p, mailQ') <=> In(p, mailQ)) /\ (Sending(p)' <=> Sending(p))
    BY <2>1 DEF In, Sending
  <2>3. OutboxInv'
    BY <1>1, <2>1, <2>2 DEF OutboxInv, In, Once, Sending
  <2>4. Owed' = Owed
    BY <2>1, <2>2, OwedIs
  <2>5. Forgotten' = Forgotten
    BY <1>0, <1>1, <2>1, <2>4 DEF Forgotten
  <2> QED
    BY <2>1, <2>3, <2>4, <2>5, Unseen
<1>3. CASE Create(q)
  <2>1. /\ mailQ' = mailQ /\ job' = job /\ attempted' = attempted /\ stopping' = stopping
        /\ spc[q] = "create" /\ answer' = answer
        /\ \A p \in Requests \ {q} : spc'[p] = spc[p] /\ row'[p] = row[p]
        /\ spc'[q] = "enqueue" /\ row'[q] = "pending"
    BY <1>0, <1>3 DEF Create, mail
  <2>2. \A p : (In(p, mailQ') <=> In(p, mailQ)) /\ (Sending(p)' <=> Sending(p))
    BY <2>1 DEF In, Sending
  <2>3. OutboxInv'
    BY <1>1, <2>1, <2>2 DEF OutboxInv, In, Once, Sending
  <2>4. Owed' = Owed \cup {q} /\ q \notin Owed
    BY <1>1, <2>1, <2>2, OwedIs
  <2>5. Forgotten' = Forgotten /\ q \notin Forgotten
    BY <1>0, <1>1, <2>1, <2>4 DEF Forgotten
  <2>6. Box!Accept(q)
    BY <1>1, <2>1, <2>4, <2>5 DEF Box!Accept
  <2> QED
    BY <2>3, <2>6 DEF BoxStep, Box!Next
<1>4. CASE Enqueue(q)
  <2>1. /\ mailQ' = Append(mailQ, q) /\ job' = job /\ attempted' = attempted /\ stopping' = stopping
        /\ spc[q] = "enqueue" /\ row' = row
        /\ \A p \in Requests \ {q} : spc'[p] = spc[p] /\ answer'[p] = answer[p]
        /\ spc'[q] = "done" /\ answer'[q] = "ok"
    BY <1>0, <1>4 DEF Enqueue, Answer
  <2>2. \A p : (In(p, mailQ') <=> p = q \/ In(p, mailQ)) /\ (Sending(p)' <=> Sending(p))
    BY <1>0, <2>1, AppendJob DEF Sending, In
  <2>3. Once(mailQ')
    <3>1. Once(mailQ) /\ ~In(q, mailQ)
      BY <1>1, <2>1 DEF OutboxInv
    <3> QED
      BY <1>0, <2>1, <3>1, AppendJob DEF Once
  <2>4. OutboxInv'
    <3>1. \A w \in Workers : job[w] # q
      BY <1>1, <2>1 DEF Sending
    <3> QED
      BY <1>1, <2>1, <2>2, <2>3, <3>1 DEF OutboxInv
  <2>5. Owed' = Owed
    BY <2>1, <2>2, OwedIs
  <2>6. q \in Owed
    BY <2>1, OwedIs
  <2>7. Forgotten' = Forgotten
    BY <2>1, <2>5, <2>6 DEF Forgotten
  <2> QED
    BY <2>1, <2>4, <2>5, <2>7, Unseen
<1>5. CASE InlineSend(q)
  <2>1. /\ mailQ' = mailQ /\ job' = job /\ attempted' = attempted \cup {q} /\ stopping' = stopping
        /\ spc[q] = "inline" /\ row' = row
        /\ \A p \in Requests \ {q} : spc'[p] = spc[p] /\ answer'[p] = answer[p]
        /\ spc'[q] = "done" /\ answer'[q] = "ok"
    BY <1>0, <1>5 DEF InlineSend, Send, Answer
  <2>2. \A p : (In(p, mailQ') <=> In(p, mailQ)) /\ (Sending(p)' <=> Sending(p))
    BY <2>1 DEF In, Sending
  <2>3. OutboxInv'
    BY <1>1, <2>1, <2>2 DEF OutboxInv, In, Once, Sending
  <2>4. Owed' = Owed \ {q} /\ q \in Owed
    BY <1>1, <2>1, <2>2, OwedIs
  <2>5. Forgotten' = Forgotten
    BY <2>1, <2>4 DEF Forgotten
  <2> QED
    BY <2>1, <2>3, <2>4, <2>5, AttemptStep
<1> QED
  BY <1>2, <1>3, <1>4, <1>5 DEF SubscribeStep

LEMMA WorkerOutbox ==
    ASSUME TypeInv, OutboxInv, NEW w \in Workers, Take(w) \/ WorkerSend(w)
    PROVE  OutboxInv' /\ BoxStep
<1>0. /\ mailQ \in Seq(Requests) /\ attempted \subseteq Requests
      /\ job \in [Workers -> Requests \cup {None}]
  BY DEF TypeInv, TypeOK
<1>1. CASE Take(w)
  <2> DEFINE q == Head(mailQ)
  <2>1. /\ mailQ' = Tail(mailQ) /\ mailQ # <<>> /\ job[w] = None /\ job' = [job EXCEPT ![w] = q]
        /\ UNCHANGED <<row, spc, answer, attempted, stopping>>
    BY <1>1 DEF Take, subscribe
  <2>2. q \in Requests /\ q # None
    BY <1>0, <2>1, NoneAssumption
  <2>3. /\ \A p : In(p, mailQ) <=> p = q \/ In(p, mailQ')
        /\ Once(mailQ') /\ ~In(q, mailQ')
    <3>1. Once(mailQ)
      BY DEF OutboxInv
    <3>2. /\ \A p : In(p, mailQ) <=> p = q \/ In(p, Tail(mailQ))
          /\ Once(Tail(mailQ)) /\ ~In(q, Tail(mailQ))
      BY <1>0, <2>1, <3>1, TakeJob
    <3> QED
      BY <2>1, <3>2 DEF In, Once
  <2> HIDE DEF q
  <2>4. \A p \in Requests : Sending(p)' <=> p = q \/ Sending(p)
    BY <1>0, <2>1, <2>2, NoneAssumption DEF Sending
  <2>5. \A v \in Workers : job[v] # q
    <3>1. In(q, mailQ)
      BY <2>3
    <3>2. \A v \in Workers : job[v] # None => ~In(job[v], mailQ)
      BY DEF OutboxInv
    <3> QED
      BY <2>2, <3>1, <3>2
  <2>6. OutboxInv'
    <3>1. \A v \in Workers : job'[v] # None =>
              ~In(job'[v], mailQ') /\ \A u \in Workers : job'[u] = job'[v] => u = v
      <4>0. SUFFICES ASSUME NEW v \in Workers, job'[v] # None
                     PROVE  ~In(job'[v], mailQ') /\ \A u \in Workers : job'[u] = job'[v] => u = v
        OBVIOUS
      <4>1. CASE v = w
        <5>1. job'[v] = q /\ \A u \in Workers : u # w => job'[u] = job[u]
          BY <1>0, <2>1, <4>1
        <5> QED
          BY <2>3, <2>5, <4>1, <5>1
      <4>2. CASE v # w
        <5>1. job'[v] = job[v] /\ job'[w] = q /\ \A u \in Workers : u # w => job'[u] = job[u]
          BY <1>0, <2>1, <4>2
        <5>2. ~In(job[v], mailQ) /\ \A u \in Workers : job[u] = job[v] => u = v
          BY <4>0, <4>2, <5>1 DEF OutboxInv
        <5> QED
          BY <2>3, <2>5, <4>2, <5>1, <5>2
      <4> QED
        BY <4>1, <4>2
    <3>2. \A p \in Requests : In(p, mailQ') \/ Sending(p)' <=> In(p, mailQ) \/ Sending(p)
      BY <2>3, <2>4
    <3> QED
      BY <2>1, <2>3, <3>1, <3>2 DEF OutboxInv
  <2>7. Owed' = Owed
    BY <2>1, <2>3, <2>4, OwedIs
  <2>8. Forgotten' = Forgotten
    BY <2>1, <2>7 DEF Forgotten
  <2> QED
    BY <2>1, <2>6, <2>7, <2>8, Unseen
<1>2. CASE WorkerSend(w)
  <2> DEFINE q == job[w]
  <2>1. /\ q # None /\ job' = [job EXCEPT ![w] = None] /\ attempted' = attempted \cup {q}
        /\ UNCHANGED <<row, spc, answer, mailQ, stopping>>
    BY <1>2 DEF WorkerSend, Send, subscribe
  <2>2. q \in Requests
    BY <1>0, <2>1
  <2>3. ~In(q, mailQ) /\ \A v \in Workers : job[v] = q => v = w
    BY <2>1 DEF OutboxInv
  <2>4. Sending(q)
    BY DEF Sending
  <2> HIDE DEF q
  <2>5. \A p \in Requests : Sending(p)' <=> Sending(p) /\ p # q
    <3>1. ASSUME NEW p \in Requests PROVE Sending(p)' <=> Sending(p) /\ p # q
      <4>1. p # None
        BY NoneAssumption
      <4>2. \A v \in Workers : job'[v] = IF v = w THEN None ELSE job[v]
        BY <1>0, <2>1
      <4>3. job[w] = q
        BY DEF q
      <4> QED
        BY <2>3, <4>1, <4>2, <4>3 DEF Sending
    <3> QED
      BY <3>1
  <2>6. \A p : In(p, mailQ') <=> In(p, mailQ)
    BY <2>1 DEF In
  <2>7. row[q] # "none" /\ answer[q] = "ok" /\ spc[q] = "done"
    BY <2>2, <2>4 DEF OutboxInv
  <2>8. OutboxInv'
    <3>1. \A v \in Workers : job'[v] # None => v # w /\ job'[v] = job[v]
      BY <1>0, <2>1
    <3>2. \A v, u \in Workers : job'[v] # None /\ job'[u] = job'[v] => u = v
      BY <3>1 DEF OutboxInv
    <3> QED
      BY <2>1, <2>2, <2>3, <2>5, <2>6, <2>7, <3>1, <3>2 DEF OutboxInv, Once
  <2>9. Owed' = Owed \ {q} /\ q \in Owed
    BY <2>1, <2>2, <2>3, <2>4, <2>5, <2>6, <2>7, OwedIs
  <2>10. Forgotten' = Forgotten
    BY <2>1, <2>9 DEF Forgotten
  <2> QED
    BY <2>1, <2>2, <2>8, <2>9, <2>10, AttemptStep
<1> QED
  BY <1>1, <1>2

\* The end of a process forgets what it owed.
LEMMA ExitOutbox ==
    ASSUME TypeInv, SuccessInv, OutboxInv, Exit
    PROVE  OutboxInv' /\ BoxStep
<1>0. /\ spc \in [Requests -> {"new", "create", "enqueue", "inline", "done"}]
      /\ answer \in [Requests -> {"none", "ok", "rejected", "conflict", "error", "reset"}]
      /\ \A q \in Requests : spc[q] \in {"new", "create"} => row[q] = "none"
  BY DEF TypeInv, TypeOK, SuccessInv, FreshRow
<1>1. /\ stopping \/ "kill" \in Faults
      /\ stopping' = FALSE /\ mailQ' = <<>> /\ job' = [w \in Workers |-> None]
      /\ UNCHANGED <<row, attempted>>
      /\ spc' = [q \in Requests |-> IF InFlight(q) THEN "done" ELSE spc[q]]
      /\ answer' = [q \in Requests |-> IF InFlight(q) THEN "reset" ELSE answer[q]]
  BY DEF Exit
<1>2. \A q \in Requests : spc'[q] \in {"new", "done"} /\ (spc'[q] = "new" <=> spc[q] = "new")
  BY <1>0, <1>1 DEF InFlight
<1>3. \A q : ~In(q, mailQ')
  BY <1>1 DEF In
<1>4. \A q \in Requests : ~Sending(q)'
  BY <1>1, NoneAssumption DEF Sending
<1>5. Once(mailQ') /\ \A w \in Workers : job'[w] = None
  BY <1>1 DEF Once
<1>6. \A q \in Requests : spc'[q] = "new" => answer'[q] = "none" /\ q \notin attempted
  BY <1>1, <1>2 DEF OutboxInv, InFlight
<1>7. OutboxInv'
  BY <1>1, <1>2, <1>3, <1>4, <1>5, <1>6 DEF OutboxInv
<1>8. Owed' = {}
  BY <1>2, <1>3, <1>4, OwedIs
<1>9. Forgotten' = Forgotten \cup Owed
  <2>1. ASSUME NEW q \in Requests
        PROVE  q \in Forgotten' <=> q \in Forgotten \/ q \in Owed
    <3>1. q \in Forgotten' <=> row[q] # "none" /\ answer'[q] \in {"ok", "reset"} /\ q \notin attempted
      BY <1>1, <1>8 DEF Forgotten
    <3>2. CASE spc[q] \in {"new", "create"}
      <4>1. row[q] = "none" /\ q \notin Owed
        BY <1>0, <3>2, OwedIs DEF OutboxInv
      <4> QED
        BY <3>1, <4>1 DEF Forgotten
    <3>3. CASE spc[q] \in {"enqueue", "inline"}
      <4>1. row[q] # "none" /\ answer'[q] = "reset" /\ q \notin attempted /\ q \in Owed
        BY <1>1, <3>3, OwedIs DEF OutboxInv, InFlight
      <4> QED
        BY <3>1, <4>1
    <3>4. CASE spc[q] = "done"
      <4>1. answer'[q] = answer[q]
        BY <1>1, <3>4 DEF InFlight
      <4>2. q \in Owed => row[q] # "none" /\ answer[q] = "ok" /\ q \notin attempted
        BY <3>4, OwedIs DEF OutboxInv
      <4> QED
        BY <3>1, <4>1, <4>2 DEF Forgotten
    <3> QED
      BY <1>0, <3>2, <3>3, <3>4
  <2>2. Forgotten' \subseteq Requests /\ Forgotten \subseteq Requests /\ Owed \subseteq Requests
    BY OwedIs DEF Forgotten
  <2> QED
    BY <2>1, <2>2
<1>10. Box!End
  BY <1>1, <1>8, <1>9 DEF Box!End
<1> QED
  BY <1>7, <1>10 DEF BoxStep, Box!Next

LEMMA OutboxStep ==
    ASSUME TypeInv, SuccessInv, OutboxInv, [Next]_vars
    PROVE  OutboxInv' /\ BoxStep
<1>1. ASSUME NEW q \in Requests, SubscribeStep(q) \/ InlineSend(q)
      PROVE  OutboxInv' /\ BoxStep
  BY <1>1, SubscribeOutbox
<1>2. ASSUME NEW w \in Workers, Take(w) \/ WorkerSend(w)
      PROVE  OutboxInv' /\ BoxStep
  BY <1>2, WorkerOutbox
<1>3. ASSUME UNCHANGED <<spc, answer, mailQ, job, attempted, stopping>>,
             \A q \in Requests : row'[q] = "none" <=> row[q] = "none"
      PROVE  OutboxInv' /\ BoxStep
  <2>1. \A p : (In(p, mailQ') <=> In(p, mailQ)) /\ (Sending(p)' <=> Sending(p))
    BY <1>3 DEF In, Sending
  <2>2. OutboxInv'
    BY <1>3, <2>1 DEF OutboxInv, Once
  <2>3. Owed' = Owed
    BY <1>3, <2>1, OwedIs
  <2>4. Forgotten' = Forgotten
    BY <1>3, <2>3 DEF Forgotten
  <2> QED
    BY <1>3, <2>2, <2>3, <2>4, Unseen
<1>4. ASSUME NEW h \in Handlers, HandlerStep(h)
      PROVE  OutboxInv' /\ BoxStep
  <2>1. UNCHANGED <<spc, answer, mailQ, job, attempted, stopping>>
    BY <1>4 DEF HandlerStep, ConfirmRow, ConfirmFails, IncGauge, DeleteRow, DeleteFails, DecGauge,
                subscribe, mail
  <2>2. \/ row' = row
        \/ \E v \in {"confirmed", "deleted"} :
               Stored(hsub[h]) /\ row' = [row EXCEPT ![hsub[h]] = v]
    BY <1>4 DEF HandlerStep, ConfirmRow, ConfirmFails, IncGauge, DeleteRow, DeleteFails, DecGauge
  <2>3. row \in [Requests -> {"none", "pending", "confirmed", "deleted"}]
    BY DEF TypeInv, TypeOK
  <2>4. \A q \in Requests : row'[q] = "none" <=> row[q] = "none"
    BY <2>2, <2>3 DEF Stored
  <2> QED
    BY <1>3, <2>1, <2>4
<1>5. ASSUME NEW h \in Handlers, NEW q \in Requests,
             ConfirmLookup(h, q) \/ UnsubscribeLookup(h, q)
      PROVE  OutboxInv' /\ BoxStep
  BY <1>3, <1>5 DEF ConfirmLookup, UnsubscribeLookup, subscribe, mail
<1>6. ASSUME NEW q \in Requests, ReleaseMail(q)
      PROVE  OutboxInv' /\ BoxStep
  BY <1>3, <1>6 DEF ReleaseMail, subscribe, mail
<1>7. CASE Shutdown
  <2>1. stopping' = TRUE /\ UNCHANGED <<row, spc, answer, mailQ, job, attempted>>
    BY <1>7 DEF Shutdown, subscribe, mail
  <2>2. \A p : (In(p, mailQ') <=> In(p, mailQ)) /\ (Sending(p)' <=> Sending(p))
    BY <2>1 DEF In, Sending
  <2>3. OutboxInv'
    BY <2>1, <2>2 DEF OutboxInv, Once
  <2>4. Owed' = Owed
    BY <2>1, <2>2, OwedIs
  <2>5. Box!Stop
    BY <2>1, <2>4 DEF Forgotten, Box!Stop
  <2> QED
    BY <2>3, <2>5 DEF BoxStep, Box!Next
<1>8. CASE Exit
  BY <1>8, ExitOutbox
<1>9. CASE UNCHANGED vars
  BY <1>3, <1>9 DEF vars, subscribe, mail
<1> QED
  BY <1>1, <1>2, <1>4, <1>5, <1>6, <1>7, <1>8, <1>9 DEF Next, Work

-----------------------------------------------------------------------------
(* The refinement, as far as safety goes.                                                 *)

\* What ImplementsOutbox says but for fairness.
OutboxSafety == Box!Init /\ [][Box!Next]_(Box!vars)

\* Queue, workers and the inline send implement the outbox (service/subscription.go:72 to
\* :108): the mail of a stored subscription is owed until it is attempted, is attempted at
\* most once, and only the end of a process forgets it.
THEOREM OutboxImplemented == Spec => OutboxSafety
<1>1. Init => OutboxInv /\ Box!Init
  <2> SUFFICES ASSUME Init PROVE OutboxInv /\ Box!Init
    OBVIOUS
  <2>1. /\ mailQ = <<>> /\ \A w \in Workers : job[w] = None
        /\ \A q \in Requests : row[q] = "none" /\ spc[q] = "new" /\ answer[q] = "none"
        /\ attempted = {} /\ stopping = FALSE
    BY DEF Init
  <2>2. \A q : ~In(q, mailQ)
    BY <2>1 DEF In
  <2>3. \A q \in Requests : ~Sending(q)
    BY <2>1, NoneAssumption DEF Sending
  <2>4. OutboxInv
    BY <2>1, <2>2, <2>3 DEF OutboxInv, Once
  <2>5. Owed = {} /\ Forgotten = {}
    BY <2>1, <2>2, <2>3, OwedIs DEF Forgotten
  <2> QED
    BY <2>1, <2>4, <2>5 DEF Box!Init
<1>2. TypeInv /\ SuccessInv /\ OutboxInv /\ [Next]_vars => OutboxInv' /\ [Box!Next]_(Box!vars)
  BY OutboxStep DEF BoxStep
<1>3. Spec => []TypeInv
  BY TypeCorrect DEF TypeInv
<1>4. Init => SuccessInv
  BY DEF Init, SuccessInv, FreshRow, InHand, SuccessIsReal
<1>5. TypeInv /\ SuccessInv /\ [Next]_vars => SuccessInv'
  BY SuccessStep
<1> QED
  BY <1>1, <1>2, <1>3, <1>4, <1>5, PTL DEF Spec, OutboxSafety
=============================================================================
