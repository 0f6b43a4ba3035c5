------------------------ MODULE SubscriptionsProofs ------------------------
(***************************************************************************)
(* What holds of Subscriptions for every number of calls, handlers,        *)
(* workers and places in the queue, and for every choice of faults.        *)
(***************************************************************************)
EXTENDS Subscriptions, FiniteSetTheorems, TLAPS

-----------------------------------------------------------------------------
(* Type correctness.  A call past its lookup has a subscription in hand.                  *)

HasSub == \A h \in Handlers : hpc[h] # "idle" => hsub[h] \in Requests

TypeInv == TypeOK /\ HasSub

\* The two variables of a handler when it answers or goes on.
HandlerTypes ==
    /\ hpc \in [Handlers -> {"idle", "confirm", "inc", "delete", "dec"}]
    /\ hsub \in [Handlers -> Requests \cup {None}]

LEMMA ReplyType ==
    ASSUME TypeInv, NEW h \in Handlers, Reply(h)
    PROVE  HandlerTypes' /\ HasSub'
BY DEF TypeInv, TypeOK, HasSub, Reply, HandlerTypes

LEMMA ProceedType ==
    ASSUME TypeInv, NEW h \in Handlers, NEW pc \in {"confirm", "inc", "delete", "dec"},
           NEW q \in Requests, Proceed(h, pc, q)
    PROVE  HandlerTypes' /\ HasSub'
BY DEF TypeInv, TypeOK, HasSub, Proceed, HandlerTypes

\* A job at the head of the queue is a call, and the queue gets shorter.
LEMMA TakeType ==
    ASSUME TypeInv, NEW w \in Workers, Take(w)
    PROVE  TypeOK'
<1>1. /\ mailQ \in Seq(Requests) /\ Len(mailQ) <= QueueSize /\ mailQ # <<>>
      /\ mailQ' = Tail(mailQ) /\ job' = [job EXCEPT ![w] = Head(mailQ)]
  BY DEF TypeInv, TypeOK, Take
<1>2. Head(mailQ) \in Requests /\ Tail(mailQ) \in Seq(Requests) /\ Len(Tail(mailQ)) <= Len(mailQ)
  BY <1>1
<1>3. mailQ' \in Seq(Requests) /\ Len(mailQ') <= QueueSize
  BY <1>1, <1>2, QueueAssumption
<1>4. job' \in [Workers -> Requests \cup {None}]
  BY <1>1, <1>2 DEF TypeInv, TypeOK
<1> QED
  BY <1>3, <1>4 DEF TypeInv, TypeOK, Take, subscribe, handler

LEMMA EnqueueType ==
    ASSUME TypeInv, NEW q \in Requests, Enqueue(q)
    PROVE  TypeOK'
<1>1. mailQ \in Seq(Requests) /\ Len(mailQ) < QueueSize /\ mailQ' = Append(mailQ, q)
  BY DEF TypeInv, TypeOK, Enqueue, QueueHasRoom
<1>2. mailQ' \in Seq(Requests) /\ Len(mailQ') = Len(mailQ) + 1
  BY <1>1
<1>3. Len(mailQ') <= QueueSize
  BY <1>1, <1>2, QueueAssumption
<1> QED
  BY <1>2, <1>3 DEF TypeInv, TypeOK, Enqueue, Answer, handler

LEMMA TypeStep ==
    ASSUME TypeInv, [Next]_vars
    PROVE  TypeInv'
<1> USE DEF TypeInv
<1>1. ASSUME NEW q \in Requests, SubscribeStep(q) \/ InlineSend(q) \/ ReleaseMail(q)
      PROVE  TypeInv'
  <2>1. CASE CheckRepo(q)
    BY <2>1 DEF TypeOK, HasSub, CheckRepo, Answer, mail, handler
  <2>2. CASE Create(q)
    BY <2>2 DEF TypeOK, HasSub, Create, mail, handler
  <2>3. CASE CreateConflict(q)
    BY <2>3 DEF TypeOK, HasSub, CreateConflict, Answer, mail, handler
  <2>4. CASE CreateFails(q)
    <3>1. row' \in [Requests -> {"none", "pending", "confirmed", "deleted"}]
      BY <2>4 DEF TypeOK, CreateFails
    <3> QED
      BY <2>4, <3>1 DEF TypeOK, HasSub, CreateFails, Answer, mail, handler
  <2>5. CASE Enqueue(q)
    BY <2>5, EnqueueType DEF HasSub, Enqueue, handler
  <2>6. CASE QueueFull(q)
    BY <2>6 DEF TypeOK, HasSub, QueueFull, mail, handler
  <2>7. CASE InlineSend(q)
    BY <2>7 DEF TypeOK, HasSub, InlineSend, Send, Answer, handler
  <2>8. CASE ReleaseMail(q)
    BY <2>8 DEF TypeOK, HasSub, ReleaseMail, subscribe, mail, handler
  <2> QED
    BY <1>1, <2>1, <2>2, <2>3, <2>4, <2>5, <2>6, <2>7, <2>8 DEF SubscribeStep
<1>2. ASSUME NEW w \in Workers, Take(w) \/ WorkerSend(w)
      PROVE  TypeInv'
  <2>1. CASE Take(w)
    BY <2>1, TakeType DEF HasSub, Take, handler
  <2>2. CASE WorkerSend(w)
    BY <2>2 DEF TypeOK, HasSub, WorkerSend, Send, subscribe, handler
  <2> QED
    BY <1>2, <2>1, <2>2
<1>3. ASSUME NEW h \in Handlers, HandlerStep(h)
      PROVE  TypeInv'
  <2>1. /\ row' \in [Requests -> {"none", "pending", "confirmed", "deleted"}]
        /\ gauge' \in Int
        /\ UNCHANGED <<subscribe, mail, knowsUnsub, stopping>>
    BY <1>3 DEF TypeOK, HandlerStep, ConfirmRow, ConfirmFails, IncGauge, DeleteRow, DeleteFails,
                DecGauge, Stored
  <2>2. hpc[h] # "idle" /\ hsub[h] \in Requests
    BY <1>3 DEF HasSub, HandlerStep, ConfirmRow, ConfirmFails, IncGauge, DeleteRow, DeleteFails, DecGauge
  <2>3. \/ Reply(h)
        \/ \E pc \in {"inc", "dec"} : Proceed(h, pc, hsub[h])
    BY <1>3 DEF HandlerStep, ConfirmRow, ConfirmFails, IncGauge, DeleteRow, DeleteFails, DecGauge
  <2>4. HandlerTypes' /\ HasSub'
    BY <2>2, <2>3, ReplyType, ProceedType
  <2> QED
    BY <2>1, <2>4 DEF TypeOK, HandlerTypes, subscribe, mail
<1>4. ASSUME NEW h \in Handlers, NEW q \in Requests, ConfirmLookup(h, q) \/ UnsubscribeLookup(h, q)
      PROVE  TypeInv'
  <2>1. UNCHANGED <<row, subscribe, mail, knowsUnsub, gauge, stopping>>
    BY <1>4 DEF ConfirmLookup, UnsubscribeLookup
  <2>2. \E pc \in {"confirm", "delete"} : Proceed(h, pc, q)
    BY <1>4 DEF ConfirmLookup, UnsubscribeLookup
  <2>3. HandlerTypes' /\ HasSub'
    BY <2>2, ProceedType
  <2> QED
    BY <2>1, <2>3 DEF TypeOK, HandlerTypes, subscribe, mail
<1>5. CASE Shutdown
  BY <1>5 DEF TypeOK, HasSub, Shutdown, subscribe, mail, handler
<1>6. CASE Exit
  <2>1. /\ mailQ' = <<>> /\ mailQ' \in Seq(Requests) /\ Len(mailQ') <= QueueSize
    BY <1>6, QueueAssumption DEF Exit
  <2>2. /\ spc' \in [Requests -> {"new", "create", "enqueue", "inline", "done"}]
        /\ answer' \in [Requests -> {"none", "ok", "rejected", "conflict", "error", "reset"}]
    BY <1>6 DEF TypeOK, Exit
  <2>3. HasSub' /\ hpc' \in [Handlers -> {"idle"}] /\ hsub' \in [Handlers -> {None}]
    BY <1>6 DEF HasSub, Exit
  <2>4. job' \in [Workers -> {None}] /\ stopping' \in BOOLEAN
    BY <1>6, Zenon DEF Exit
  <2>5. gauge' \in Int
    BY <1>6, SMT DEF Exit
  <2>6. UNCHANGED <<row, inbox, attempted, knowsUnsub>>
    BY <1>6 DEF Exit
  <2> QED
    BY <2>1, <2>2, <2>3, <2>4, <2>5, <2>6 DEF TypeOK
<1>7. CASE UNCHANGED vars
  BY <1>7 DEF TypeOK, HasSub, vars, subscribe, mail, handler
<1> QED
  BY <1>1, <1>2, <1>3, <1>4, <1>5, <1>6, <1>7 DEF Next, Work

LEMMA TypeInit == Init => TypeInv
<1> SUFFICES ASSUME Init PROVE TypeInv
  OBVIOUS
<1>1. mailQ = <<>> /\ gauge = 0
  BY DEF Init
<1>2. mailQ \in Seq(Requests) /\ Len(mailQ) <= QueueSize /\ gauge \in Int
  BY <1>1, QueueAssumption
<1>3. HasSub
  BY DEF Init, HasSub
<1>4. /\ row \in [Requests -> {"none"}] /\ spc \in [Requests -> {"new"}]
      /\ answer \in [Requests -> {"none"}] /\ job \in [Workers -> {None}]
      /\ hpc \in [Handlers -> {"idle"}] /\ hsub \in [Handlers -> {None}]
      /\ inbox = {} /\ attempted = {} /\ knowsUnsub = {}
  BY Zenon DEF Init
<1>5. stopping \in BOOLEAN
  BY Zenon DEF Init
<1> QED
  BY <1>2, <1>3, <1>4, <1>5 DEF TypeInv, TypeOK

\* Every variable keeps its type; in particular the queue of confirmations never holds
\* more jobs than it has places (service/subscription.go:96).
THEOREM TypeCorrect == Spec => [](TypeOK /\ HasSub)
<1>1. TypeInv /\ [Next]_vars => TypeInv'
  BY TypeStep
<1> QED
  BY <1>1, TypeInit, PTL DEF Spec, TypeInv

-----------------------------------------------------------------------------
(* A success that is answered happened.  The rows a handler has in hand were stored by a  *)
(* Create, and no Create ever stores one of them again: a call that has not inserted its  *)
(* row yet has none.                                                                      *)

FreshRow == \A q \in Requests : spc[q] \in {"new", "create"} => row[q] = "none"

\* The row in hand was stored once.
InHand == \A h \in Handlers : hpc[h] # "idle" => row[hsub[h]] # "none"

SuccessInv == FreshRow /\ InHand /\ SuccessIsReal

LEMMA SuccessStep ==
    ASSUME TypeInv, SuccessInv, [Next]_vars
    PROVE  SuccessInv'
<1> USE DEF TypeInv, SuccessInv
<1>1. ASSUME NEW q \in Requests, SubscribeStep(q) \/ InlineSend(q) \/ ReleaseMail(q)
      PROVE  SuccessInv'
  <2>1. UNCHANGED handler
    BY <1>1 DEF SubscribeStep, CheckRepo, Create, CreateConflict, CreateFails, Enqueue, QueueFull,
                InlineSend, ReleaseMail
  <2>2. \/ row' = row
        \/ spc[q] = "create" /\ row' = [row EXCEPT ![q] = "pending"]
    BY <1>1 DEF SubscribeStep, CheckRepo, Create, CreateConflict, CreateFails, Enqueue, QueueFull,
                InlineSend, ReleaseMail
  <2>3. \A h \in Handlers : hpc[h] # "idle" => row'[hsub[h]] = row[hsub[h]]
    BY <2>2 DEF FreshRow, InHand, HasSub, TypeOK
  <2>4. InHand' /\ SuccessIsReal'
    BY <2>1, <2>3 DEF InHand, SuccessIsReal, handler
  <2>5. FreshRow'
    BY <1>1 DEF TypeOK, FreshRow, SubscribeStep, CheckRepo, Create, CreateConflict, CreateFails,
                Enqueue, QueueFull, InlineSend, ReleaseMail, Answer, subscribe
  <2> QED
    BY <2>4, <2>5
<1>2. ASSUME NEW w \in Workers, Take(w) \/ WorkerSend(w)
      PROVE  SuccessInv'
  BY <1>2 DEF FreshRow, InHand, SuccessIsReal, Take, WorkerSend, subscribe, handler
<1>3. ASSUME NEW h \in Handlers, HandlerStep(h)
      PROVE  SuccessInv'
  <2>1. hpc[h] # "idle" /\ hsub[h] \in Requests /\ row[hsub[h]] # "none"
    BY <1>3 DEF HasSub, InHand, HandlerStep, ConfirmRow, ConfirmFails, IncGauge, DeleteRow,
                DeleteFails, DecGauge
  <2>2. \/ row' = row
        \/ Stored(hsub[h]) /\ \E v \in {"confirmed", "deleted"} : row' = [row EXCEPT ![hsub[h]] = v]
    BY <1>3 DEF HandlerStep, ConfirmRow, ConfirmFails, IncGauge, DeleteRow, DeleteFails, DecGauge
  <2>3. \A q \in Requests : /\ row[q] = "none" => row'[q] = "none"
                            /\ row[q] # "none" => row'[q] # "none"
                            /\ row[q] = "deleted" => row'[q] = "deleted"
                            /\ row[q] = "confirmed" => row'[q] \in {"confirmed", "deleted"}
    BY <2>1, <2>2 DEF TypeOK, Stored
  <2>4. FreshRow'
    BY <1>3, <2>3 DEF FreshRow, HandlerStep, ConfirmRow, ConfirmFails, IncGauge, DeleteRow,
                      DeleteFails, DecGauge, subscribe
  <2>5. \/ Reply(h)
        \/ Proceed(h, "inc", hsub[h]) /\ row'[hsub[h]] = "confirmed"
        \/ Proceed(h, "dec", hsub[h]) /\ row'[hsub[h]] = "deleted"
    BY <1>3, <2>1 DEF TypeOK, HandlerStep, ConfirmRow, ConfirmFails, IncGauge, DeleteRow, DeleteFails,
                      DecGauge
  <2>6. ASSUME NEW g \in Handlers, hpc'[g] # "idle"
        PROVE  /\ row'[hsub'[g]] # "none"
               /\ hpc'[g] = "inc" => row'[hsub'[g]] \in {"confirmed", "deleted"}
               /\ hpc'[g] = "dec" => row'[hsub'[g]] = "deleted"
    <3>1. CASE g = h
      BY <2>5, <2>6, <3>1 DEF TypeOK, Reply, Proceed
    <3>2. CASE g # h
      <4>1. hpc'[g] = hpc[g] /\ hsub'[g] = hsub[g]
        BY <2>5, <3>2 DEF TypeOK, Reply, Proceed
      <4>2. hsub[g] \in Requests /\ row[hsub[g]] # "none"
        BY <2>6, <4>1 DEF HasSub, InHand
      <4> QED
        BY <2>3, <4>1, <4>2 DEF SuccessIsReal
    <3> QED
      BY <3>1, <3>2
  <2> QED
    BY <2>4, <2>6 DEF InHand, SuccessIsReal
<1>4. ASSUME NEW h \in Handlers, NEW q \in Requests, ConfirmLookup(h, q) \/ UnsubscribeLookup(h, q)
      PROVE  SuccessInv'
  <2>1. UNCHANGED <<row, spc>>
    BY <1>4 DEF ConfirmLookup, UnsubscribeLookup, subscribe
  <2>2. Stored(q) /\ \E pc \in {"confirm", "delete"} : Proceed(h, pc, q)
    BY <1>4 DEF ConfirmLookup, UnsubscribeLookup
  <2> QED
    BY <2>1, <2>2 DEF TypeOK, FreshRow, InHand, SuccessIsReal, Proceed, Stored
<1>5. CASE Shutdown
  BY <1>5 DEF FreshRow, InHand, SuccessIsReal, Shutdown, subscribe, handler
<1>6. CASE Exit
  BY <1>6 DEF TypeOK, FreshRow, InHand, SuccessIsReal, Exit, InFlight
<1>7. CASE UNCHANGED vars
  BY <1>7 DEF FreshRow, InHand, SuccessIsReal, vars, subscribe, handler
<1> QED
  BY <1>1, <1>2, <1>3, <1>4, <1>5, <1>6, <1>7 DEF Next, Work

\* A call that is about to count and answer OK changed the table: what Confirm and
\* Unsubscribe report happened, whichever calls ran between lookup and update.
THEOREM SuccessHappened == Spec => []SuccessIsReal
<1>1. Init => SuccessInv
  BY DEF Init, SuccessInv, FreshRow, InHand, SuccessIsReal
<1>2. TypeInv /\ SuccessInv /\ [Next]_vars => SuccessInv'
  BY SuccessStep
<1>3. Spec => []TypeInv
  BY TypeCorrect DEF TypeInv
<1>4. SuccessInv => SuccessIsReal
  BY DEF SuccessInv
<1> QED
  BY <1>1, <1>2, <1>3, <1>4, PTL DEF Spec

-----------------------------------------------------------------------------
(* The gauge while no statement fails.  Each count follows the set of rows or of calls it is  *)
(* about; a deletion may count down because the row it deletes was confirmed.               *)

Incs == {h \in Handlers : hpc[h] = "inc"}
Decs == {h \in Handlers : hpc[h] = "dec"}

\* Only subscriptions that were confirmed once are known to be unsubscribed from.
UnsubConfirmed ==
    /\ \A q \in knowsUnsub : row[q] \in {"confirmed", "deleted"}
    /\ \A h \in Handlers : hpc[h] = "delete" => row[hsub[h]] \in {"confirmed", "deleted"}

GaugeInv == ~stopping /\ UnsubConfirmed /\ GaugeNotBelowConfirmed

\* A step that counts nothing keeps the four counts.
LEMMA SameCounts ==
    ASSUME GaugeNotBelowConfirmed, gauge' = gauge, Incs' = Incs, Decs' = Decs, Confirmed' = Confirmed
    PROVE  GaugeNotBelowConfirmed'
BY DEF GaugeNotBelowConfirmed, Incs, Decs

LEMMA CountsType ==
    ASSUME IsFiniteSet(Requests), IsFiniteSet(Handlers)
    PROVE  /\ IsFiniteSet(Incs) /\ IsFiniteSet(Decs) /\ IsFiniteSet(Confirmed)
           /\ Cardinality(Incs) \in Nat /\ Cardinality(Decs) \in Nat /\ Cardinality(Confirmed) \in Nat
<1>1. Incs \subseteq Handlers /\ Decs \subseteq Handlers /\ Confirmed \subseteq Requests
  BY DEF Incs, Decs, Confirmed
<1>2. IsFiniteSet(Incs) /\ IsFiniteSet(Decs) /\ IsFiniteSet(Confirmed)
  BY <1>1, FS_Subset
<1> QED
  BY <1>2, FS_CardinalityType

LEMMA GaugeHandler ==
    ASSUME IsFiniteSet(Requests), IsFiniteSet(Handlers), Faults \subseteq {"smtp"},
           TypeInv, GaugeInv, NEW h \in Handlers, HandlerStep(h)
    PROVE  GaugeNotBelowConfirmed'
<1> DEFINE q == hsub[h]
<1>0. /\ hpc \in [Handlers -> {"idle", "confirm", "inc", "delete", "dec"}]
      /\ row \in [Requests -> {"none", "pending", "confirmed", "deleted"}]
      /\ gauge \in Int /\ ~DbFails
      /\ hpc[h] # "idle" => q \in Requests
  BY DEF TypeInv, TypeOK, HasSub, DbFails
<1>1. gauge + Cardinality(Incs) >= Cardinality(Confirmed) + Cardinality(Decs)
  BY DEF GaugeInv, GaugeNotBelowConfirmed, Incs, Decs
<1>2. SUFFICES gauge' + Cardinality(Incs') >= Cardinality(Confirmed') + Cardinality(Decs')
  BY DEF GaugeNotBelowConfirmed, Incs, Decs
<1> HIDE DEF q
<1>3. CASE hpc[h] = "confirm" /\ Stored(q) /\ ConfirmRow(h)
  <2>1. hpc' = [hpc EXCEPT ![h] = "inc"] /\ row' = [row EXCEPT ![q] = "confirmed"] /\ gauge' = gauge
    BY <1>3 DEF ConfirmRow, Proceed, q
  <2>2. Incs' = Incs \cup {h} /\ h \notin Incs /\ Decs' = Decs
    BY <1>0, <1>3, <2>1 DEF Incs, Decs
  <2>3. Confirmed' = Confirmed \cup {q}
    BY <1>0, <1>3, <2>1 DEF Confirmed
  <2>4. Cardinality(Incs') = Cardinality(Incs) + 1
    BY <2>2, CountsType, FS_AddElement
  <2>5. \/ Cardinality(Confirmed') = Cardinality(Confirmed)
        \/ Cardinality(Confirmed') = Cardinality(Confirmed) + 1
    <3>1. IsFiniteSet(Confirmed)
      BY CountsType
    <3> QED
      BY <2>3, <3>1, FS_AddElement
  <2> QED
    BY <1>0, <1>1, <2>1, <2>2, <2>4, <2>5, CountsType
<1>4. CASE IncGauge(h)
  <2>1. hpc[h] = "inc" /\ hpc' = [hpc EXCEPT ![h] = "idle"] /\ row' = row /\ gauge' = gauge + 1
    BY <1>4 DEF IncGauge, Reply
  <2>2. Incs' = Incs \ {h} /\ h \in Incs /\ Decs' = Decs /\ Confirmed' = Confirmed
    BY <1>0, <2>1 DEF Incs, Decs, Confirmed
  <2>3. Cardinality(Incs') = Cardinality(Incs) - 1
    BY <2>2, CountsType, FS_RemoveElement
  <2> QED
    BY <1>0, <1>1, <2>1, <2>2, <2>3, CountsType
<1>5. CASE hpc[h] = "delete" /\ Stored(q) /\ DeleteRow(h)
  <2>1. hpc' = [hpc EXCEPT ![h] = "dec"] /\ row' = [row EXCEPT ![q] = "deleted"] /\ gauge' = gauge
    BY <1>5 DEF DeleteRow, Proceed, q
  <2>2. Decs' = Decs \cup {h} /\ h \notin Decs /\ Incs' = Incs
    BY <1>0, <1>5, <2>1 DEF Incs, Decs
  <2>3. row[q] = "confirmed"
    BY <1>5 DEF GaugeInv, UnsubConfirmed, Stored, q
  <2>4. Confirmed' = Confirmed \ {q} /\ q \in Confirmed
    BY <1>0, <1>5, <2>1, <2>3 DEF Confirmed
  <2>5. Cardinality(Decs') = Cardinality(Decs) + 1
    BY <2>2, CountsType, FS_AddElement
  <2>6. Cardinality(Confirmed') = Cardinality(Confirmed) - 1
    BY <2>4, CountsType, FS_RemoveElement
  <2> QED
    BY <1>0, <1>1, <2>1, <2>2, <2>5, <2>6, CountsType
<1>6. CASE DecGauge(h)
  <2>1. hpc[h] = "dec" /\ hpc' = [hpc EXCEPT ![h] = "idle"] /\ row' = row /\ gauge' = gauge - 1
    BY <1>6 DEF DecGauge, Reply
  <2>2. Decs' = Decs \ {h} /\ h \in Decs /\ Incs' = Incs /\ Confirmed' = Confirmed
    BY <1>0, <2>1 DEF Incs, Decs, Confirmed
  <2>3. Cardinality(Decs') = Cardinality(Decs) - 1
    BY <2>2, CountsType, FS_RemoveElement
  <2> QED
    BY <1>0, <1>1, <2>1, <2>2, <2>3, CountsType
<1>7. CASE (ConfirmRow(h) \/ DeleteRow(h)) /\ ~Stored(q)
  <2>1. /\ hpc[h] \in {"confirm", "delete"} /\ hpc' = [hpc EXCEPT ![h] = "idle"]
        /\ row' = row /\ gauge' = gauge
    BY <1>7 DEF ConfirmRow, DeleteRow, Reply, q
  <2>2. Incs' = Incs /\ Decs' = Decs /\ Confirmed' = Confirmed
    BY <1>0, <2>1 DEF Incs, Decs, Confirmed
  <2> QED
    BY <1>1, <2>1, <2>2
<1>8. ~ConfirmFails(h) /\ ~DeleteFails(h)
  BY <1>0 DEF ConfirmFails, DeleteFails
<1>9. (ConfirmRow(h) => hpc[h] = "confirm") /\ (DeleteRow(h) => hpc[h] = "delete")
  BY DEF ConfirmRow, DeleteRow
<1> QED
  BY <1>3, <1>4, <1>5, <1>6, <1>7, <1>8, <1>9 DEF HandlerStep

LEMMA GaugeStep ==
    ASSUME IsFiniteSet(Requests), IsFiniteSet(Handlers), Faults \subseteq {"smtp"},
           TypeInv, SuccessInv, GaugeInv, [Next]_vars
    PROVE  GaugeInv'
<1>0. /\ hpc \in [Handlers -> {"idle", "confirm", "inc", "delete", "dec"}]
      /\ hsub \in [Handlers -> Requests \cup {None}]
      /\ row \in [Requests -> {"none", "pending", "confirmed", "deleted"}]
      /\ knowsUnsub \subseteq Requests
      /\ ~DbFails /\ ~stopping
      /\ \A h \in Handlers : hpc[h] # "idle" => hsub[h] \in Requests /\ row[hsub[h]] # "none"
      /\ UnsubConfirmed /\ GaugeNotBelowConfirmed
  BY DEF TypeInv, TypeOK, HasSub, DbFails, GaugeInv, SuccessInv, InHand
<1>1. ASSUME NEW q \in Requests, SubscribeStep(q) \/ InlineSend(q) \/ ReleaseMail(q)
      PROVE  GaugeInv'
  <2>1. UNCHANGED <<hpc, hsub, gauge, stopping>>
    BY <1>1 DEF SubscribeStep, CheckRepo, Create, CreateConflict, CreateFails, Enqueue, QueueFull,
                InlineSend, ReleaseMail, handler
  <2>2. \/ row' = row
        \/ row[q] = "none" /\ row' = [row EXCEPT ![q] = "pending"]
    BY <1>0, <1>1 DEF SubscribeStep, CheckRepo, Create, CreateConflict, CreateFails, Enqueue, QueueFull,
                InlineSend, ReleaseMail, SuccessInv, FreshRow
  <2>3. \A p \in Requests : row[p] \in {"confirmed", "deleted"} => row'[p] = row[p]
    BY <1>0, <2>2
  <2>4. \/ knowsUnsub' = knowsUnsub
        \/ knowsUnsub' = knowsUnsub \cup {q} /\ row[q] = "confirmed"
    BY <1>1 DEF SubscribeStep, CheckRepo, Create, CreateConflict, CreateFails, Enqueue, QueueFull,
                InlineSend, ReleaseMail
  <2>5. UnsubConfirmed'
    BY <1>0, <2>1, <2>3, <2>4 DEF UnsubConfirmed
  <2>6. Confirmed' = Confirmed
    BY <1>0, <2>2 DEF Confirmed
  <2>7. Incs' = Incs /\ Decs' = Decs
    BY <2>1 DEF Incs, Decs
  <2> QED
    BY <1>0, <2>1, <2>5, <2>6, <2>7, SameCounts DEF GaugeInv
<1>2. CASE UNCHANGED <<row, hpc, hsub, knowsUnsub, gauge, stopping>>
  <2>1. Incs' = Incs /\ Decs' = Decs /\ Confirmed' = Confirmed
    BY <1>2 DEF Incs, Decs, Confirmed
  <2> QED
    BY <1>0, <1>2, <2>1, SameCounts DEF GaugeInv, UnsubConfirmed
<1>3. ASSUME NEW h \in Handlers, HandlerStep(h)
      PROVE  GaugeInv'
  <2>1. UNCHANGED <<knowsUnsub, stopping>>
    BY <1>3 DEF HandlerStep, ConfirmRow, ConfirmFails, IncGauge, DeleteRow, DeleteFails, DecGauge
  <2>2. \/ row' = row
        \/ \E v \in {"confirmed", "deleted"} :
               Stored(hsub[h]) /\ row' = [row EXCEPT ![hsub[h]] = v]
    BY <1>3 DEF HandlerStep, ConfirmRow, ConfirmFails, IncGauge, DeleteRow, DeleteFails, DecGauge
  <2>3. \A p \in Requests : row[p] \in {"confirmed", "deleted"} => row'[p] \in {"confirmed", "deleted"}
    BY <1>0, <2>2
  <2>4. \A g \in Handlers : hpc'[g] = "delete" => hpc[g] = "delete" /\ hsub'[g] = hsub[g]
    BY <1>0, <1>3 DEF HandlerStep, ConfirmRow, ConfirmFails, IncGauge, DeleteRow, DeleteFails, DecGauge,
                      Reply, Proceed
  <2>5. UnsubConfirmed'
    BY <1>0, <2>1, <2>3, <2>4 DEF UnsubConfirmed
  <2> QED
    BY <1>0, <1>3, <2>1, <2>5, GaugeHandler DEF GaugeInv
<1>4. ASSUME NEW h \in Handlers, NEW q \in Requests, ConfirmLookup(h, q) \/ UnsubscribeLookup(h, q)
      PROVE  GaugeInv'
  <2>1. /\ UNCHANGED <<row, knowsUnsub, gauge, stopping>> /\ hpc[h] = "idle"
        /\ hsub' = [hsub EXCEPT ![h] = q]
        /\ \/ hpc' = [hpc EXCEPT ![h] = "confirm"]
           \/ hpc' = [hpc EXCEPT ![h] = "delete"] /\ q \in knowsUnsub
    BY <1>4 DEF ConfirmLookup, UnsubscribeLookup, Proceed
  <2>2. UnsubConfirmed'
    BY <1>0, <2>1 DEF UnsubConfirmed
  <2>3. Incs' = Incs /\ Decs' = Decs /\ Confirmed' = Confirmed
    BY <1>0, <2>1 DEF Incs, Decs, Confirmed
  <2> QED
    BY <1>0, <2>1, <2>2, <2>3, SameCounts DEF GaugeInv
<1>5. ASSUME NEW w \in Workers, Take(w) \/ WorkerSend(w)
      PROVE  UNCHANGED <<row, hpc, hsub, knowsUnsub, gauge, stopping>>
  BY <1>5 DEF Take, WorkerSend, handler
<1>6. ~Shutdown /\ ~Exit
  BY <1>0 DEF Shutdown, Exit
<1>7. UNCHANGED vars => UNCHANGED <<row, hpc, hsub, knowsUnsub, gauge, stopping>>
  BY DEF vars, handler
<1> QED
  BY <1>1, <1>2, <1>3, <1>4, <1>5, <1>6, <1>7 DEF Next, Work

LEMMA GaugeInit == Init => TypeInv /\ SuccessInv /\ GaugeInv
<1> SUFFICES ASSUME Init PROVE TypeInv /\ SuccessInv /\ GaugeInv
  OBVIOUS
<1>1. TypeInv
  BY TypeInit
<1>2. SuccessInv
  BY DEF Init, SuccessInv, FreshRow, InHand, SuccessIsReal
<1>3. Incs = {} /\ Decs = {} /\ Confirmed = {}
  BY DEF Init, Incs, Decs, Confirmed
<1>4. gauge = 0 /\ ~stopping /\ UnsubConfirmed
  BY DEF Init, UnsubConfirmed
<1>5. GaugeNotBelowConfirmed
  BY <1>3, <1>4, FS_EmptySet DEF GaugeNotBelowConfirmed, Incs, Decs
<1> QED
  BY <1>1, <1>2, <1>4, <1>5 DEF GaugeInv

\* Without database faults and stops the gauge never falls below the number of confirmed
\* subscriptions, calls in flight accounted for (service/subscription.go:114 to :126): of
\* two calls that unsubscribe one subscription only the one that deletes the row counts.
THEOREM GaugeSafe ==
    ASSUME IsFiniteSet(Requests), IsFiniteSet(Handlers), Faults \subseteq {"smtp"}
    PROVE  Spec => []GaugeNotBelowConfirmed
<1>1. TypeInv /\ SuccessInv /\ GaugeInv /\ [Next]_vars => TypeInv' /\ SuccessInv' /\ GaugeInv'
  BY TypeStep, SuccessStep, GaugeStep
<1>2. GaugeInv => GaugeNotBelowConfirmed
  BY DEF GaugeInv
<1> QED
  BY <1>1, <1>2, GaugeInit, PTL DEF Spec
=============================================================================
