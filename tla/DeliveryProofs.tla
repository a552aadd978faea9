--------------------------- MODULE DeliveryProofs ---------------------------
(***************************************************************************)
(* AckedMeansQueued and RedeliveryQueuesNothing for any deliveries, any     *)
(* number of requests served at once and any number of errors and crashes.  *)
(***************************************************************************)
EXTENDS Delivery, SequenceTheorems, TLAPS

(* Lemma: a delivery's changes are a sequence of changes.                   *)
LEMMA ContentType ==
    ASSUME NEW d \in Deliveries
    PROVE  Content[d] \in Seq(Changes) /\ Range(Content[d]) \subseteq Changes
<1>1. Range(Content[d]) \subseteq Changes
    BY DEF Changes
<1>2. Content[d] \in Seq(Range(Content[d]))
    BY ContentAssumption
<1> QED BY <1>1, <1>2, SeqMonotonic

(* Lemma: going on to the next change leaves out the first one only         *)
(* (webhook.go, the loop of serveWebhook).                                  *)
LEMMA TailKeepsRest ==
    ASSUME NEW S, NEW s \in Seq(S), s # <<>>
    PROVE  /\ Tail(s) \in Seq(S) /\ Head(s) \in S
           /\ Range(s) \subseteq {Head(s)} \union Range(Tail(s))
<1>1. /\ Head(s) = s[1] /\ Tail(s) \in Seq(S) /\ Head(s) \in S
      /\ Len(Tail(s)) = Len(s) - 1
      /\ \A i \in 1..Len(Tail(s)) : Tail(s)[i] = s[i + 1]
    BY HeadTailProperties
<1>2. ASSUME NEW x \in Range(s), x # Head(s) PROVE x \in Range(Tail(s))
    <2>1. PICK i \in 1..Len(s) : s[i] = x
        BY RangeEquality
    <2>2. i - 1 \in 1..Len(Tail(s)) /\ Tail(s)[i - 1] = x
        BY <1>1, <1>2, <2>1
    <2> QED BY <1>1, <2>2, RangeEquality
<1> QED BY <1>1, <1>2

(* Lemma: a request at rest is a request.                                   *)
LEMMA NoRequestType == NoRequest \in Reqs
<1>1. <<>> \in Seq(Changes)
    BY EmptySeq
<1> QED BY <1>1 DEF NoRequest, Reqs

(* Lemma: nothing was sent, queued or recorded when the process starts.     *)
LEMMA InitIInv == Init => IInv
<1> SUFFICES ASSUME Init PROVE IInv
    OBVIOUS
<1>1. TypeOK
    BY NoRequestType DEF Init, TypeOK
<1>2. ServesChange /\ BeforeSeen /\ TodoOrKept /\ RedeliveryQueuesNothing
    BY DEF Init, ServesChange, BeforeSeen, TodoOrKept, RedeliveryQueuesNothing,
           Serving, NoRequest
<1>3. SeenKept /\ TakenSeen /\ AckedMeansQueued
    BY DEF Init, SeenKept, TakenSeen, AckedMeansQueued
<1> QED BY <1>1, <1>2, <1>3 DEF IInv

(* Lemma: a step of one request loses no change that is kept, unless it is  *)
(* the one this request was about to queue (webhook.go:110-111).            *)
LEMMA KeptStays ==
    ASSUME NEW h \in Requests,
           \A g \in Requests : g # h => req'[g] = req[g],
           hooked \subseteq hooked', torn \subseteq torn',
           req[h].pc = "submit" => ChangeAt(h) \in Kept'
    PROVE  Kept \subseteq Kept'
<1>1. ASSUME NEW g \in Requests, req[g].pc = "submit", req[g].d \notin Anonymous, g # h
      PROVE  ChangeAt(g) \in Kept'
    <2>1. ChangeAt(g)' = ChangeAt(g) /\ req'[g].pc = "submit" /\ req'[g].d = req[g].d
        BY <1>1 DEF ChangeAt
    <2> QED BY <1>1, <2>1 DEF Kept, Submitting
<1> QED BY <1>1 DEF Kept, Submitting

(* Lemma: Receive starts a request that has everything still to do.         *)
LEMMA ReceiveIInv ==
    ASSUME IInv, NEW h \in Requests, NEW d \in Deliveries, Receive(h, d)
    PROVE  IInv'
<1> DEFINE r == [pc |-> "look", d |-> d, todo |-> Content[d],
                 failed |-> FALSE, before |-> {x \in taken : x[1] = d}]
<1>1. /\ d \in outbox /\ req' = [req EXCEPT ![h] = r] /\ req[h].pc = "idle"
      /\ UNCHANGED <<outbox, acked, seen, queue, applied, mark, hooked, taken, torn>>
    BY DEF Receive
<1>2. Content[d] \in Seq(Changes)
    BY ContentType
<1>3. TypeOK'
    BY <1>1, <1>2 DEF IInv, TypeOK, Reqs
<1>4. \A g \in Requests : req'[g] = IF g = h THEN r ELSE req[g]
    BY <1>1 DEF IInv, TypeOK
<1>5. ServesChange' /\ RedeliveryQueuesNothing'
    BY <1>1, <1>4 DEF IInv, ServesChange, RedeliveryQueuesNothing, Serving, ChangeAt
<1>6. BeforeSeen'
    BY <1>1, <1>4 DEF IInv, BeforeSeen, TakenSeen, Serving
<1>7. Kept \subseteq Kept'
    BY <1>1, <1>4, KeptStays
<1>8. TodoOrKept'
    BY <1>1, <1>4, <1>7 DEF IInv, TodoOrKept, Serving
<1>9. SeenKept' /\ TakenSeen' /\ AckedMeansQueued'
    BY <1>1, <1>7 DEF IInv, SeenKept, TakenSeen, AckedMeansQueued
<1> QED BY <1>3, <1>5, <1>6, <1>8, <1>9 DEF IInv

(* Lemma: what Advanced makes of a request that has a change left.          *)
LEMMA AdvancedType ==
    ASSUME TypeOK, ServesChange, NEW h \in Requests, Serving(h), req[h].todo # <<>>,
           NEW f \in BOOLEAN
    PROVE  /\ Advanced(h, f) \in Reqs
           /\ Advanced(h, f).pc = "look" /\ Advanced(h, f).d = req[h].d
           /\ Advanced(h, f).before = req[h].before
           /\ Advanced(h, f).todo = Tail(req[h].todo)
           /\ Advanced(h, f).failed = (req[h].failed \/ f)
           /\ ChangeAt(h) \in Deliveries \X Changes
           /\ Range(req[h].todo)
                \subseteq {Head(req[h].todo)} \union Range(Tail(req[h].todo))
<1>1. req[h] \in Reqs /\ req[h].todo \in Seq(Changes) /\ req[h].d \in Deliveries
    BY DEF TypeOK, Reqs, ServesChange
<1>2. /\ Tail(req[h].todo) \in Seq(Changes) /\ Head(req[h].todo) \in Changes
      /\ Range(req[h].todo)
           \subseteq {Head(req[h].todo)} \union Range(Tail(req[h].todo))
    BY <1>1, TailKeepsRest
<1> DEFINE failed == req[h].failed \/ f
<1>3. failed \in BOOLEAN
    OBVIOUS
<1>4. Advanced(h, f) = [req[h] EXCEPT !.pc = "look", !.todo = Tail(req[h].todo),
                                      !.failed = failed]
    BY DEF Advanced
<1> HIDE DEF failed
<1>5. Advanced(h, f) = [pc |-> "look", d |-> req[h].d, todo |-> Tail(req[h].todo),
                        failed |-> failed, before |-> req[h].before]
    BY <1>1, <1>4 DEF Reqs
<1>6. Advanced(h, f) \in Reqs
    BY <1>1, <1>2, <1>3, <1>5 DEF Reqs
<1> QED BY <1>1, <1>2, <1>5, <1>6 DEF failed, ChangeAt

(* Lemma: on the way to "put" or to "submit" a request keeps all else.      *)
LEMMA MovesOn ==
    ASSUME TypeOK, NEW h \in Requests, Serving(h), NEW p \in {"put", "submit"},
           req' = [req EXCEPT ![h].pc = p]
    PROVE  /\ req' \in [Requests -> Reqs]
           /\ \A g \in Requests :
                /\ req'[g].d = req[g].d /\ req'[g].todo = req[g].todo
                /\ req'[g].failed = req[g].failed /\ req'[g].before = req[g].before
                /\ g # h => req'[g] = req[g]
                /\ Serving(g)' = Serving(g) /\ ChangeAt(g)' = ChangeAt(g)
           /\ req'[h].pc = p
<1>1. /\ req' \in [Requests -> Reqs]
      /\ \A g \in Requests : req'[g] = IF g = h THEN [req[h] EXCEPT !.pc = p]
                                       ELSE req[g]
    BY DEF TypeOK, Reqs
<1> QED BY <1>1 DEF TypeOK, Reqs, Serving, ChangeAt

(* Lemma: SeenDelivery either finds the row, and the change is kept, or     *)
(* finds none, and then no earlier request had written it; a delivery       *)
(* without an identifier is not looked up (webhook.go:93-107).              *)
LEMMA LookIInv ==
    ASSUME IInv, NEW h \in Requests, Look(h)
    PROVE  IInv'
<1>1. /\ Serving(h) /\ req[h].pc = "look" /\ req[h].todo # <<>>
      /\ UNCHANGED <<outbox, acked, seen, queue, applied, mark, hooked, taken, torn>>
    BY DEF Look, Serving
<1>2. TypeOK /\ ServesChange /\ req[h] \in Reqs /\ req[h].d \in Deliveries
    BY <1>1 DEF IInv, TypeOK, ServesChange
<1>3. TakenSeen'
    BY <1>1 DEF IInv, TakenSeen
<1>4. CASE /\ req[h].d \notin Anonymous /\ ChangeAt(h) \in seen
           /\ req' = [req EXCEPT ![h] = Advanced(h, FALSE)]
    <2> DEFINE r == Advanced(h, FALSE)
    <2>1. /\ r \in Reqs /\ r.pc = "look" /\ r.d = req[h].d
          /\ r.before = req[h].before
          /\ r.todo = Tail(req[h].todo) /\ r.failed = req[h].failed
          /\ Range(req[h].todo) \subseteq {Head(req[h].todo)} \union Range(r.todo)
        <3>1. req[h].failed \in BOOLEAN
            BY <1>2 DEF Reqs
        <3> QED BY <1>1, <1>2, <3>1, AdvancedType
    <2>2. \A g \in Requests : req'[g] = IF g = h THEN r ELSE req[g]
        BY <1>2, <1>4 DEF TypeOK
    <2>3. TypeOK'
        BY <1>1, <1>2, <1>4, <2>1 DEF TypeOK
    <2> HIDE DEF r
    <2>4. ServesChange' /\ RedeliveryQueuesNothing' /\ BeforeSeen'
        BY <1>1, <1>2, <2>1, <2>2
           DEF IInv, ServesChange, RedeliveryQueuesNothing, BeforeSeen, Serving, ChangeAt
    <2>5. Kept \subseteq Kept'
        BY <1>1, <2>2, KeptStays
    <2>6. ChangeAt(h) \in Kept'
        BY <1>4, <2>5 DEF IInv, SeenKept
    <2>7. TodoOrKept'
        BY <1>1, <2>1, <2>2, <2>5, <2>6 DEF IInv, TodoOrKept, Serving, ChangeAt
    <2>8. SeenKept' /\ AckedMeansQueued'
        BY <1>1, <2>5 DEF IInv, SeenKept, AckedMeansQueued
    <2> QED BY <1>3, <2>3, <2>4, <2>7, <2>8 DEF IInv
<1>5. ASSUME NEW p \in {"put", "submit"}, req' = [req EXCEPT ![h].pc = p],
             req[h].d \notin Anonymous => ChangeAt(h) \notin seen,
             p = "put" => req[h].d \notin Anonymous
      PROVE  IInv'
    <2>1. /\ req' \in [Requests -> Reqs]
          /\ \A g \in Requests :
               /\ req'[g].d = req[g].d /\ req'[g].todo = req[g].todo
               /\ req'[g].failed = req[g].failed /\ req'[g].before = req[g].before
               /\ g # h => req'[g] = req[g]
               /\ Serving(g)' = Serving(g) /\ ChangeAt(g)' = ChangeAt(g)
          /\ req'[h].pc = p
        BY <1>1, <1>2, <1>5, MovesOn
    <2>2. TypeOK'
        BY <1>1, <1>2, <2>1 DEF TypeOK
    <2>3. ServesChange' /\ BeforeSeen'
        BY <1>1, <1>5, <2>1 DEF IInv, ServesChange, BeforeSeen
    <2>4. Kept \subseteq Kept'
        BY <1>1, <2>1, KeptStays
    <2>5. TodoOrKept' /\ SeenKept' /\ AckedMeansQueued'
        BY <1>1, <2>1, <2>4 DEF IInv, TodoOrKept, SeenKept, AckedMeansQueued
    <2>6. req[h].d \notin Anonymous => ChangeAt(h) \notin req[h].before
        BY <1>1, <1>5 DEF IInv, BeforeSeen, ChangeAt
    <2>7. RedeliveryQueuesNothing'
        BY <2>1, <2>6 DEF IInv, RedeliveryQueuesNothing
    <2> QED BY <1>3, <2>2, <2>3, <2>5, <2>7 DEF IInv
<1> QED BY <1>4, <1>5 DEF Look, RowAt, Row, ChangeAt

(* Lemma: Put writes the row; its change is about to be queued.             *)
LEMMA PutIInv ==
    ASSUME IInv, NEW h \in Requests, Put(h)
    PROVE  IInv'
<1>1. /\ Serving(h) /\ req[h].todo # <<>> /\ req[h].pc = "put"
      /\ req' = [req EXCEPT ![h].pc = "submit"]
      /\ seen' = seen \union {ChangeAt(h)} /\ taken' = taken \union {ChangeAt(h)}
      /\ UNCHANGED <<outbox, acked, hooked, torn>>
    BY DEF Put, Serving, IInv, ServesChange, SeenAfter, RowAt, Row, ChangeAt
<1>2. TypeOK /\ ServesChange /\ ChangeAt(h) \in Deliveries \X Changes
    BY <1>1, AdvancedType DEF IInv
<1>3. /\ req' \in [Requests -> Reqs]
      /\ \A g \in Requests :
           /\ req'[g].d = req[g].d /\ req'[g].todo = req[g].todo
           /\ req'[g].failed = req[g].failed /\ req'[g].before = req[g].before
           /\ g # h => req'[g] = req[g]
           /\ Serving(g)' = Serving(g) /\ ChangeAt(g)' = ChangeAt(g)
      /\ req'[h].pc = "submit"
    BY <1>1, <1>2, MovesOn
<1>4. TypeOK'
    BY <1>1, <1>2, <1>3 DEF TypeOK
<1>5. ServesChange' /\ BeforeSeen' /\ RedeliveryQueuesNothing'
    BY <1>1, <1>3 DEF IInv, ServesChange, BeforeSeen, RedeliveryQueuesNothing
<1>6. Kept \subseteq Kept'
    BY <1>1, <1>3, KeptStays
<1>7. ChangeAt(h) \in Kept'
    <2>1. req[h].d \notin Anonymous
        BY <1>1 DEF IInv, ServesChange
    <2> QED BY <1>3, <2>1 DEF Kept, Submitting
<1>8. TodoOrKept' /\ SeenKept' /\ AckedMeansQueued'
    BY <1>1, <1>3, <1>6, <1>7 DEF IInv, TodoOrKept, SeenKept, AckedMeansQueued
<1>9. TakenSeen'
    BY <1>1 DEF IInv, TakenSeen
<1> QED BY <1>4, <1>5, <1>8, <1>9 DEF IInv

(* Lemma: Submit queues the change it was about to queue.                   *)
LEMMA SubmitIInv ==
    ASSUME IInv, NEW h \in Requests, Submit(h)
    PROVE  IInv'
<1> DEFINE r == Advanced(h, FALSE)
<1>1. /\ Serving(h) /\ req[h].todo # <<>>
      /\ req' = [req EXCEPT ![h] = r] /\ hooked' = hooked \union {ChangeAt(h)}
      /\ UNCHANGED <<outbox, acked, seen, taken, torn>>
    BY DEF Submit, Serving, IInv, ServesChange
<1>2. TypeOK /\ ServesChange /\ req[h] \in Reqs /\ req[h].failed \in BOOLEAN
    BY DEF IInv, TypeOK, Reqs
<1>3. /\ r \in Reqs /\ r.pc = "look" /\ r.d = req[h].d
      /\ r.before = req[h].before
      /\ r.todo = Tail(req[h].todo) /\ r.failed = req[h].failed
      /\ Range(req[h].todo) \subseteq {Head(req[h].todo)} \union Range(r.todo)
    BY <1>1, <1>2, AdvancedType
<1>4. \A g \in Requests : req'[g] = IF g = h THEN r ELSE req[g]
    BY <1>1, <1>2 DEF TypeOK
<1>5. TypeOK'
    BY <1>1, <1>2, <1>3 DEF TypeOK
<1> HIDE DEF r
<1>6. ServesChange' /\ BeforeSeen' /\ RedeliveryQueuesNothing'
    BY <1>1, <1>3, <1>4
       DEF IInv, ServesChange, RedeliveryQueuesNothing, BeforeSeen, Serving, ChangeAt
<1>7. ChangeAt(h) \in Kept'
    BY <1>1 DEF Kept
<1>8. Kept \subseteq Kept'
    BY <1>1, <1>4, <1>7, KeptStays
<1>9. TodoOrKept'
    BY <1>1, <1>3, <1>4, <1>7, <1>8 DEF IInv, TodoOrKept, Serving, ChangeAt
<1>10. SeenKept' /\ TakenSeen' /\ AckedMeansQueued'
    BY <1>1, <1>8 DEF IInv, SeenKept, TakenSeen, AckedMeansQueued
<1> QED BY <1>5, <1>6, <1>9, <1>10 DEF IInv

(* Lemma: after an error of the store the request goes on and will not be   *)
(* answered with 202; a row that landed all the same is torn.               *)
LEMMA StoreFailsIInv ==
    ASSUME IInv, NEW h \in Requests, StoreFails(h)
    PROVE  IInv'
<1> DEFINE r == Advanced(h, TRUE)
<1>1. /\ Serving(h) /\ req[h].todo # <<>> /\ req[h].pc # "submit"
      /\ req' = [req EXCEPT ![h] = r]
      /\ \/ UNCHANGED <<seen, torn>>
         \/ seen' = seen \union {ChangeAt(h)} /\ torn' = torn \union {ChangeAt(h)}
      /\ UNCHANGED <<outbox, acked, hooked, taken>>
    BY DEF StoreFails, Serving, IInv, ServesChange, RowAt, Row, ChangeAt
<1>2. TypeOK /\ ServesChange /\ req[h] \in Reqs
    BY DEF IInv, TypeOK, Reqs
<1>3. /\ r \in Reqs /\ r.pc = "look" /\ r.d = req[h].d
      /\ r.before = req[h].before /\ r.failed = TRUE
      /\ ChangeAt(h) \in Deliveries \X Changes
    BY <1>1, <1>2, AdvancedType
<1>4. \A g \in Requests : req'[g] = IF g = h THEN r ELSE req[g]
    BY <1>1, <1>2 DEF TypeOK
<1>5. TypeOK'
    BY <1>1, <1>2, <1>3 DEF TypeOK
<1> HIDE DEF r
<1>6. ServesChange' /\ RedeliveryQueuesNothing' /\ BeforeSeen'
    BY <1>1, <1>3, <1>4
       DEF IInv, ServesChange, RedeliveryQueuesNothing, BeforeSeen, Serving, ChangeAt
<1>7. Kept \subseteq Kept'
    BY <1>1, <1>4, KeptStays
<1>8. TodoOrKept'
    BY <1>3, <1>4, <1>7 DEF IInv, TodoOrKept, Serving
<1>9. SeenKept' /\ TakenSeen' /\ AckedMeansQueued'
    <2>1. seen' \subseteq Kept'
        BY <1>1, <1>7 DEF IInv, SeenKept, Kept
    <2> QED BY <1>1, <1>7, <2>1 DEF IInv, SeenKept, TakenSeen, AckedMeansQueued
<1> QED BY <1>5, <1>6, <1>8, <1>9 DEF IInv

(* Lemma: a request is answered with 202 only when it has nothing left to   *)
(* do and met no error, so all its changes are kept.                        *)
LEMMA RespondIInv ==
    ASSUME IInv, NEW h \in Requests, Respond(h)
    PROVE  IInv'
<1>1. /\ Serving(h) /\ req[h].pc = "look" /\ req[h].todo = <<>>
      /\ acked' = IF req[h].failed THEN acked ELSE acked \union {req[h].d}
      /\ req' = [req EXCEPT ![h] = NoRequest]
      /\ UNCHANGED <<outbox, seen, hooked, taken, torn>>
    BY DEF Respond, Serving
<1>2. TypeOK /\ req[h].d \in Deliveries /\ NoRequest \in Reqs
    BY <1>1, NoRequestType DEF IInv, ServesChange
<1>3. \A g \in Requests : req'[g] = IF g = h THEN NoRequest ELSE req[g]
    BY <1>1, <1>2 DEF TypeOK
<1>4. TypeOK'
    BY <1>1, <1>2 DEF TypeOK
<1>5. Kept \subseteq Kept'
    BY <1>1, <1>3, KeptStays
<1>6. /\ ServesChange' /\ RedeliveryQueuesNothing' /\ BeforeSeen' /\ TodoOrKept'
      /\ SeenKept' /\ TakenSeen'
    BY <1>1, <1>3, <1>5 DEF IInv, ServesChange, RedeliveryQueuesNothing, BeforeSeen,
           TodoOrKept, SeenKept, TakenSeen, Serving, NoRequest, ChangeAt
<1>7. Range(req[h].todo) = {}
    BY <1>1 DEF Range
<1>8. AckedMeansQueued'
    BY <1>1, <1>5, <1>7 DEF IInv, AckedMeansQueued, TodoOrKept
<1> QED BY <1>4, <1>6, <1>8 DEF IInv

(* Lemma: the peer may stop, and a row may expire only when the delivery    *)
(* cannot come again and nobody serves it.                                  *)
LEMMA ForgetIInv ==
    ASSUME IInv, NEW d \in Deliveries, PeerStops(d) \/ Expire(d)
    PROVE  IInv'
<1>1. /\ UNCHANGED <<acked, req, hooked, taken, torn>>
      /\ outbox' \subseteq outbox /\ seen' \subseteq seen
    BY DEF PeerStops, Expire
<1>2. Kept' = Kept
    BY <1>1 DEF Kept, Submitting, ChangeAt
<1>3. TakenSeen' /\ BeforeSeen'
    <2>1. CASE PeerStops(d)
        BY <1>1, <2>1 DEF PeerStops, IInv, TakenSeen, BeforeSeen, Serving
    <2>2. CASE Expire(d)
        <3>1. PICK row \in seen : row[1] = d /\ seen' = seen \ {row}
            BY <2>2 DEF Expire
        <3>2. d \notin outbox /\ outbox' = outbox /\ \A h \in Requests : req[h].d # d
            BY <2>2 DEF Expire
        <3> QED BY <1>1, <3>1, <3>2 DEF IInv, TakenSeen, BeforeSeen, Serving
    <2> QED BY <2>1, <2>2
<1> QED BY <1>1, <1>2, <1>3 DEF IInv, TypeOK, ServesChange, SeenKept, TodoOrKept,
        AckedMeansQueued, RedeliveryQueuesNothing, Serving, ChangeAt

(* Lemma: polls and workers touch neither rows nor requests; a crash ends   *)
(* the requests and leaves torn the rows they had just written.             *)
LEMMA DaemonIInv ==
    ASSUME IInv, Poll \/ (\E c \in Changes : Work(c)) \/ Crash \/ UNCHANGED vars
    PROVE  IInv'
<1>1. CASE Poll \/ (\E c \in Changes : Work(c)) \/ UNCHANGED vars
    <2>1. UNCHANGED <<outbox, acked, seen, req, hooked, taken, torn>>
        BY <1>1 DEF Poll, Work, vars
    <2>2. Kept' = Kept
        BY <2>1 DEF Kept, Submitting, ChangeAt
    <2> QED BY <2>1, <2>2 DEF IInv, TypeOK, ServesChange, SeenKept, TodoOrKept,
           AckedMeansQueued, TakenSeen, BeforeSeen, RedeliveryQueuesNothing, Serving, ChangeAt
<1>2. CASE Crash
    <2>1. /\ req' = [h \in Requests |-> NoRequest] /\ torn' = torn \union Submitting
          /\ UNCHANGED <<outbox, acked, seen, hooked, taken>>
        BY <1>2 DEF Crash
    <2>2. TypeOK'
        BY <2>1, NoRequestType DEF IInv, TypeOK
    <2>3. Kept \subseteq Kept'
        BY <2>1 DEF Kept
    <2> QED BY <2>1, <2>2, <2>3 DEF IInv, ServesChange, SeenKept, TodoOrKept,
           AckedMeansQueued, TakenSeen, BeforeSeen, RedeliveryQueuesNothing, Serving,
           NoRequest, ChangeAt
<1> QED BY <1>1, <1>2

(* Theorem: rows, requests and the queue stay in the relation IInv states,  *)
(* whatever requests, redeliveries, errors and crashes come in which order, *)
(* the moment between a row and its change in the queue included.           *)
THEOREM DeliveryInvariant == Spec => []IInv
<1>1. Init => IInv
    BY InitIInv
<1>2. IInv /\ [Next]_vars => IInv'
    <2> SUFFICES ASSUME IInv, [Next]_vars PROVE IInv'
        OBVIOUS
    <2>1. ASSUME NEW h \in Requests, Serve(h) \/ StoreFails(h) PROVE IInv'
        BY <2>1, LookIInv, PutIInv, SubmitIInv, RespondIInv, StoreFailsIInv DEF Serve
    <2>2. ASSUME NEW h \in Requests, NEW d \in Deliveries, Receive(h, d) PROVE IInv'
        BY <2>2, ReceiveIInv
    <2>3. ASSUME NEW d \in Deliveries, PeerStops(d) \/ Expire(d) PROVE IInv'
        BY <2>3, ForgetIInv
    <2>4. CASE Poll \/ (\E c \in Changes : Work(c)) \/ Crash \/ UNCHANGED vars
        BY <2>4, DaemonIInv
    <2> QED BY <2>1, <2>2, <2>3, <2>4 DEF Next
<1> QED BY <1>1, <1>2, PTL DEF Spec

(* Theorem: each change of a delivery that serveWebhook answers with 202 is *)
(* queued, or the request that wrote its row is about to queue it; the one  *)
(* exception is a row that outlived that request (webhook.go:94-111).       *)
THEOREM AcknowledgedIsQueued == Spec => []AckedMeansQueued
<1>1. IInv => AckedMeansQueued
    BY DEF IInv
<1> QED BY <1>1, DeliveryInvariant, PTL

(* Theorem: a redelivery that arrives after the row of a change was written *)
(* never queues the change again, crashes and errors included               *)
(* (typed.go:229-230).                                                      *)
THEOREM RedeliveryIsDropped == Spec => []RedeliveryQueuesNothing
<1>1. IInv => RedeliveryQueuesNothing
    BY DEF IInv
<1> QED BY <1>1, DeliveryInvariant, PTL
=============================================================================
