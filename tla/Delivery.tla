------------------------------ MODULE Delivery ------------------------------
(***************************************************************************)
(* Changes on their way into the queue: serveWebhook and ingest of          *)
(* internal/engine/webhook.go, SeenDelivery of internal/store/typed.go, and *)
(* the daemon's loop of cmd/crm-bisync/main.go, which polls and sweeps.     *)
(*                                                                          *)
(* The peer sends a delivery, which carries several changes, until it is    *)
(* answered with 202 or gives up, and may send it again after that.  Each   *)
(* request is a goroutine; for each change it reads the delivery row, writes *)
(* it and queues the change, in three steps.  A delivery without an         *)
(* identifier has no rows.                                                  *)
(***************************************************************************)
EXTENDS Integers, Sequences, FiniteSets, Functions

CONSTANTS
    Deliveries,
    Content,       \* Content[d]: the changes of delivery d, in order
    Anonymous,     \* deliveries without a DeliveryID
    Requests,      \* requests that may be served at once
    MaxErrors,     \* bound on store errors
    MaxCrashes,    \* bound on crashes
    NoDelivery

ASSUME ContentAssumption ==
    /\ DOMAIN Content = Deliveries
    /\ \A d \in Deliveries : Content[d] \in Seq(Range(Content[d]))
    /\ Anonymous \subseteq Deliveries
ASSUME BoundsAssumption == MaxErrors \in Nat /\ MaxCrashes \in Nat

Changes == UNION {Range(Content[d]) : d \in Deliveries}

VARIABLES
    outbox,    \* deliveries the peer may still send
    acked,     \* deliveries answered with 202
    seen,      \* delivery rows in the store
    req,       \* req[h]: the request h is serving
    queue,     \* changes in the in-memory queue
    applied,   \* changes worked off
    mark,      \* changes the watermark has passed
    hooked,    \* the changes of a delivery a request has queued
    taken,     \* delivery rows written without an error
    torn,      \* delivery rows written whose change was then not queued
    errors, crashes

vars == <<outbox, acked, seen, req, queue, applied, mark, hooked, taken, torn, errors, crashes>>

NoRequest == [pc |-> "idle", d |-> NoDelivery, todo |-> <<>>, failed |-> FALSE, before |-> {}]

Init ==
    /\ outbox = Deliveries /\ acked = {}
    /\ seen = {}
    /\ req = [h \in Requests |-> NoRequest]
    /\ queue = {} /\ applied = {} /\ mark = {}
    /\ hooked = {} /\ taken = {} /\ torn = {}
    /\ errors = 0 /\ crashes = 0

-----------------------------------------------------------------------------
(* serveWebhook and ingest.                                                 *)

\* Mutant: a delivery is deduplicated as a whole.
RowOfDelivery(d, c) == <<d>>

\* The key of a delivery row: the delivery and the change in it.
Row(d, c) == <<d, c>>

RowAt(h) == Row(req[h].d, Head(req[h].todo))

Receive(h, d) ==
    /\ req[h].pc = "idle"
    /\ d \in outbox
    /\ req' = [req EXCEPT ![h] = [pc |-> "look", d |-> d, todo |-> Content[d],
                                  failed |-> FALSE,
                                  before |-> {x \in taken : x[1] = d}]]
    /\ UNCHANGED <<outbox, acked, seen, queue, applied, mark, hooked, taken, torn, errors, crashes>>

\* On to the next change of the delivery.
Advanced(h, failed) ==
    [req[h] EXCEPT !.pc = "look", !.todo = Tail(@), !.failed = @ \/ failed]

\* SeenDelivery reads the row.  Without an identifier there is none to read.
Look(h) ==
    /\ req[h].pc = "look" /\ req[h].todo # <<>>
    /\ \/ /\ req[h].d \in Anonymous
          /\ req' = [req EXCEPT ![h].pc = "submit"]
       \/ /\ req[h].d \notin Anonymous /\ RowAt(h) \in seen
          /\ req' = [req EXCEPT ![h] = Advanced(h, FALSE)]
       \/ /\ req[h].d \notin Anonymous /\ RowAt(h) \notin seen
          /\ req' = [req EXCEPT ![h].pc = "put"]
    /\ UNCHANGED <<outbox, acked, seen, queue, applied, mark, hooked, taken, torn, errors, crashes>>

\* Mutant: the row is not kept.
SeenForgotten(row) == seen

SeenAfter(row) == seen \union {row}

\* The change a request is at.
ChangeAt(h) == <<req[h].d, Head(req[h].todo)>>

\* SeenDelivery writes the row.
Put(h) ==
    /\ req[h].pc = "put"
    /\ seen' = SeenAfter(RowAt(h))
    /\ taken' = taken \union {ChangeAt(h)}
    /\ req' = [req EXCEPT ![h].pc = "submit"]
    /\ UNCHANGED <<outbox, acked, queue, applied, mark, hooked, torn, errors, crashes>>

\* The change is queued for its syncs.
Submit(h) ==
    /\ req[h].pc = "submit"
    /\ queue' = queue \union {Head(req[h].todo)}
    /\ hooked' = hooked \union {ChangeAt(h)}
    /\ req' = [req EXCEPT ![h] = Advanced(h, FALSE)]
    /\ UNCHANGED <<outbox, acked, seen, applied, mark, taken, torn, errors, crashes>>

\* The store failed; a write may have landed all the same (file.go:361).
\* The error is kept for the answer and the other changes go on.
StoreFails(h) ==
    /\ errors < MaxErrors
    /\ errors' = errors + 1
    /\ \/ /\ req[h].pc = "look" /\ req[h].todo # <<>> /\ req[h].d \notin Anonymous
          /\ UNCHANGED <<seen, torn>>
       \/ req[h].pc = "put" /\ UNCHANGED <<seen, torn>>
       \/ /\ req[h].pc = "put"
          /\ seen' = seen \union {RowAt(h)} /\ torn' = torn \union {ChangeAt(h)}
    /\ req' = [req EXCEPT ![h] = Advanced(h, TRUE)]
    /\ UNCHANGED <<outbox, acked, queue, applied, mark, hooked, taken, crashes>>

\* 202, or 500 if any change met an error.
Respond(h) ==
    /\ req[h].pc = "look" /\ req[h].todo = <<>>
    /\ acked' = IF req[h].failed THEN acked ELSE acked \union {req[h].d}
    /\ req' = [req EXCEPT ![h] = NoRequest]
    /\ UNCHANGED <<outbox, seen, queue, applied, mark, hooked, taken, torn, errors, crashes>>

\* External: the peer's redelivery window for d is over.
PeerStops(d) ==
    /\ d \in outbox
    /\ outbox' = outbox \ {d}
    /\ UNCHANGED <<acked, seen, req, queue, applied, mark, hooked, taken, torn, errors, crashes>>

\* deliveryTTL outlives that window.  The row is ignored from then on and the
\* daemon's next Sweep drops it.
Expire(d) ==
    /\ d \notin outbox
    /\ \A h \in Requests : req[h].d # d
    /\ \E row \in seen : row[1] = d /\ seen' = seen \ {row}
    /\ UNCHANGED <<outbox, acked, req, queue, applied, mark, hooked, taken, torn, errors, crashes>>

-----------------------------------------------------------------------------
(* The daemon: PollAll on every tick, and the pool.                         *)

\* Mutant: the mark moves when the changes are queued.
MarkOnSubmit == Changes

\* PollAll submits and does not commit.
MarkAfterPoll == mark

Poll ==
    /\ queue' = queue \union (Changes \ mark)
    /\ mark' = MarkAfterPoll
    /\ UNCHANGED <<outbox, acked, seen, req, applied, hooked, taken, torn, errors, crashes>>

\* A worker takes a change to its end; WorkQueue and Pipeline have the detail.
Work(c) ==
    /\ c \in queue
    /\ queue' = queue \ {c}
    /\ applied' = applied \union {c}
    /\ UNCHANGED <<outbox, acked, seen, req, mark, hooked, taken, torn, errors, crashes>>

\* The changes whose row a request has written and which it is about to queue.
Submitting ==
    {ChangeAt(h) : h \in {g \in Requests : req[g].pc = "submit" /\ req[g].d \notin Anonymous}}

\* The queue and the requests are gone; the rows are not.
Crash ==
    /\ crashes < MaxCrashes
    /\ crashes' = crashes + 1
    /\ queue' = {}
    /\ req' = [h \in Requests |-> NoRequest]
    /\ torn' = torn \union Submitting
    /\ UNCHANGED <<outbox, acked, seen, applied, mark, hooked, taken, errors>>

Serve(h) == Look(h) \/ Put(h) \/ Submit(h) \/ Respond(h)

Next ==
    \/ \E h \in Requests : Serve(h) \/ StoreFails(h) \/ \E d \in Deliveries : Receive(h, d)
    \/ \E d \in Deliveries : PeerStops(d) \/ Expire(d)
    \/ Poll \/ (\E c \in Changes : Work(c)) \/ Crash

Spec == Init /\ [][Next]_vars

\* The ticker fires and workers run.  Nothing is assumed of the peer, nor of
\* the requests.
FairSpec ==
    /\ Spec
    /\ WF_vars(Poll)
    /\ \A c \in Changes : WF_vars(Work(c))
-----------------------------------------------------------------------------
\* The changes of a delivery that are queued or about to be, or whose row has
\* outlived the request that wrote it.
Kept == hooked \union torn \union Submitting

(* Safety: when a delivery is answered with 202, each of its changes was    *)
(* queued, or the request that wrote its row is about to queue it, however  *)
(* many attempts failed half way and whichever request answers (typed.go:244, *)
(* webhook.go:94-111).  The one way out is a row that landed although the   *)
(* store reported an error, or whose process ended before the change was    *)
(* queued.                                                                  *)
AckedMeansQueued ==
    \A d \in acked : \A c \in Range(Content[d]) : <<d, c>> \in Kept

(* Safety: once the row of a change was written without an error, a         *)
(* redelivery that arrives later does not queue the change again            *)
(* (typed.go:229-230), although reading and writing a row are two steps.    *)
RedeliveryQueuesNothing ==
    \A h \in Requests :
        req[h].pc \in {"put", "submit"} /\ req[h].d \notin Anonymous
            => ChangeAt(h) \notin req[h].before

(* Safety: the request that answers 202 has seen all its changes queued.    *)
AnswerFollowsQueue ==
    [][\A d \in acked' \ acked : \A c \in Range(Content[d]) : <<d, c>> \in hooked \union torn]_vars

(* Safety: nor is a change queued twice by requests that overlap            *)
(* (typed.go:229-230).                                                      *)
QueuedOnce ==
    [][\A h \in Requests :
           Submit(h) /\ req[h].d \notin Anonymous => ChangeAt(h) \notin hooked]_vars

\* What makes the two invariants inductive.
Reqs == [pc : {"idle", "look", "put", "submit"}, d : Deliveries \union {NoDelivery},
         todo : Seq(Changes), failed : BOOLEAN, before : SUBSET (Deliveries \X Changes)]

TypeOK ==
    /\ outbox \subseteq Deliveries /\ acked \subseteq Deliveries
    /\ req \in [Requests -> Reqs]
    /\ seen \subseteq Deliveries \X Changes /\ taken \subseteq Deliveries \X Changes

Serving(h) == req[h].pc # "idle"

\* A request in service is about a delivery, one about to write a row about an
\* identified one, and one about to write or to queue has a change.
ServesChange ==
    \A h \in Requests : /\ Serving(h) => req[h].d \in Deliveries
                        /\ req[h].pc = "put" => req[h].d \notin Anonymous
                        /\ req[h].pc \in {"put", "submit"} => req[h].todo # <<>>

\* A row stands for a change that is kept ...
SeenKept == seen \subseteq Kept

\* ... so what a request has passed without an error is kept.
TodoOrKept ==
    \A h \in Requests : Serving(h) /\ ~req[h].failed =>
        \A c \in Range(Content[req[h].d]) :
            c \in Range(req[h].todo) \/ <<req[h].d, c>> \in Kept

\* A row lasts as long as its delivery may come again ...
TakenSeen == \A x \in taken : x[1] \in outbox => x \in seen

\* ... and as long as a request serves the delivery.
BeforeSeen ==
    \A h \in Requests : Serving(h) =>
        \A x \in req[h].before : x[1] = req[h].d => x \in seen

IInv ==
    /\ TypeOK /\ ServesChange
    /\ SeenKept /\ TodoOrKept /\ AckedMeansQueued
    /\ TakenSeen /\ BeforeSeen /\ RedeliveryQueuesNothing

(* Liveness: every change is applied in the end, by webhook or by poll,     *)
(* also when its delivery was marked as seen and then lost with the queue   *)
(* (main.go:266-268).                                                       *)
EveryChangeApplied == <>(applied = Changes)

(* Liveness: the daemon's watermark follows the work (main.go:267-268, a    *)
(* mark stays only for an unreachable peer).                                *)
MarkFollows == <>(mark # {})
=============================================================================
