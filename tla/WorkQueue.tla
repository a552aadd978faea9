----------------------------- MODULE WorkQueue -----------------------------
(***************************************************************************)
(* The in-process queue and the pool that serves it: workQueue of           *)
(* internal/engine/queue.go, Submit, Drain, runTask, worker, Stop, WaitIdle *)
(* and Replay of run.go, and the waiting half of Cycle in poll.go.          *)
(*                                                                          *)
(* What a task is about is an item; what processing it comes to is left     *)
(* open: success, an error worth another attempt, or one that is not.       *)
(* Each operation of the queue is one step, with the token it sends; taking *)
(* a token is another.  Time shows only as backoffs that elapse.            *)
(***************************************************************************)
EXTENDS Integers, Sequences, FiniteSets

CONSTANTS
    Pool,          \* goroutines there are for Start
    Deployments,   \* how the engine is used: see below
    Cycler,        \* the goroutine that calls Cycle, one more worker in Drain
    Waiters,       \* goroutines that call WaitIdle
    Polled,        \* the items a cycle's polls found
    Hooked,        \* items that arrive by webhook
    LeftOver,      \* items an earlier process dead-lettered
    MaxAttempts,   \* Config.MaxAttempts
    MaxTasks,      \* bound on tasks submitted
    StoreFails,    \* may a write to the dead-letter queue fail?
    NoTask

ASSUME PoolAssumption == IsFiniteSet(Pool) /\ Cycler \notin Pool
\* The pool, empty in a dry run; who calls WaitIdle; and what may happen:
\* webhooks, replayed dead letters, "stop" (Engine.Stop), "cancel" (the context
\* ends), "exit" (the process ends).
ASSUME DeploymentsAssumption ==
    Deployments \subseteq [pool : SUBSET Pool, waiters : SUBSET Waiters,
                           events : SUBSET {"hook", "replay", "stop", "cancel", "exit"}]
ASSUME AttemptsAssumption == MaxAttempts \in Nat \ {0} /\ MaxTasks \in Nat

Items == Polled \union Hooked \union LeftOver

Runners == Pool \union {Cycler}

Ids == 1..MaxTasks

Max1(n) == IF n < 1 THEN 1 ELSE n

VARIABLES
    dep,       \* the deployment, fixed when the engine is built
    task,      \* every task submitted: its item, attempts, is its handle closed
    ready,     \* q.ready
    delayed,   \* q.delayed, soonest first
    due,       \* how many of delayed have waited out their backoff
    closed,    \* q.closed
    depth,     \* q.depth
    wake,      \* tokens in q.wake
    empty,     \* tokens in q.empty
    run,       \* run[p]: where a runner is, its task, its timer
    batch,     \* the tasks of the cycle in progress
    idler,     \* idler[x]: where a caller of WaitIdle is
    stopped,   \* e.stopped is closed
    cancelled, \* the context has ended
    handled,   \* items processed to the end
    dlq,       \* items in the dead-letter queue
    passed     \* items the watermark has moved past

\* The capacity of q.wake.
WakeSlots == Max1(Cardinality(dep.pool))

queueVars == <<task, ready, delayed, due, closed, depth, wake, empty>>
\* What outlives the process: the deployment and the rows.
lastingVars == <<dep, handled, dlq, passed>>
vars == <<queueVars, run, batch, idler, stopped, cancelled, lastingVars>>

At(p, pc) == run[p].pc = pc

Going(pc, i, timer) == [pc |-> pc, task |-> i, timer |-> timer]

Init ==
    /\ dep \in Deployments
    /\ task = <<>> /\ ready = <<>> /\ delayed = <<>> /\ due = 0
    /\ closed = FALSE /\ depth = 0 /\ wake = 0 /\ empty = 0
    /\ run = [p \in Runners |-> Going(CASE p = Cycler -> "submit"
                                      [] p \in dep.pool -> "top"
                                      [] OTHER -> "gone", NoTask, <<>>)]
    /\ batch = {}
    /\ idler = [x \in Waiters |-> IF x \in dep.waiters THEN "calling" ELSE "returned"]
    /\ stopped = FALSE /\ cancelled = FALSE
    /\ handled = {} /\ dlq = LeftOver /\ passed = {}

-----------------------------------------------------------------------------
(* workQueue.                                                               *)

\* Mutant: nobody is woken.
NoSignal == wake

\* Mutant: tokens pile up.
SignalAlways == wake + 1

\* signal: one more token unless the channel is full.
Signalled == IF wake < WakeSlots THEN wake + 1 ELSE wake

\* push, as Submit calls it: a closed queue releases the handle at once.
Push(item) ==
    /\ Len(task) < MaxTasks
    /\ task' = Append(task, [item |-> item, attempts |-> 0, done |-> closed])
    /\ IF closed THEN UNCHANGED <<ready, depth, wake>>
       ELSE /\ ready' = Append(ready, Len(task) + 1)
            /\ depth' = depth + 1
            /\ wake' = Signalled
    /\ UNCHANGED <<delayed, due, closed, empty>>

\* promote: the backoffs that have elapsed.
Promoted == ready \o SubSeq(delayed, 1, due)

\* Mutant: the handle is released and the task stays counted.
CompleteUncounted(i) ==
    /\ task' = [task EXCEPT ![i].done = TRUE]
    /\ UNCHANGED <<ready, delayed, due, closed, depth, wake, empty>>

\* complete: release the handle, count the task out, report an empty queue.
Complete(i) ==
    /\ task' = [task EXCEPT ![i].done = TRUE]
    /\ depth' = depth - 1
    /\ empty' = IF depth = 1 THEN 1 ELSE empty
    /\ UNCHANGED <<ready, delayed, due, closed, wake>>

\* Mutant: a retry releases its handle.
RequeueDone(i) == TRUE

\* A retry keeps its handle unless the queue was closed meanwhile.
Requeued(i) == closed

\* requeue: behind everything that is already due, wherever its backoff puts
\* it; a closed queue releases the handle instead.
Requeue(i) ==
    /\ task' = [task EXCEPT ![i].attempts = @ + 1, ![i].done = Requeued(i)]
    /\ IF closed THEN UNCHANGED <<delayed, wake>>
       ELSE /\ \E n \in due..Len(delayed) :
                 delayed' = SubSeq(delayed, 1, n) \o <<i>> \o SubSeq(delayed, n + 1, Len(delayed))
            /\ wake' = Signalled
    /\ UNCHANGED <<ready, due, closed, depth, empty>>

Elapse ==
    /\ due < Len(delayed)
    /\ due' = due + 1
    /\ UNCHANGED <<task, ready, delayed, closed, depth, wake, empty, run, batch,
                   idler, stopped, cancelled, lastingVars>>

-----------------------------------------------------------------------------
(* Running tasks: worker's loop, Drain's loop, runTask.                     *)

Loop(p) == IF p = Cycler THEN "drain" ELSE "top"

\* next finds a task.  A runner looks for shutdown first.
Take(p) ==
    /\ At(p, Loop(p))
    /\ ~cancelled /\ (p \in Pool => ~stopped)
    /\ Promoted # <<>>
    /\ run' = [run EXCEPT ![p] = Going("running", Head(Promoted), <<>>)]
    /\ ready' = Tail(Promoted)
    /\ delayed' = SubSeq(delayed, due + 1, Len(delayed))
    /\ due' = 0
    /\ UNCHANGED <<task, closed, depth, wake, empty, batch, idler, stopped,
                   cancelled, lastingVars>>

Back(p) == run' = [run EXCEPT ![p] = Going(Loop(p), NoTask, <<>>)]

Succeed(p) ==
    LET i == run[p].task IN
    /\ At(p, "running")
    /\ handled' = handled \union {task[i].item}
    /\ Complete(i)
    /\ Back(p)
    /\ UNCHANGED <<batch, idler, stopped, cancelled, dlq, passed, dep>>

\* The context ended: the task is completed, not processed.
Abandon(p) ==
    /\ At(p, "running")
    /\ cancelled
    /\ Complete(run[p].task)
    /\ Back(p)
    /\ UNCHANGED <<batch, idler, stopped, cancelled, lastingVars>>

MayRetry(i) == task[i].attempts + 1 < MaxAttempts

Retry(p) ==
    LET i == run[p].task IN
    /\ At(p, "running")
    /\ ~cancelled
    /\ MayRetry(i)
    /\ Requeue(i)
    /\ Back(p)
    /\ UNCHANGED <<batch, idler, stopped, cancelled, lastingVars>>

\* Mutant: the dead-letter queue is not written.
NotKept(item) == dlq

\* deadLetter.
Kept(item) == dlq \union {item}

\* A permanent error at any attempt, a retryable one at the last.  When the
\* dead letter cannot be written that is logged and the task completes.
GiveUp(p) ==
    LET i == run[p].task IN
    /\ At(p, "running")
    /\ ~cancelled
    /\ dlq' \in {Kept(task[i].item)} \union IF StoreFails THEN {dlq} ELSE {}
    /\ Complete(i)
    /\ Back(p)
    /\ UNCHANGED <<batch, idler, stopped, cancelled, handled, passed, dep>>

\* next finds nothing: a worker looks up the soonest retry ...
FindNothing(p) ==
    /\ p \in Pool /\ At(p, "top")
    /\ ~cancelled /\ ~stopped
    /\ Promoted = <<>>
    /\ run' = [run EXCEPT ![p].pc = "looking"]
    /\ UNCHANGED <<queueVars, batch, idler, stopped, cancelled, lastingVars>>

\* ... and sleeps, with a timer if there is one.
Sleep(p) ==
    /\ At(p, "looking")
    /\ run' = [run EXCEPT ![p] = Going("asleep", NoTask,
         IF delayed = <<>> THEN <<>> ELSE <<Head(delayed), task[Head(delayed)].attempts>>)]
    /\ UNCHANGED <<queueVars, batch, idler, stopped, cancelled, lastingVars>>

Awaken(p) ==
    /\ At(p, "asleep")
    /\ wake > 0
    /\ wake' = wake - 1
    /\ Back(p)
    /\ UNCHANGED <<task, ready, delayed, due, closed, depth, empty, batch, idler,
                   stopped, cancelled, lastingVars>>

\* The retry the timer was set for is still waiting out that same backoff.
StillWaiting(timer) ==
    \E n \in due + 1..Len(delayed) : <<delayed[n], task[delayed[n]].attempts>> = timer

TimerFires(p) ==
    /\ At(p, "asleep")
    /\ run[p].timer # <<>> /\ ~StillWaiting(run[p].timer)
    /\ Back(p)
    /\ UNCHANGED <<queueVars, batch, idler, stopped, cancelled, lastingVars>>

\* Mutant: a sleeping worker does not watch for shutdown.
LeaveAwake(p) ==
    /\ p \in Pool /\ At(p, "top")
    /\ cancelled \/ stopped
    /\ run' = [run EXCEPT ![p].pc = "gone"]
    /\ UNCHANGED <<queueVars, batch, idler, stopped, cancelled, lastingVars>>

Leave(p) ==
    /\ p \in Pool /\ run[p].pc \in {"top", "asleep"}
    /\ cancelled \/ stopped
    /\ run' = [run EXCEPT ![p].pc = "gone"]
    /\ UNCHANGED <<queueVars, batch, idler, stopped, cancelled, lastingVars>>

Finish(p) == Succeed(p) \/ Abandon(p) \/ Retry(p) \/ GiveUp(p)

Runner(p) ==
    \/ Take(p) \/ Finish(p) \/ FindNothing(p) \/ Sleep(p)
    \/ Awaken(p) \/ TimerFires(p) \/ Leave(p)

-----------------------------------------------------------------------------
(* Cycle: submit what the polls found, drain, wait for every handle.        *)

Submitted == {task[i].item : i \in batch}

CycleSubmit(item) ==
    /\ At(Cycler, "submit")
    /\ item \in Polled \ Submitted
    /\ Push(item)
    /\ batch' = batch \union {Len(task) + 1}
    /\ UNCHANGED <<run, idler, stopped, cancelled, lastingVars>>

CycleDrain ==
    /\ At(Cycler, "submit") /\ Polled = Submitted
    /\ run' = [run EXCEPT ![Cycler].pc = "drain"]
    /\ UNCHANGED <<queueVars, batch, idler, stopped, cancelled, lastingVars>>

\* Drain returns: nothing is ready, or the context has ended.
CycleWait ==
    /\ At(Cycler, "drain")
    /\ cancelled \/ Promoted = <<>>
    /\ run' = [run EXCEPT ![Cycler].pc = "commit"]
    /\ UNCHANGED <<queueVars, batch, idler, stopped, cancelled, lastingVars>>

\* Commit saw every handle closed and advances the watermark.
CycleCommit ==
    /\ At(Cycler, "commit")
    /\ \A i \in batch : task[i].done
    /\ passed' = passed \union Submitted
    /\ run' = [run EXCEPT ![Cycler].pc = "returned"]
    /\ UNCHANGED <<queueVars, batch, idler, stopped, cancelled, handled, dlq, dep>>

\* Commit saw the context end first; with both ready, select takes either.
CycleGivesUp ==
    /\ At(Cycler, "commit")
    /\ cancelled
    /\ run' = [run EXCEPT ![Cycler].pc = "returned"]
    /\ UNCHANGED <<queueVars, batch, idler, stopped, cancelled, lastingVars>>

CycleStep == (\E item \in Polled : CycleSubmit(item)) \/ CycleDrain \/ CycleWait
             \/ CycleCommit \/ CycleGivesUp

-----------------------------------------------------------------------------
(* Webhooks, WaitIdle, Replay, shutdown.                                    *)

\* MaxTasks bounds what comes from outside; it never keeps a cycle waiting.
Room == Len(task) + Cardinality(Polled \ Submitted) < MaxTasks

Hook(item) ==
    /\ "hook" \in dep.events
    /\ item \in Hooked /\ ~stopped /\ Room
    /\ \A i \in DOMAIN task : task[i].item # item
    /\ Push(item)
    /\ UNCHANGED <<run, batch, idler, stopped, cancelled, lastingVars>>

\* WaitIdle: look at the depth, then wait for a token and look again.
IdleLook(x) ==
    /\ idler[x] = "calling"
    /\ idler' = [idler EXCEPT ![x] = IF depth = 0 THEN "returned" ELSE "blocked"]
    /\ UNCHANGED <<queueVars, run, batch, stopped, cancelled, lastingVars>>

IdleToken(x) ==
    /\ idler[x] = "blocked"
    /\ empty > 0
    /\ empty' = empty - 1
    /\ idler' = [idler EXCEPT ![x] = "calling"]
    /\ UNCHANGED <<task, ready, delayed, due, closed, depth, wake, run, batch,
                   stopped, cancelled, lastingVars>>

IdleGivesUp(x) ==
    /\ idler[x] = "blocked"
    /\ cancelled
    /\ idler' = [idler EXCEPT ![x] = "returned"]
    /\ UNCHANGED <<queueVars, run, batch, stopped, cancelled, lastingVars>>

Idle(x) == IdleLook(x) \/ IdleToken(x) \/ IdleGivesUp(x)

\* Replay: submit first, then remove the row; one step, as nobody else looks
\* at the row in between.
Replay(item) ==
    /\ "replay" \in dep.events
    /\ item \in dlq
    /\ ~At(Cycler, "gone") /\ Room
    /\ Push(item)
    /\ dlq' = dlq \ {item}
    /\ UNCHANGED <<run, batch, idler, stopped, cancelled, handled, passed, dep>>

Cancel ==
    /\ "cancel" \in dep.events /\ ~cancelled
    /\ cancelled' = TRUE
    /\ UNCHANGED <<queueVars, run, batch, idler, stopped, lastingVars, dep>>

\* Stop: close e.stopped, then the queue: what is left in it is abandoned.
Stop ==
    LET pending == {ready[n] : n \in DOMAIN ready} \union {delayed[n] : n \in DOMAIN delayed}
    IN
    /\ "stop" \in dep.events /\ ~stopped
    /\ stopped' = TRUE
    /\ closed' = TRUE
    /\ task' = [i \in DOMAIN task |-> IF i \in pending THEN [task[i] EXCEPT !.done = TRUE]
                                      ELSE task[i]]
    /\ ready' = <<>> /\ delayed' = <<>> /\ due' = 0
    /\ depth' = 0
    /\ empty' = 1
    /\ UNCHANGED <<wake, run, batch, idler, cancelled, lastingVars>>

\* The process ends; the store is all that is left.
Exit ==
    /\ "exit" \in dep.events /\ ~stopped
    /\ stopped' = TRUE /\ closed' = TRUE
    /\ task' = <<>> /\ ready' = <<>> /\ delayed' = <<>> /\ due' = 0
    /\ depth' = 0 /\ wake' = 0 /\ empty' = 0
    /\ run' = [p \in Runners |-> Going("gone", NoTask, <<>>)]
    /\ batch' = {}
    /\ idler' = [x \in Waiters |-> "returned"]
    /\ UNCHANGED <<cancelled, lastingVars>>

Next ==
    \/ \E p \in Runners : Runner(p)
    \/ Elapse
    \/ CycleStep
    \/ \E item \in Hooked : Hook(item)
    \/ \E x \in Waiters : Idle(x)
    \/ \E item \in LeftOver : Replay(item)
    \/ Cancel \/ Stop \/ Exit

Spec == Init /\ [][Next]_vars

\* Goroutines are scheduled, calls return, backoffs elapse, and whoever ends
\* the context goes on to call Stop (main.go defers it).
FairSpec ==
    /\ Spec
    /\ \A p \in Runners : WF_vars(Runner(p))
    /\ WF_vars(Elapse)
    /\ WF_vars(CycleStep)
    /\ \A x \in Waiters : WF_vars(Idle(x))
    /\ WF_vars(cancelled /\ Stop)
-----------------------------------------------------------------------------
Running == {p \in Runners : At(p, "running")}

\* Stop or the end of the context has abandoned work; the process lives on.
Abandoned == cancelled \/ (stopped /\ ~At(Cycler, "gone"))

TypeOK ==
    /\ task \in Seq([item : Items, attempts : 0..MaxAttempts, done : BOOLEAN])
    /\ ready \in Seq(Ids) /\ delayed \in Seq(Ids) /\ due \in 0..Len(delayed)
    /\ depth \in Int /\ wake \in 0..WakeSlots /\ empty \in 0..1
    /\ batch \subseteq Ids
    /\ handled \subseteq Items /\ dlq \subseteq Items /\ passed \subseteq Items

(* Safety: a task is in one place only - ready, delayed, in one worker's    *)
(* hands or finished - so no worker runs what another one has, and a        *)
(* finished task never runs again (queue.go:106-151).                       *)
OnePlace ==
    \A i \in DOMAIN task :
        Cardinality({n \in DOMAIN ready : ready[n] = i})
          + Cardinality({n \in DOMAIN delayed : delayed[n] = i})
          + Cardinality({p \in Running : run[p].task = i})
        = IF task[i].done THEN 0 ELSE 1

(* Safety: until Stop, depth is the number of tasks queued or in flight     *)
(* (queue.go:51-52).                                                        *)
DepthIsWork == stopped \/ depth = Len(ready) + Len(delayed) + Cardinality(Running)

(* Safety: unless work is abandoned, the watermark never moves past an item *)
(* that is neither processed nor kept, wherever the process ends            *)
(* (poll.go:125-127).                                                       *)
MarkBehindWork == ~Abandoned => passed \subseteq handled \union dlq

(* Safety: an item of the dead-letter queue stays there until it has run    *)
(* (main.go:320, "It runs on the next pass").                               *)
ReplayKeeps ==
    LeftOver \subseteq dlq \union handled \union {task[i].item : i \in DOMAIN task}

(* Liveness: whatever is submitted is finished, so no wakeup is lost while  *)
(* workers go to sleep and retries come due.                                *)
EveryHandleReleased ==
    \A i \in Ids : i \in DOMAIN task ~> (i \in DOMAIN task => task[i].done)

(* Liveness: Cycle returns, unless the process ends first                   *)
(* (poll.go:178-180).                                                       *)
CycleReturns == <>(At(Cycler, "returned") \/ At(Cycler, "gone"))

(* Safety: Stop never lets the watermark pass abandoned work                *)
(* (run.go:146-147, "the watermark never advanced past it").                *)
StopKeepsMark == passed \subseteq handled \union dlq

(* Liveness: WaitIdle returns once the queue is worked off, or its context  *)
(* ends, unless Stop comes first (run.go:197).                              *)
IdleSeen == \A x \in Waiters : <>(idler[x] = "returned" \/ stopped)

(* Liveness: WaitIdle returns when Stop comes first as well (run.go:197).   *)
IdleSeenThroughStop == \A x \in Waiters : <>(idler[x] = "returned")

(* Liveness: after Stop every worker leaves, so Stop itself returns         *)
(* (run.go:143-154).                                                        *)
PoolLeaves == stopped ~> \A p \in Pool : At(p, "gone")

-----------------------------------------------------------------------------
(* What the invariants are proved from, in WorkQueueProofs.                 *)

RunnerStates ==
    [pc    : {"submit", "drain", "commit", "returned", "top", "running", "looking",
              "asleep", "gone"},
     task  : Ids \union {NoTask},
     timer : {<<>>} \union (Ids \X (0..MaxAttempts))]

RunnersOK ==
    /\ dep \in Deployments
    /\ run \in [Runners -> RunnerStates]
    /\ stopped \in BOOLEAN /\ closed = stopped
    /\ batch \subseteq DOMAIN task

\* Promotion moves a task along this line; only Take removes one.
Line == ready \o delayed

Queued == {Line[n] : n \in DOMAIN Line}
InHand == {run[p].task : p \in Running}
Unfinished == {i \in DOMAIN task : ~task[i].done}

\* What is unfinished is queued once or in one runner's hands, never both.
Places ==
    /\ Queued \union InHand = Unfinished
    /\ Queued \intersect InHand = {} /\ InHand \subseteq Ids
    /\ \A m, n \in DOMAIN Line : Line[m] = Line[n] => m = n
    /\ \A p, q \in Running : run[p].task = run[q].task => p = q

QueueInv == TypeOK /\ RunnersOK /\ Places /\ DepthIsWork

\* While nothing is abandoned, a handle that is released on a polled item means
\* that the item was processed or kept.
Settled ==
    /\ \A i \in batch : task[i].item \in Polled
    /\ passed \subseteq Polled
    /\ ~stopped /\ ~cancelled =>
         \A i \in DOMAIN task : task[i].done /\ task[i].item \in Polled
                                  => task[i].item \in handled \union dlq

IInv == QueueInv /\ Settled /\ MarkBehindWork
=============================================================================
