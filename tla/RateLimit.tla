----------------------------- MODULE RateLimit -----------------------------
(***************************************************************************)
(* Bucket of internal/ratelimit/ratelimit.go, one connector's quota, and    *)
(* the pollers and workers that share it (get, write, Poll and noteFailure  *)
(* of internal/engine).                                                     *)
(*                                                                          *)
(* Time is counted in ticks and every instant is kept relative to now, so   *)
(* the model has no horizon.  Tokens and rates are integers: Unit units are *)
(* one token, a rate is units per tick.  A sleeper is due on the first tick *)
(* at or after the instant it was given, and calls when the scheduler lets   *)
(* it, then or any time later.                                              *)
(***************************************************************************)
EXTENDS Integers, FiniteSets

CONSTANTS
    Callers,       \* the goroutines that call the peer
    Configured,    \* the configured rate
    Unit,          \* one token
    Burst,         \* the bucket's size, in tokens
    RecoverAfter,  \* accepted calls that earn a step up
    Hints,         \* Retry-After values a peer may send, 0 for none
    MaxRejects     \* bound on the calls the peer rejects

\* New corrects anything smaller.
ASSUME BucketAssumption ==
    /\ IsFiniteSet(Callers)
    /\ Configured \in Nat \ {0} /\ Unit \in Nat \ {0} /\ Burst \in Nat \ {0}
    /\ RecoverAfter \in Nat \ {0} /\ MaxRejects \in Nat /\ Hints \subseteq Nat

\* Fine enough for the factors below to show, and for a token of the configured
\* rate to fall due on a tick.
ASSUME GrainAssumption ==
    Configured % 8 = 0 /\ Configured >= 32 /\ Unit % Configured = 0

VARIABLES
    tokens,      \* b.tokens, negative when callers are queued
    since,       \* ticks since b.last, or those that filled the bucket
    blocked,     \* ticks until b.blockedUntil
    rate,        \* b.rate
    successes,   \* b.successes
    call,        \* call[c]: what caller c is doing
    rejects,     \* calls rejected so far
    level,       \* calls allowed to go over what the quota allows, in units
    asked        \* ticks the peer asked us, in any answer, to stay away

bucket == <<tokens, since, blocked, rate, successes>>
vars == <<bucket, call, rejects, level, asked>>

Resting == [pc |-> "idle", wait |-> 0, owed |-> 0]

Init ==
    /\ tokens = Burst * Unit /\ since = 0 /\ blocked = 0
    /\ rate = Configured /\ successes = 0
    /\ call = [c \in Callers |-> Resting]
    /\ rejects = 0 /\ level = 0 /\ asked = 0

Larger(a, b) == IF a > b THEN a ELSE b
Smaller(a, b) == IF a < b THEN a ELSE b
TicksFor(units) == (units + rate - 1) \div rate

\* refill.
Refilled == Smaller(Burst * Unit, tokens + since * rate)

\* minRateFraction, shrinkFactor and recoverFactor.
Floor == Configured \div 8

Shrunk(r) == Larger(Floor, r \div 2)

Recovered(r) == Smaller(Configured, (5 * r) \div 4)

-----------------------------------------------------------------------------
(* Reserve, Wait and Allow.                                                 *)

\* Mutant: a debt is forgotten, so callers at an empty bucket do not queue.
SpentClamped == Larger(0, Refilled) - Unit

\* A token is taken whether there is one or not.
Spent == Refilled - Unit

Reserve(c) ==
    LET debt == IF Spent < 0 THEN TicksFor(-Spent) ELSE 0 IN
    /\ call[c].pc = "idle"
    /\ tokens' = Spent /\ since' = 0
    /\ call' = [call EXCEPT ![c] =
         [pc |-> "waiting", wait |-> Larger(blocked, debt), owed |-> asked]]
    /\ UNCHANGED <<blocked, rate, successes, rejects, level, asked>>

\* The wait is over: the call may go.
Due(c) ==
    /\ call[c].pc = "waiting" /\ call[c].wait = 0
    /\ call' = [call EXCEPT ![c].pc = "due"]
    /\ level' = level + Unit
    /\ UNCHANGED <<bucket, rejects, asked>>

\* The goroutine runs, and calls.
WaitReturns(c) ==
    /\ call[c].pc = "due"
    /\ call' = [call EXCEPT ![c].pc = "out"]
    /\ UNCHANGED <<bucket, rejects, level, asked>>

\* The context ended; the token is not given back.
WaitGivesUp(c) ==
    /\ call[c].pc \in {"waiting", "due"}
    /\ call' = [call EXCEPT ![c] = [Resting EXCEPT !.pc = "gone"]]
    /\ UNCHANGED <<bucket, rejects, level, asked>>

AllowGrants(c) ==
    /\ call[c].pc = "idle"
    /\ blocked = 0 /\ Refilled >= Unit
    /\ tokens' = Refilled - Unit /\ since' = 0
    /\ call' = [call EXCEPT ![c] = [pc |-> "out", wait |-> 0, owed |-> asked]]
    /\ level' = level + Unit
    /\ UNCHANGED <<blocked, rate, successes, rejects, asked>>

AllowRefuses(c) ==
    /\ call[c].pc = "idle"
    /\ blocked > 0 \/ Refilled < Unit
    /\ tokens' = Refilled /\ since' = 0
    /\ UNCHANGED <<blocked, rate, successes, call, rejects, level, asked>>

-----------------------------------------------------------------------------
(* What the peer answers: Success, Reject, or an error of another kind.     *)

Over(c) == call' = [call EXCEPT ![c] = Resting]

\* Mutant: the streak starts anew before it is long enough.
SuccessRestarts(c) ==
    /\ call[c].pc = "out"
    /\ Over(c)
    /\ successes' = 0
    /\ rate' = IF successes + 1 < RecoverAfter THEN rate ELSE Recovered(rate)
    /\ UNCHANGED <<tokens, since, blocked, rejects, level, asked>>

Success(c) ==
    /\ call[c].pc = "out"
    /\ Over(c)
    /\ IF rate >= Configured THEN UNCHANGED <<rate, successes>>
       ELSE IF successes + 1 < RecoverAfter
            THEN successes' = successes + 1 /\ UNCHANGED rate
            ELSE successes' = 0 /\ rate' = Recovered(rate)
    /\ UNCHANGED <<tokens, since, blocked, rejects, level, asked>>

\* Mutant: the last rejection counts, not the longest.
BlockedByLast(ticks) == ticks

\* A shorter wait never takes back a longer one.
BlockedAfter(ticks) == Larger(blocked, ticks)

\* Credit is lost, debt is kept.  Without a hint the block is one token's
\* worth at the reduced rate.
Reject(c, hint) ==
    /\ call[c].pc = "out"
    /\ rejects < MaxRejects
    /\ Over(c)
    /\ rejects' = rejects + 1
    /\ successes' = 0
    /\ rate' = Shrunk(rate)
    /\ tokens' = Smaller(tokens, 0) /\ since' = 0
    /\ blocked' = BlockedAfter(IF hint > 0 THEN hint ELSE (Unit + rate' - 1) \div rate')
    /\ asked' = Larger(asked, hint)
    /\ UNCHANGED level

Fails(c) ==
    /\ call[c].pc = "out"
    /\ Over(c)
    /\ UNCHANGED <<bucket, rejects, level, asked>>

-----------------------------------------------------------------------------
Less1(n) == Larger(0, n - 1)

\* A wait is over at its instant; when the goroutine runs is up to the
\* scheduler.
Tick ==
    /\ \A c \in Callers : call[c].pc = "waiting" => call[c].wait > 0
    /\ since' = IF Refilled = Burst * Unit THEN since ELSE since + 1
    /\ blocked' = Less1(blocked) /\ asked' = Less1(asked)
    /\ call' = [c \in Callers |-> IF call[c].pc # "waiting" THEN call[c]
                ELSE [call[c] EXCEPT !.wait = Less1(@), !.owed = Less1(@)]]
    /\ level' = Larger(0, level - Configured)
    /\ UNCHANGED <<tokens, rate, successes, rejects>>

CallerStep(c) ==
    \/ Reserve(c) \/ Due(c) \/ WaitReturns(c) \/ WaitGivesUp(c)
    \/ AllowGrants(c) \/ AllowRefuses(c)
    \/ Success(c) \/ Fails(c) \/ \E hint \in Hints : Reject(c, hint)

Next == Tick \/ \E c \in Callers : CallerStep(c)

Spec == Init /\ [][Next]_vars

\* Time passes; a caller that is at rest calls again, because the daemon keeps
\* polling; and among its calls the peer keeps accepting some.
FairSpec ==
    /\ Spec
    /\ WF_vars(Tick)
    /\ \A c \in Callers : /\ WF_vars(Reserve(c)) /\ WF_vars(Due(c)) /\ WF_vars(WaitReturns(c))
                         /\ SF_vars(Success(c))
-----------------------------------------------------------------------------
(* Safety: in any stretch of time the calls the bucket lets go are at most  *)
(* the burst and what the configured rate allows in it, however many        *)
(* callers arrive at an empty bucket (ratelimit.go:123-126).  level is the  *)
(* excess over every stretch that ends now.                                 *)
WithinQuota == rejects = 0 => level <= Burst * Unit

(* Safety: a caller that comes after the peer said how long to stay away    *)
(* does not call before that, whatever shorter hints, hintless rejections   *)
(* and recoveries follow (ratelimit.go:63-64).                              *)
RetryAfterKept == \A c \in Callers : call[c].pc \in {"due", "out"} => call[c].owed = 0

-----------------------------------------------------------------------------
(* What the two are proved from, in RateLimitProofs.                        *)

TypeOK ==
    /\ tokens \in Int /\ since \in Nat /\ blocked \in Nat
    /\ rate \in Floor..Configured /\ successes \in Nat
    /\ call \in [Callers -> [pc : {"idle", "waiting", "due", "out", "gone"},
                             wait : Nat, owed : Nat]]
    /\ rejects \in Nat /\ level \in Nat /\ asked \in Nat

\* What was asked is in the block, and in the wait of whoever came after it.
HintHeld ==
    /\ asked <= blocked
    /\ \A c \in Callers : call[c].pc = "waiting" => call[c].owed <= call[c].wait

\* The callers that have m ticks or more to wait, and those with n at most.
Queue(m) == {c \in Callers : call[c].pc = "waiting" /\ call[c].wait >= m}
Window(m, n) == {c \in Queue(m) : call[c].wait <= n}

Whole(units) == \E n \in Int : units = n * Configured

\* Without a rejection nothing but the tokens decides how long a caller waits.
Steady == rate = Configured /\ blocked = 0 /\ Whole(tokens) /\ Whole(level)

\* Every call let go or waiting was paid for.
Paid == level + Unit * Cardinality(Queue(0)) <= Burst * Unit - Refilled

\* The calls that fall due in the next n ticks keep within the quota.
DuePaid ==
    \A n \in Nat : level + Unit * Cardinality(Window(0, n)) <= Burst * Unit + n * Configured

\* Whoever has m ticks to wait and those behind it are part of the debt.
BehindDebt ==
    \A m \in Nat \ {0} : Queue(m) # {} =>
        Refilled + Unit * Cardinality(Queue(m)) <= Unit - m * Configured

\* Callers that wait are a token apart.
Spaced ==
    \A m \in Nat \ {0}, n \in Nat : m <= n =>
        Unit * Cardinality(Window(m, n)) <= Unit + (n - m) * Configured

Orderly == Steady /\ Paid /\ DuePaid /\ BehindDebt /\ Spaced

IInv == TypeOK /\ HintHeld /\ RetryAfterKept /\ (rejects = 0 => Orderly)

-----------------------------------------------------------------------------
(* Liveness: once the peer stops rejecting, the rate climbs back to what is *)
(* configured, from the floor as well (ratelimit.go:8-11), while anybody    *)
(* calls.                                                                   *)
RateRecovers ==
    <>[](rate = Configured) \/ <>[](\A c \in Callers : call[c].pc = "gone")

(* Safety: a debt is somebody's: with nobody waiting the bucket owes        *)
(* nothing (ratelimit.go:185-186, "the callers already queued behind it are *)
(* still queued").                                                          *)
DebtHasCallers ==
    (\A c \in Callers : call[c].pc \notin {"waiting", "gone"}) => Refilled >= 0

(* Safety: no call is let go while the peer has asked us to stay away, the  *)
(* callers queued before it did included (ratelimit.go:63-64).              *)
BlockIsKept == [][asked > 0 => level' <= level]_vars

(* Safety: the quota is kept after rejections as well (ratelimit.go:1-4).   *)
AlwaysWithinQuota == level <= Burst * Unit
=============================================================================
