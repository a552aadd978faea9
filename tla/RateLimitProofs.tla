-------------------------- MODULE RateLimitProofs --------------------------
(***************************************************************************)
(* WithinQuota and RetryAfterKept for any finite number of callers and any  *)
(* rate, burst and hints.                                                   *)
(***************************************************************************)
EXTENDS RateLimit, FiniteSetTheorems, TLAPS

(* Lemma: a token is a whole number of ticks at the configured rate.        *)
LEMMA Interval == \E k \in Nat \ {0} : Unit = k * Configured
<1> DEFINE k == Unit \div Configured
<1>1. k \in Int /\ Unit = k * Configured
    BY BucketAssumption, GrainAssumption
<1>2. k > 0
    BY <1>1, BucketAssumption
<1> QED BY <1>1, <1>2

(* Lemma: a whole number of ticks is not rounded up (TicksFor).             *)
LEMMA WholeTicks ==
    ASSUME NEW n \in Nat, rate = Configured
    PROVE  TicksFor(n * Configured) = n
<1> DEFINE q == (n * Configured + Configured - 1) \div Configured
           r == (n * Configured + Configured - 1) % Configured
<1>0. Configured \in Nat \ {0}
    BY BucketAssumption
<1>1. /\ q \in Int /\ r \in 0..(Configured - 1)
      /\ n * Configured + Configured - 1 = q * Configured + r
    BY <1>0
<1> HIDE DEF q, r
<1>2. CASE q > n
    <2>1. q * Configured >= (n + 1) * Configured
        BY <1>0, <1>1, <1>2
    <2> QED BY <1>0, <1>1, <2>1
<1>3. CASE q < n
    <2>1. (q + 1) * Configured <= n * Configured
        BY <1>0, <1>1, <1>3
    <2> QED BY <1>0, <1>1, <2>1
<1>4. CASE q = n
    BY <1>0, <1>4 DEF q, TicksFor
<1> QED BY <1>1, <1>2, <1>3, <1>4

(* Lemma: the rate never leaves its range, so it is never zero (Reject and  *)
(* Success of ratelimit.go).                                                *)
LEMMA RateRange ==
    /\ Floor \in Nat \ {0} /\ Floor <= Configured
    /\ \A r \in Floor..Configured :
         Shrunk(r) \in Floor..Configured /\ Recovered(r) \in Floor..Configured
    BY BucketAssumption, GrainAssumption DEF Floor, Shrunk, Recovered, Larger, Smaller

(* Lemma: the bucket holds a number of tokens, its size at most.            *)
LEMMA RefilledType ==
    ASSUME TypeOK
    PROVE  Refilled \in Int /\ Refilled <= Burst * Unit
    BY BucketAssumption, RateRange DEF TypeOK, Refilled, Smaller

(* Lemma: after the bucket is brought up to date it is no fuller.           *)
LEMMA RefilledSet ==
    ASSUME NEW x \in Int, x <= Burst * Unit, tokens' = x, since' = 0, rate' \in Int
    PROVE  Refilled' = x
<1>1. \A r \in Int : x + 0 * r = x
    OBVIOUS
<1>2. Refilled' = Smaller(Burst * Unit, x + 0 * rate')
    BY DEF Refilled
<1>3. Refilled' = Smaller(Burst * Unit, x)
    BY <1>1, <1>2, Zenon
<1> QED BY <1>3, BucketAssumption DEF Smaller

(* Lemma: in a tick the bucket gains a tick's worth, up to its size.        *)
LEMMA RefilledTick ==
    ASSUME TypeOK, Tick
    PROVE  Refilled' = Smaller(Burst * Unit, Refilled + rate)
<1> DEFINE B == Burst * Unit
<1>0. B \in Int /\ rate \in Nat /\ tokens \in Int /\ since \in Nat
    BY BucketAssumption, RateRange DEF TypeOK
<1>1. tokens' = tokens /\ rate' = rate /\ since' = IF Refilled = B THEN since ELSE since + 1
    BY DEF Tick
<1>2. Refilled' = Smaller(B, tokens' + since' * rate')
    BY DEF Refilled
<1>3. (since + 1) * rate = since * rate + rate /\ since * rate \in Int
    BY <1>0
<1> HIDE DEF B
<1>4. Refilled = Smaller(B, tokens + since * rate)
    BY DEF Refilled, B
<1>5. CASE Refilled = B
    BY <1>0, <1>1, <1>2, <1>3, <1>4, <1>5 DEF Smaller, B
<1>6. CASE Refilled # B
    BY <1>0, <1>1, <1>2, <1>3, <1>4, <1>6 DEF Smaller, B
<1> QED BY <1>5, <1>6

(* Lemma: the callers that wait are finitely many.                          *)
LEMMA QueueFinite ==
    \A m, n \in Nat :
        /\ IsFiniteSet(Queue(m)) /\ Cardinality(Queue(m)) \in Nat
        /\ IsFiniteSet(Window(m, n)) /\ Cardinality(Window(m, n)) \in Nat
        /\ Cardinality(Window(m, n)) <= Cardinality(Queue(m))
<1> TAKE m, n \in Nat
<1>1. Queue(m) \subseteq Callers /\ Window(m, n) \subseteq Queue(m)
    BY DEF Queue, Window
<1> QED BY <1>1, FS_Subset, FS_CardinalityType, BucketAssumption

(* Lemma: a caller joins the queue.                                         *)
LEMMA Joined ==
    ASSUME NEW c \in Callers, c \notin Queue(0), NEW w \in Nat,
           call \in [Callers -> [pc : {"idle", "waiting", "due", "out", "gone"}, wait : Nat, owed : Nat]],
           \E o \in Nat : call' = [call EXCEPT ![c] = [pc |-> "waiting", wait |-> w, owed |-> o]]
    PROVE  \A m, n \in Nat :
             /\ Queue(m)' = IF m <= w THEN Queue(m) \union {c} ELSE Queue(m)
             /\ Window(m, n)' = IF m <= w /\ w <= n THEN Window(m, n) \union {c} ELSE Window(m, n)
             /\ Cardinality(Queue(m))' = IF m <= w THEN Cardinality(Queue(m)) + 1
                                         ELSE Cardinality(Queue(m))
             /\ Cardinality(Window(m, n))' = IF m <= w /\ w <= n
                  THEN Cardinality(Window(m, n)) + 1 ELSE Cardinality(Window(m, n))
<1> TAKE m, n \in Nat
<1>1. PICK o \in Nat : \A d \in Callers :
        call'[d] = IF d = c THEN [pc |-> "waiting", wait |-> w, owed |-> o] ELSE call[d]
    OBVIOUS
<1>2. call[c].pc # "waiting"
    BY DEF Queue
<1>3. Queue(m)' = IF m <= w THEN Queue(m) \union {c} ELSE Queue(m)
    BY <1>1, <1>2 DEF Queue
<1>4. Window(m, n)' = IF m <= w /\ w <= n THEN Window(m, n) \union {c} ELSE Window(m, n)
    BY <1>1, <1>2 DEF Window, Queue
<1>5. c \notin Queue(m) /\ c \notin Window(m, n)
    BY <1>2 DEF Queue, Window
<1> QED BY <1>3, <1>4, <1>5, QueueFinite, FS_AddElement

(* Lemma: a caller that was ready to call, or gave up, leaves the queue.    *)
LEMMA Left ==
    ASSUME NEW c \in Callers,
           call \in [Callers -> [pc : {"idle", "waiting", "due", "out", "gone"}, wait : Nat, owed : Nat]],
           \E r : r.pc # "waiting" /\ call' = [call EXCEPT ![c] = r]
    PROVE  \A m, n \in Nat :
             /\ Queue(m)' = Queue(m) \ {c}
             /\ Window(m, n)' = Window(m, n) \ {c}
             /\ Cardinality(Queue(m))' = Cardinality(Queue(m)) - (IF c \in Queue(m) THEN 1 ELSE 0)
             /\ Cardinality(Window(m, n))'
                  = Cardinality(Window(m, n)) - (IF c \in Window(m, n) THEN 1 ELSE 0)
<1> TAKE m, n \in Nat
<1>1. PICK r : r.pc # "waiting" /\ call' = [call EXCEPT ![c] = r]
    OBVIOUS
<1>2. \A d \in Callers : call'[d] = IF d = c THEN r ELSE call[d]
    BY <1>1
<1>3. Queue(m)' = Queue(m) \ {c}
    BY <1>1, <1>2 DEF Queue
<1>4. Window(m, n)' = Window(m, n) \ {c}
    BY <1>1, <1>2 DEF Window, Queue
<1>5. ASSUME NEW S, IsFiniteSet(S)
      PROVE  Cardinality(S \ {c}) = Cardinality(S) - (IF c \in S THEN 1 ELSE 0)
    <2>1. CASE c \in S
        BY <1>5, <2>1, FS_RemoveElement, FS_CardinalityType
    <2>2. CASE c \notin S
        <3>1. S \ {c} = S
            BY <2>2
        <3>2. Cardinality(S \ {c}) = Cardinality(S)
            BY <3>1, Zenon
        <3> QED BY <1>5, <2>2, <3>2, FS_CardinalityType
    <2> QED BY <2>1, <2>2
<1> QED BY <1>3, <1>4, <1>5, QueueFinite

(* Lemma: on a tick everybody who waits is one tick nearer.                 *)
LEMMA Advanced ==
    ASSUME TypeOK, Tick
    PROVE  /\ \A m, n \in Nat : Queue(m)' = Queue(m + 1) /\ Window(m, n)' = Window(m + 1, n + 1)
           /\ Queue(1) = Queue(0) /\ \A n \in Nat : Window(1, n) = Window(0, n)
<1>1. \A c \in Callers : call'[c] = IF call[c].pc # "waiting" THEN call[c]
                ELSE [call[c] EXCEPT !.wait = Less1(@), !.owed = Less1(@)]
    BY DEF Tick
<1>2. \A c \in Callers : call[c].pc = "waiting" => call[c].wait > 0 /\ call[c].wait \in Nat
    BY DEF Tick, TypeOK
<1>3. \A c \in Callers :
        /\ call'[c].pc = call[c].pc
        /\ call[c].pc = "waiting" => call'[c].wait = call[c].wait - 1
    <2> TAKE c \in Callers
    <2>1. call[c] \in [pc : {"idle", "waiting", "due", "out", "gone"}, wait : Nat, owed : Nat]
        BY DEF TypeOK
    <2>2. CASE call[c].pc # "waiting"
        BY <1>1, <2>2
    <2>3. CASE call[c].pc = "waiting"
        <3>1. call'[c].pc = call[c].pc /\ call'[c].wait = Less1(call[c].wait)
            BY <1>1, <2>1, <2>3
        <3> QED BY <1>2, <2>3, <3>1 DEF Less1, Larger
    <2> QED BY <2>2, <2>3
<1>4. \A m, n \in Nat : Queue(m)' = Queue(m + 1)
    BY <1>2, <1>3 DEF Queue
<1>5. \A m, n \in Nat : Window(m, n)' = Window(m + 1, n + 1)
    BY <1>2, <1>3 DEF Window, Queue
<1>6. Queue(1) = Queue(0)
    BY <1>2 DEF Queue
<1>7. \A n \in Nat : Window(1, n) = Window(0, n)
    BY <1>6 DEF Window
<1> QED BY <1>4, <1>5, <1>6, <1>7

(* Lemma: how long the next caller is told to wait is a number.             *)
LEMMA TicksType ==
    ASSUME TypeOK, NEW u \in Nat
    PROVE  TicksFor(u) \in Nat
<1>1. rate \in Nat \ {0} /\ u + rate - 1 \in Nat
    BY RateRange DEF TypeOK
<1>2. \A a \in Nat, b \in Nat \ {0} : a \div b \in Nat
    OBVIOUS
<1> QED BY <1>1, <1>2 DEF TicksFor

(* Lemma: every step keeps the types; the rate stays between the floor and  *)
(* what is configured.                                                      *)
LEMMA TypeStep == TypeOK /\ [Next]_vars => TypeOK'
<1> SUFFICES ASSUME TypeOK, [Next]_vars PROVE TypeOK'
    OBVIOUS
<1> DEFINE Calls == [pc : {"idle", "waiting", "due", "out", "gone"}, wait : Nat, owed : Nat]
<1>r. Refilled \in Int /\ Spent \in Int /\ Unit \in Nat /\ Burst * Unit \in Int
    BY RefilledType, BucketAssumption DEF Spent
<1>c. \A c \in Callers : call[c] \in Calls
    BY DEF TypeOK
<1>l. level + Unit \in Nat
    BY <1>r DEF TypeOK
<1>1. CASE Tick
    <2>0. /\ since' \in {since, since + 1} /\ blocked' = Less1(blocked) /\ asked' = Less1(asked)
          /\ level' = Larger(0, level - Configured)
        BY <1>1 DEF Tick
    <2>n. \A n \in Nat : Less1(n) \in Nat
        BY DEF Less1, Larger
    <2>1. since' \in Nat /\ blocked' \in Nat /\ asked' \in Nat
        BY <2>0, <2>n DEF TypeOK
    <2>2. \A c \in Callers : [call[c] EXCEPT !.wait = Less1(@), !.owed = Less1(@)] \in Calls
        BY <1>c, <2>n
    <2>3. call' \in [Callers -> Calls]
        BY <1>1, <1>c, <2>2 DEF Tick
    <2>4. level' \in Nat
        BY <2>0, BucketAssumption DEF TypeOK, Larger
    <2> QED BY <1>1, <2>1, <2>3, <2>4 DEF Tick, TypeOK
<1>2. ASSUME NEW c \in Callers, CallerStep(c) PROVE TypeOK'
    <2>1. CASE Reserve(c)
        <3> DEFINE debt == IF Spent < 0 THEN TicksFor(-Spent) ELSE 0
        <3>1. debt \in Nat
            <4>1. CASE Spent < 0
                BY <1>r, <4>1, TicksType
            <4> QED BY <4>1
        <3> HIDE DEF debt
        <3>2. [pc |-> "waiting", wait |-> Larger(blocked, debt), owed |-> asked] \in Calls
            BY <3>1 DEF TypeOK, Larger
        <3> QED BY <2>1, <1>r, <3>2 DEF Reserve, TypeOK, debt
    <2>2. CASE Due(c) \/ WaitReturns(c)
        BY <2>2, <1>l DEF Due, WaitReturns, TypeOK, bucket
    <2>3. CASE WaitGivesUp(c)
        BY <2>3 DEF WaitGivesUp, Resting, TypeOK, bucket
    <2>4. CASE AllowGrants(c)
        BY <2>4, <1>r, <1>l DEF AllowGrants, TypeOK
    <2>5. CASE AllowRefuses(c)
        BY <2>5, <1>r DEF AllowRefuses, TypeOK
    <2>6. CASE Success(c)
        <3>1. rate' \in Floor..Configured /\ successes' \in Nat
            BY <2>6, RateRange DEF Success, TypeOK
        <3> QED BY <2>6, <3>1 DEF Success, Over, Resting, TypeOK
    <2>7. CASE Fails(c)
        BY <2>7 DEF Fails, Over, Resting, TypeOK, bucket
    <2>8. ASSUME NEW hint \in Hints, Reject(c, hint) PROVE TypeOK'
        <3>1. rate' \in Floor..Configured /\ rate' \in Nat \ {0}
            BY <2>8, RateRange DEF Reject, TypeOK
        <3>2. hint \in Nat
            BY BucketAssumption
        <3>3. (Unit + rate' - 1) \div rate' \in Nat
            <4>1. \A a, b \in Nat \ {0} : a + b - 1 \in Nat
                OBVIOUS
            <4>2. \A a \in Nat, b \in Nat \ {0} : a \div b \in Nat
                OBVIOUS
            <4> QED BY <3>1, <4>1, <4>2, BucketAssumption
        <3>4. blocked' \in Nat /\ asked' \in Nat /\ tokens' \in Int
            BY <2>8, <3>2, <3>3 DEF Reject, BlockedAfter, Larger, Smaller, TypeOK
        <3> QED BY <2>8, <3>1, <3>4 DEF Reject, Over, Resting, TypeOK
    <2> QED BY <1>2, <2>1, <2>2, <2>3, <2>4, <2>5, <2>6, <2>7, <2>8 DEF CallerStep
<1>3. CASE UNCHANGED vars
    BY <1>3 DEF vars, bucket, TypeOK
<1> QED BY <1>1, <1>2, <1>3 DEF Next

(* Lemma: no step takes back what the peer asked for.                       *)
LEMMA HintStep ==
    TypeOK /\ HintHeld /\ RetryAfterKept /\ [Next]_vars => HintHeld' /\ RetryAfterKept'
<1> SUFFICES ASSUME TypeOK, HintHeld, RetryAfterKept, [Next]_vars
             PROVE  HintHeld' /\ RetryAfterKept'
    OBVIOUS
<1> USE DEF HintHeld, RetryAfterKept
<1>c. \A c \in Callers :
        call[c] \in [pc : {"idle", "waiting", "due", "out", "gone"}, wait : Nat, owed : Nat]
    BY DEF TypeOK
<1>n. asked \in Nat /\ blocked \in Nat
    BY DEF TypeOK
<1>1. CASE Tick
    <2>0. asked' = Less1(asked) /\ blocked' = Less1(blocked)
        BY <1>1 DEF Tick
    <2>1. asked' <= blocked'
        BY <2>0, <1>n DEF Less1, Larger
    <2>2. ASSUME NEW c \in Callers
          PROVE  /\ call'[c].pc = "waiting" => call'[c].owed <= call'[c].wait
                 /\ call'[c].pc \in {"due", "out"} => call'[c].owed = 0
        <3>1. CASE call[c].pc # "waiting"
            BY <1>1, <3>1 DEF Tick
        <3>2. CASE call[c].pc = "waiting"
            <4>1. /\ call'[c].pc = "waiting" /\ call'[c].wait = Less1(call[c].wait)
                  /\ call'[c].owed = Less1(call[c].owed)
                BY <1>1, <1>c, <3>2 DEF Tick
            <4> QED BY <1>c, <3>2, <4>1 DEF Less1, Larger
        <3> QED BY <3>1, <3>2
    <2> QED BY <2>1, <2>2
<1>2. ASSUME NEW c \in Callers, CallerStep(c) PROVE HintHeld' /\ RetryAfterKept'
    <2> USE DEF TypeOK
    <2>1. CASE Reserve(c)
        <3> DEFINE debt == IF Spent < 0 THEN TicksFor(-Spent) ELSE 0
        <3>1. debt \in Nat
            <4>1. CASE Spent < 0
                BY <4>1, TicksType, RefilledType, BucketAssumption DEF Spent
            <4> QED BY <4>1
        <3> HIDE DEF debt
        <3>2. /\ call' = [call EXCEPT ![c] =
                   [pc |-> "waiting", wait |-> Larger(blocked, debt), owed |-> asked]]
              /\ UNCHANGED <<asked, blocked>>
            BY <2>1 DEF Reserve, debt
        <3>3. asked <= Larger(blocked, debt)
            BY <1>n, <3>1 DEF Larger
        <3> QED BY <3>2, <3>3
    <2>2. CASE Due(c) \/ WaitReturns(c)
        BY <2>2, <1>c DEF Due, WaitReturns, bucket
    <2>3. CASE WaitGivesUp(c)
        BY <2>3 DEF WaitGivesUp, Resting, bucket
    <2>4. CASE AllowGrants(c)
        BY <2>4, <1>n DEF AllowGrants
    <2>5. CASE AllowRefuses(c)
        BY <2>5 DEF AllowRefuses
    <2>6. CASE Success(c)
        BY <2>6 DEF Success, Over, Resting
    <2>7. CASE Fails(c)
        BY <2>7 DEF Fails, Over, Resting, bucket
    <2>8. ASSUME NEW hint \in Hints, Reject(c, hint) PROVE HintHeld' /\ RetryAfterKept'
        <3>1. hint \in Nat
            BY BucketAssumption
        <3> DEFINE own == (Unit + rate' - 1) \div rate'
        <3>2. own \in Nat
            <4>1. rate' \in Nat \ {0} /\ Unit + rate' - 1 \in Nat
                BY <2>8, RateRange, BucketAssumption DEF Reject
            <4> QED BY <4>1
        <3> HIDE DEF own
        <3>3. /\ blocked' = BlockedAfter(IF hint > 0 THEN hint ELSE own)
              /\ asked' = Larger(asked, hint) /\ call' = [call EXCEPT ![c] = Resting]
            BY <2>8 DEF Reject, Over, own
        <3>4. asked' <= blocked'
            BY <1>n, <3>1, <3>2, <3>3 DEF BlockedAfter, Larger
        <3> QED BY <3>3, <3>4 DEF Resting
    <2> QED BY <1>2, <2>1, <2>2, <2>3, <2>4, <2>5, <2>6, <2>7, <2>8 DEF CallerStep
<1>3. CASE UNCHANGED vars
    BY <1>3 DEF vars, bucket
<1> QED BY <1>1, <1>2, <1>3 DEF Next

(* Lemma: arithmetic of tokens and ticks.                                   *)
LEMMA Times ==
    /\ Configured \in Nat \ {0} /\ Unit \in Nat \ {0} /\ Burst * Unit \in Nat
    /\ Unit <= Burst * Unit
    /\ \A a \in Int : Unit * a \in Int /\ a * Configured \in Int
    /\ \A a, b \in Int : (a + b) * Configured = a * Configured + b * Configured
    /\ \A a, b \in Int : (a - b) * Configured = a * Configured - b * Configured
    /\ \A a, b \in Int : a <= b => a * Configured <= b * Configured
    /\ \A a \in Int : Unit * (a + 1) = Unit * a + Unit /\ Unit * (a - 1) = Unit * a - Unit
    /\ \A a, b \in Int : a <= b => Unit * a <= Unit * b
<1>1. Configured \in Nat \ {0} /\ Unit \in Nat \ {0} /\ Burst \in Nat \ {0}
    BY BucketAssumption
<1>2. Burst * Unit \in Nat /\ Unit <= Burst * Unit
    BY <1>1
<1>3. \A a, b \in Int : (a + b) * Configured = a * Configured + b * Configured
    BY <1>1
<1>4. \A a, b \in Int : (a - b) * Configured = a * Configured - b * Configured
    BY <1>1
<1>5. \A a, b \in Int : a <= b => a * Configured <= b * Configured
    BY <1>1
<1>6. \A a \in Int : Unit * (a + 1) = Unit * a + Unit /\ Unit * (a - 1) = Unit * a - Unit
    BY <1>1
<1>7. \A a, b \in Int : a <= b => Unit * a <= Unit * b
    BY <1>1
<1> QED BY <1>1, <1>2, <1>3, <1>4, <1>5, <1>6, <1>7

(* Lemma: without rejections the bucket holds a whole number of ticks.      *)
LEMMA WholeRefilled ==
    ASSUME TypeOK, Steady
    PROVE  Whole(Refilled)
<1>1. PICK k \in Nat \ {0} : Unit = k * Configured
    BY Interval
<1>2. PICK t \in Int : tokens = t * Configured
    BY DEF Steady, Whole
<1>3. Burst * Unit = (Burst * k) * Configured /\ Burst * k \in Int
    BY <1>1, BucketAssumption
<1>4. tokens + since * rate = (t + since) * Configured /\ t + since \in Int
    BY <1>2, BucketAssumption DEF Steady, TypeOK
<1> QED BY <1>3, <1>4 DEF Refilled, Smaller, Whole

(* Lemma: who has to wait owes no less than the wait is worth.              *)
LEMMA WaitIsDebt ==
    ASSUME TypeOK, Orderly, NEW c \in Queue(1)
    PROVE  call[c].wait * Configured <= -Refilled
<1> DEFINE m == call[c].wait
<1>1. m \in Nat \ {0} /\ c \in Queue(m)
    BY DEF Queue, TypeOK
<1>2. Cardinality(Queue(m)) \in Nat /\ IsFiniteSet(Queue(m))
    BY <1>1, QueueFinite
<1>3. Cardinality(Queue(m)) # 0
    BY <1>1, <1>2, FS_EmptySet
<1>4. Refilled + Unit * Cardinality(Queue(m)) <= Unit - m * Configured
    BY <1>1 DEF Orderly, BehindDebt
<1>5. Unit * 1 <= Unit * Cardinality(Queue(m)) /\ Unit * 1 = Unit
    BY <1>2, <1>3, Times
<1>6. Refilled \in Int /\ m * Configured \in Int /\ Unit * Cardinality(Queue(m)) \in Int
    BY <1>1, <1>2, RefilledType, Times
<1> DEFINE all == Unit * Cardinality(Queue(m))
           own == m * Configured
<1>7. /\ Refilled + all <= Unit - own /\ Unit <= all
      /\ all \in Int /\ own \in Int /\ Unit \in Int /\ Refilled \in Int
    BY <1>4, <1>5, <1>6, Times
<1> HIDE DEF all, own
<1>8. own <= -Refilled
    BY <1>7
<1> QED BY <1>8 DEF own

(* Lemma: a reservation joins behind the others, at its own distance.       *)
LEMMA ReserveOrderly ==
    ASSUME TypeOK, Orderly, NEW c \in Callers, Reserve(c)
    PROVE  Orderly'
<1>1. PICK k \in Nat \ {0} : Unit = k * Configured
    BY Interval
<1>2. PICK r \in Int : Refilled = r * Configured
    BY WholeRefilled DEF Orderly, Whole
<1> DEFINE w == IF r < k THEN k - r ELSE 0
<1>3. Spent = (r - k) * Configured /\ r - k \in Int
    BY <1>1, <1>2, Times DEF Spent
<1>4. w \in Nat /\ -Spent <= w * Configured /\ (w > 0 => -Spent = w * Configured)
    BY <1>3, Times
<1>5. (IF Spent < 0 THEN TicksFor(-Spent) ELSE 0) = w
    <2>1. CASE r < k
        <3>1. -Spent = w * Configured /\ w \in Nat /\ Spent < 0
            BY <1>3, <2>1, Times
        <3> QED BY <3>1, WholeTicks DEF Orderly, Steady
    <2>2. CASE r >= k
        <3>1. 0 * Configured <= (r - k) * Configured
            BY <1>3, <2>2, Times
        <3> QED BY <1>3, <2>2, <3>1, Times
    <2> QED BY <2>1, <2>2
<1> HIDE DEF w
<1>6. /\ tokens' = Spent /\ since' = 0
      /\ call' = [call EXCEPT ![c] = [pc |-> "waiting", wait |-> Larger(blocked, w), owed |-> asked]]
      /\ UNCHANGED <<blocked, rate, level>>
    BY <1>5 DEF Reserve
<1>7. Larger(blocked, w) = w /\ asked \in Nat /\ blocked = 0
    BY <1>4 DEF Orderly, Steady, Larger, TypeOK
<1>8. c \notin Queue(0)
    BY DEF Reserve, Queue
<1>9. \A m, n \in Nat :
        /\ Queue(m)' = IF m <= w THEN Queue(m) \union {c} ELSE Queue(m)
        /\ Cardinality(Queue(m))' = IF m <= w THEN Cardinality(Queue(m)) + 1
                                    ELSE Cardinality(Queue(m))
        /\ Cardinality(Window(m, n))' = IF m <= w /\ w <= n
                  THEN Cardinality(Window(m, n)) + 1 ELSE Cardinality(Window(m, n))
    <2>1. \E o \in Nat : call' = [call EXCEPT ![c] = [pc |-> "waiting", wait |-> w, owed |-> o]]
        BY <1>6, <1>7
    <2>2. call \in [Callers -> [pc : {"idle", "waiting", "due", "out", "gone"}, wait : Nat, owed : Nat]]
        BY DEF TypeOK
    <2>3. w \in Nat
        BY <1>4
    <2>4. \A m, n \in Nat :
             /\ Queue(m)' = IF m <= w THEN Queue(m) \union {c} ELSE Queue(m)
             /\ Window(m, n)' = IF m <= w /\ w <= n THEN Window(m, n) \union {c} ELSE Window(m, n)
             /\ Cardinality(Queue(m))' = IF m <= w THEN Cardinality(Queue(m)) + 1
                                         ELSE Cardinality(Queue(m))
             /\ Cardinality(Window(m, n))' = IF m <= w /\ w <= n
                  THEN Cardinality(Window(m, n)) + 1 ELSE Cardinality(Window(m, n))
        BY <2>3, <1>8, <2>1, <2>2, Joined, Zenon
    <2> QED BY <2>4, Zenon
<1>10. Refilled' = Refilled - Unit /\ Refilled \in Int /\ level \in Nat
    BY <1>6, RefilledType, RefilledSet, Times, RateRange DEF Spent, TypeOK
<1>11. Steady'
    BY <1>3, <1>6 DEF Orderly, Steady, Whole
<1>12. Paid'
    <2>1. Cardinality(Queue(0))' = Cardinality(Queue(0)) + 1
        BY <1>4, <1>9
    <2> QED BY <1>6, <1>10, <2>1, QueueFinite, Times DEF Orderly, Paid
<1>13. DuePaid'
    <2> SUFFICES ASSUME NEW n \in Nat
                 PROVE  level' + Unit * Cardinality(Window(0, n))' <= Burst * Unit + n * Configured
        BY DEF DuePaid
    <2>1. Cardinality(Window(0, n)) \in Nat /\ Cardinality(Queue(0)) \in Nat
          /\ Cardinality(Window(0, n)) <= Cardinality(Queue(0))
        BY QueueFinite
    <2>2. CASE w <= n
        <3>1. Unit * (Cardinality(Window(0, n)) + 1) <= Unit * Cardinality(Queue(0)) + Unit
            BY <2>1, Times
        <3>2. w * Configured <= n * Configured
            BY <2>2, <1>4, Times
        <3>3. Cardinality(Window(0, n))' = Cardinality(Window(0, n)) + 1
            BY <1>4, <1>9, <2>2
        <3>4. level + Unit * Cardinality(Queue(0)) <= Burst * Unit - Refilled
            BY DEF Orderly, Paid
        <3>5. Unit * (Cardinality(Window(0, n)) + 1) \in Int /\ Unit * Cardinality(Queue(0)) \in Int
              /\ w * Configured \in Int /\ n * Configured \in Int /\ Burst * Unit \in Int /\ Unit \in Int
            BY <1>4, <2>1, Times
        <3>6. Unit - Refilled <= w * Configured
            BY <1>4, <1>10, <3>5 DEF Spent
        <3> QED BY <1>6, <1>10, <3>1, <3>2, <3>3, <3>4, <3>5, <3>6
    <2>3. CASE ~ w <= n
        <3>1. Cardinality(Window(0, n))' = Cardinality(Window(0, n))
            BY <1>4, <1>9, <2>3
        <3> QED BY <1>6, <3>1 DEF Orderly, DuePaid
    <2> QED BY <2>2, <2>3
<1>14. BehindDebt'
    <2> SUFFICES ASSUME NEW m \in Nat \ {0}, Queue(m)' # {}
                 PROVE  Refilled' + Unit * Cardinality(Queue(m))' <= Unit - m * Configured
        BY DEF BehindDebt
    <2>1. Cardinality(Queue(m)) \in Nat /\ Unit * Cardinality(Queue(m)) \in Int
          /\ m * Configured \in Int /\ Unit \in Nat
        BY QueueFinite, Times
    <2>2. CASE Queue(m) # {}
        <3>1. Refilled + Unit * Cardinality(Queue(m)) <= Unit - m * Configured
            BY <2>2 DEF Orderly, BehindDebt
        <3>2. Cardinality(Queue(m))' \in {Cardinality(Queue(m)), Cardinality(Queue(m)) + 1}
            BY <1>9
        <3>3. Unit * (Cardinality(Queue(m)) + 1) = Unit * Cardinality(Queue(m)) + Unit
            BY <2>1, Times
        <3> QED BY <1>10, <2>1, <3>1, <3>2, <3>3
    <2>3. CASE Queue(m) = {}
        <3>1. m <= w /\ Cardinality(Queue(m))' = Cardinality(Queue(m)) + 1
            BY <1>9, <2>3
        <3>2. Cardinality(Queue(m)) = 0
            BY <2>3, FS_EmptySet
        <3>3. m * Configured <= w * Configured /\ w * Configured \in Int /\ Unit * 1 = Unit
            BY <1>4, <3>1, Times
        <3>4. Cardinality(Queue(m))' = 1
            BY <3>1, <3>2
        <3>5. Refilled - Unit = -(w * Configured)
            BY <1>4, <1>10, <2>1, <3>1, <3>3 DEF Spent
        <3> QED BY <1>10, <2>1, <3>3, <3>4, <3>5
    <2> QED BY <2>2, <2>3
<1>15. Spaced'
    <2> SUFFICES ASSUME NEW m \in Nat \ {0}, NEW n \in Nat, m <= n
                 PROVE  Unit * Cardinality(Window(m, n))' <= Unit + (n - m) * Configured
        BY DEF Spaced
    <2>1. CASE ~(m <= w /\ w <= n)
        BY <1>9, <2>1 DEF Orderly, Spaced
    <2>2. CASE m <= w /\ w <= n /\ Window(m, n) = {}
        <3>1. Cardinality(Window(m, n))' = 1
            <4>1. Cardinality(Window(m, n)) = 0
                BY <2>2, FS_EmptySet
            <4> QED BY <1>9, <2>2, <4>1
        <3>2. 0 * Configured <= (n - m) * Configured /\ (n - m) * Configured \in Int /\ Unit * 1 = Unit
            BY Times
        <3> QED BY <3>1, <3>2, Times
    <2>3. CASE m <= w /\ w <= n /\ Window(m, n) # {}
        <3>1. ASSUME NEW d \in Window(m, n)
              PROVE  call[d].wait \in Nat /\ m <= call[d].wait /\ call[d].wait <= w - k
            <4>1. d \in Queue(1) /\ call[d].wait \in Nat /\ m <= call[d].wait
                BY DEF Window, Queue, TypeOK
            <4>2. call[d].wait * Configured <= -Refilled
                BY <4>1, WaitIsDebt
            <4>3. -Refilled = (w - k) * Configured
                BY <1>1, <1>4, <1>10, <2>3, Times DEF Spent
            <4>4. CASE call[d].wait >= w - k + 1
                <5>0. w - k + 1 \in Int /\ w - k + 1 <= call[d].wait /\ call[d].wait \in Int
                    BY <1>4, <4>1, <4>4
                <5>1. (w - k + 1) * Configured <= call[d].wait * Configured
                    BY <5>0, Times, Zenon
                <5>2. (w - k + 1) * Configured = (w - k) * Configured + 1 * Configured
                    BY <1>4, Times
                <5> QED BY <1>4, <4>2, <4>3, <5>1, <5>2, <4>1, Times
            <4> QED BY <1>4, <4>1, <4>4
        <3>2. w - k \in Nat /\ m <= w - k /\ w - k <= n
            BY <2>3, <3>1, <1>4
        <3>3. Window(m, n) = Window(m, w - k)
            BY <3>1, <3>2 DEF Window, Queue, TypeOK
        <3>4. Unit * Cardinality(Window(m, w - k)) <= Unit + ((w - k) - m) * Configured
            BY <3>2 DEF Orderly, Spaced
        <3>5. Unit * Cardinality(Window(m, n)) <= Unit + ((w - k) - m) * Configured
            BY <3>3, <3>4, Zenon
        <3>6. ((w - k) - m) * Configured = w * Configured - Unit - m * Configured
            BY <1>1, <1>4, Times
        <3>7. (n - m) * Configured = n * Configured - m * Configured /\ w * Configured <= n * Configured
            BY <1>4, <2>3, Times
        <3>8. Cardinality(Window(m, n)) \in Nat
              /\ Cardinality(Window(m, n))' = Cardinality(Window(m, n)) + 1
            BY <1>9, <2>3, QueueFinite
        <3>9. Unit * (Cardinality(Window(m, n)) + 1) = Unit * Cardinality(Window(m, n)) + Unit
              /\ Unit * Cardinality(Window(m, n)) \in Int
            BY <3>8, Times
        <3>10. w * Configured \in Int /\ n * Configured \in Int /\ m * Configured \in Int /\ Unit \in Int
            BY <1>4, Times
        <3> QED BY <3>5, <3>6, <3>7, <3>8, <3>9, <3>10
    <2> QED BY <2>1, <2>2, <2>3
<1> QED BY <1>11, <1>12, <1>13, <1>14, <1>15 DEF Orderly

(* Lemma: a caller that is let go, gives up or never waited keeps the       *)
(* others in order, if the call let go was paid for.                        *)
LEMMA LeaveOrderly ==
    ASSUME TypeOK, Orderly, Steady', NEW c \in Callers,
           \E r : r.pc # "waiting" /\ call' = [call EXCEPT ![c] = r],
           Refilled' \in Int, Refilled' <= Refilled,
           \/ level' = level
           \/ level' = level + Unit /\ c \in Window(0, 0)
           \/ level' = level + Unit /\ Refilled' = Refilled - Unit /\ Refilled' >= 0
    PROVE  Orderly'
<1>1. \A m, n \in Nat :
        /\ Queue(m)' = Queue(m) \ {c}
        /\ Window(m, n)' = Window(m, n) \ {c}
        /\ Cardinality(Queue(m))' = Cardinality(Queue(m)) - (IF c \in Queue(m) THEN 1 ELSE 0)
        /\ Cardinality(Window(m, n))'
             = Cardinality(Window(m, n)) - (IF c \in Window(m, n) THEN 1 ELSE 0)
    <2>1. call \in [Callers -> [pc : {"idle", "waiting", "due", "out", "gone"}, wait : Nat, owed : Nat]]
        BY DEF TypeOK
    <2> QED BY <2>1, Left, Zenon
<1>2. \A m, n \in Nat : Cardinality(Queue(m)) \in Nat /\ Cardinality(Window(m, n)) \in Nat
    BY QueueFinite
<1>3. \A m, n \in Nat :
        /\ Cardinality(Queue(m))' \in Int /\ Cardinality(Queue(m))' <= Cardinality(Queue(m))
        /\ Cardinality(Window(m, n))' \in Int
        /\ Cardinality(Window(m, n))' <= Cardinality(Window(m, n))
    <2> TAKE m, n \in Nat
    <2>1. /\ Cardinality(Queue(m))' = Cardinality(Queue(m)) - (IF c \in Queue(m) THEN 1 ELSE 0)
          /\ Cardinality(Window(m, n))'
               = Cardinality(Window(m, n)) - (IF c \in Window(m, n) THEN 1 ELSE 0)
        BY <1>1, Zenon
    <2>2. Cardinality(Queue(m)) \in Nat /\ Cardinality(Window(m, n)) \in Nat
        BY <1>2
    <2> QED BY <2>1, <2>2
<1>4. \A m, n \in Nat :
        /\ Unit * Cardinality(Queue(m))' <= Unit * Cardinality(Queue(m))
        /\ Unit * Cardinality(Window(m, n))' <= Unit * Cardinality(Window(m, n))
        /\ Unit * Cardinality(Queue(m))' \in Int /\ Unit * Cardinality(Queue(m)) \in Int
        /\ Unit * Cardinality(Window(m, n))' \in Int /\ Unit * Cardinality(Window(m, n)) \in Int
    <2> TAKE m, n \in Nat
    <2>1. \A a, b \in Int : a <= b =>
            Unit * a <= Unit * b /\ Unit * a \in Int /\ Unit * b \in Int
        BY Times, Zenon
    <2>2. Cardinality(Queue(m)) \in Nat /\ Cardinality(Window(m, n)) \in Nat
        BY <1>2, Zenon
    <2>3. Cardinality(Queue(m)) \in Int /\ Cardinality(Window(m, n)) \in Int
        BY <2>2
    <2> QED BY <1>3, <2>1, <2>3, Zenon
<1>5. level \in Nat /\ Refilled \in Int /\ Unit \in Nat /\ Burst * Unit \in Int
    BY RefilledType, Times DEF TypeOK
<1>6. \A n \in Nat : Unit * Cardinality(Window(0, n)) <= Unit * Cardinality(Queue(0))
    BY <1>2, QueueFinite, Times
<1>7. \A n \in Nat : n * Configured \in Int /\ 0 <= n * Configured
    <2>1. \A n \in Nat : 0 * Configured <= n * Configured
        BY Times
    <2> QED BY <2>1, Times
<1>8. ASSUME c \in Window(0, 0), NEW n \in Nat
      PROVE  /\ Unit * Cardinality(Queue(0))' = Unit * Cardinality(Queue(0)) - Unit
             /\ Unit * Cardinality(Window(0, n))' = Unit * Cardinality(Window(0, n)) - Unit
    <2>1. c \in Queue(0) /\ c \in Window(0, n)
        BY <1>8 DEF Window, Queue, TypeOK
    <2>2. /\ Cardinality(Queue(0))' = Cardinality(Queue(0)) - 1
          /\ Cardinality(Window(0, n))' = Cardinality(Window(0, n)) - 1
        BY <1>1, <2>1
    <2>3. \A a \in Nat : Unit * (a - 1) = Unit * a - Unit
        BY Times
    <2> QED BY <1>2, <2>2, <2>3
<1>9. level + Unit * Cardinality(Queue(0)) <= Burst * Unit - Refilled
    BY DEF Orderly, Paid
<1>10. Paid'
    <2>1. level' + Unit * Cardinality(Queue(0))' <= Burst * Unit - Refilled'
        BY <1>4, <1>5, <1>8, <1>9
    <2> QED BY <2>1 DEF Paid
<1>11. DuePaid'
    <2> SUFFICES ASSUME NEW n \in Nat
                 PROVE  level' + Unit * Cardinality(Window(0, n))' <= Burst * Unit + n * Configured
        BY DEF DuePaid
    <2>1. level + Unit * Cardinality(Window(0, n)) <= Burst * Unit + n * Configured
        BY DEF Orderly, DuePaid
    <2> QED BY <1>4, <1>5, <1>6, <1>7, <1>8, <1>9, <2>1
<1>12. BehindDebt'
    <2> SUFFICES ASSUME NEW m \in Nat \ {0}, Queue(m)' # {}
                 PROVE  Refilled' + Unit * Cardinality(Queue(m))' <= Unit - m * Configured
        BY DEF BehindDebt
    <2>1. Queue(m) # {}
        BY <1>1
    <2>2. Refilled + Unit * Cardinality(Queue(m)) <= Unit - m * Configured
        BY <2>1 DEF Orderly, BehindDebt
    <2> QED BY <1>4, <1>5, <1>7, <2>2
<1>13. Spaced'
    <2> SUFFICES ASSUME NEW m \in Nat \ {0}, NEW n \in Nat, m <= n
                 PROVE  Unit * Cardinality(Window(m, n))' <= Unit + (n - m) * Configured
        BY DEF Spaced
    <2>1. Unit * Cardinality(Window(m, n)) <= Unit + (n - m) * Configured
        BY DEF Orderly, Spaced
    <2>2. (n - m) * Configured \in Int
        BY Times
    <2> QED BY <1>4, <1>5, <2>1, <2>2
<1> QED BY <1>10, <1>11, <1>12, <1>13 DEF Orderly

(* Lemma: on a tick what was let go leaks away as fast as tokens come, and    *)
(* those who wait are far enough apart.                                     *)
LEMMA TickOrderly ==
    ASSUME TypeOK, Orderly, Tick
    PROVE  Orderly'
<1>1. /\ \A m, n \in Nat : Queue(m)' = Queue(m + 1) /\ Window(m, n)' = Window(m + 1, n + 1)
      /\ Queue(1) = Queue(0) /\ \A n \in Nat : Window(1, n) = Window(0, n)
    BY Advanced
<1>2. \A m, n \in Nat : Cardinality(Queue(m))' = Cardinality(Queue(m + 1))
                        /\ Cardinality(Window(m, n))' = Cardinality(Window(m + 1, n + 1))
    BY <1>1, Zenon
<1>3. Cardinality(Queue(1)) = Cardinality(Queue(0))
      /\ \A n \in Nat : Cardinality(Window(1, n)) = Cardinality(Window(0, n))
    BY <1>1, Zenon
<1>4. /\ level' = Larger(0, level - Configured) /\ tokens' = tokens /\ rate' = rate
      /\ blocked' = Less1(blocked)
    BY DEF Tick
<1>5. /\ rate = Configured /\ blocked = 0 /\ level \in Nat /\ Refilled \in Int
      /\ Refilled <= Burst * Unit
    BY RefilledType DEF Orderly, Steady, TypeOK
<1>6. Refilled' = Smaller(Burst * Unit, Refilled + Configured)
    BY <1>5, RefilledTick
<1>7. PICK l \in Int : level = l * Configured
    BY DEF Orderly, Steady, Whole
<1>8. level = 0 \/ level >= Configured
    <2>1. CASE l >= 1
        <3>1. \A b \in Int : 1 <= b => 1 * Configured <= b * Configured
            BY Times
        <3> QED BY <1>7, <2>1, <3>1, Times
    <2>2. CASE l <= 0
        <3>1. l * Configured <= 0 * Configured
            BY <2>2, Times
        <3> QED BY <1>5, <1>7, <3>1, Times
    <2> QED BY <2>1, <2>2
<1>9. level' = IF level = 0 THEN 0 ELSE level - Configured
    BY <1>4, <1>5, <1>8, Times DEF Larger
<1>10. Steady'
    <2>1. level' = (IF level = 0 THEN 0 ELSE l - 1) * Configured
        BY <1>7, <1>9, Times
    <2> QED BY <1>4, <1>5, <2>1 DEF Orderly, Steady, Whole, Less1, Larger
<1>11. /\ \A m, n \in Nat : Cardinality(Queue(m)) \in Nat /\ Cardinality(Window(m, n)) \in Nat
                           /\ Unit * Cardinality(Queue(m)) \in Int
                           /\ Unit * Cardinality(Window(m, n)) \in Int
       /\ \A n \in Nat : n * Configured \in Int /\ (n + 1) * Configured = n * Configured + Configured
       /\ Unit * 0 = 0 /\ Unit \in Nat /\ Configured \in Nat /\ Burst * Unit \in Nat
       /\ Unit <= Burst * Unit
    <2>1. \A n \in Nat : (n + 1) * Configured = n * Configured + 1 * Configured
        BY Times
    <2>2. \A m, n \in Nat : Cardinality(Queue(m)) \in Nat /\ Cardinality(Window(m, n)) \in Nat
        BY QueueFinite, Zenon
    <2>3. \A a \in Nat : Unit * a \in Int
        BY Times
    <2>4. \A m, n \in Nat : Unit * Cardinality(Queue(m)) \in Int
                            /\ Unit * Cardinality(Window(m, n)) \in Int
        BY <2>2, <2>3, Zenon
    <2>5. 1 * Configured = Configured /\ \A n \in Nat : n * Configured \in Int
        BY Times
    <2>6. \A n \in Nat : (n + 1) * Configured = n * Configured + Configured
        BY <2>1, <2>5, Zenon
    <2>7. /\ Unit * 0 = 0 /\ Unit \in Nat /\ Configured \in Nat /\ Burst * Unit \in Nat
          /\ Unit <= Burst * Unit
        BY Times
    <2> QED BY <2>2, <2>4, <2>5, <2>6, <2>7, Zenon
<1>12. Paid'
    <2>1. Cardinality(Queue(0))' = Cardinality(Queue(0))
        BY <1>2, <1>3
    <2>2. level + Unit * Cardinality(Queue(0)) <= Burst * Unit - Refilled
        BY DEF Orderly, Paid
    <2>3. ASSUME Queue(0) # {}
          PROVE  Refilled + Unit * Cardinality(Queue(0)) <= Unit - Configured
        <3>1. Queue(1) # {}
            BY <1>1, <2>3
        <3>2. Refilled + Unit * Cardinality(Queue(1)) <= Unit - 1 * Configured
            BY <3>1 DEF Orderly, BehindDebt
        <3> QED BY <1>3, <1>11, <3>2
    <2>4. Queue(0) = {} => Unit * Cardinality(Queue(0)) = 0
        BY <1>11, FS_EmptySet
    <2> DEFINE B == Burst * Unit
               W == Unit * Cardinality(Queue(0))
    <2>t. B \in Int /\ W \in Int /\ Unit \in Nat /\ Configured \in Nat /\ Unit <= B
        BY <1>11
    <2>b. /\ Refilled' = Smaller(B, Refilled + Configured) /\ level + W <= B - Refilled
          /\ Refilled <= B
          /\ Refilled + W <= Unit - Configured \/ W = 0
        BY <1>5, <1>6, <2>2, <2>3, <2>4
    <2> HIDE DEF B, W
    <2>c. level' + W <= B - Refilled'
        BY <1>5, <1>8, <1>9, <2>t, <2>b DEF Smaller
    <2>5. level' + Unit * Cardinality(Queue(0)) <= Burst * Unit - Refilled'
        BY <2>c DEF B, W
    <2> QED BY <2>1, <2>5 DEF Paid
<1>13. DuePaid'
    <2> SUFFICES ASSUME NEW n \in Nat
                 PROVE  level' + Unit * Cardinality(Window(0, n))' <= Burst * Unit + n * Configured
        BY DEF DuePaid
    <2> DEFINE due == Cardinality(Window(0, n + 1))
    <2>1. Cardinality(Window(0, n))' = due
        BY <1>2, <1>3
    <2>2. level + Unit * due <= Burst * Unit + (n + 1) * Configured
        BY DEF Orderly, DuePaid
    <2>3. Unit * due <= Unit + n * Configured
        <3>1. Unit * Cardinality(Window(1, n + 1)) <= Unit + ((n + 1) - 1) * Configured
            BY DEF Orderly, Spaced
        <3> QED BY <1>3, <3>1
    <2>4. Unit * due \in Int /\ n * Configured \in Int
          /\ (n + 1) * Configured = n * Configured + Configured
        BY <1>11
    <2> DEFINE B == Burst * Unit
               g == n * Configured
               cost == Unit * due
    <2>t. /\ B \in Int /\ g \in Int /\ cost \in Int /\ Unit \in Nat /\ Configured \in Nat /\ Unit <= B
          /\ level + cost <= B + (g + Configured) /\ cost <= Unit + g
        BY <1>11, <2>2, <2>3, <2>4
    <2> HIDE DEF due, B, g, cost
    <2>5. level' + cost <= B + g
        BY <1>5, <1>8, <1>9, <2>t
    <2> QED BY <2>1, <2>5 DEF B, g, cost
<1>14. BehindDebt'
    <2> SUFFICES ASSUME NEW m \in Nat \ {0}, Queue(m)' # {}
                 PROVE  Refilled' + Unit * Cardinality(Queue(m))' <= Unit - m * Configured
        BY DEF BehindDebt
    <2> DEFINE behind == Cardinality(Queue(m + 1))
    <2>1. Queue(m + 1) # {} /\ Cardinality(Queue(m))' = behind
        BY <1>1, <1>2
    <2>2. Refilled + Unit * behind <= Unit - (m + 1) * Configured
        BY <2>1 DEF Orderly, BehindDebt
    <2>3. Unit * behind \in Int /\ m * Configured \in Int
          /\ (m + 1) * Configured = m * Configured + Configured
        BY <1>11
    <2> DEFINE B == Burst * Unit
               g == m * Configured
               cost == Unit * behind
    <2>t. /\ B \in Int /\ g \in Int /\ cost \in Int /\ Unit \in Nat /\ Configured \in Nat
          /\ Refilled + cost <= Unit - (g + Configured)
          /\ Refilled' = Smaller(B, Refilled + Configured)
        BY <1>6, <1>11, <2>2, <2>3
    <2> HIDE DEF behind, B, g, cost
    <2>4. Refilled' + cost <= Unit - g
        BY <1>5, <2>t DEF Smaller
    <2> QED BY <2>1, <2>4 DEF g, cost
<1>15. Spaced'
    <2> SUFFICES ASSUME NEW m \in Nat \ {0}, NEW n \in Nat, m <= n
                 PROVE  Unit * Cardinality(Window(m, n))' <= Unit + (n - m) * Configured
        BY DEF Spaced
    <2>1. Unit * Cardinality(Window(m + 1, n + 1)) <= Unit + ((n + 1) - (m + 1)) * Configured
        BY DEF Orderly, Spaced
    <2>2. (n + 1) - (m + 1) = n - m
        OBVIOUS
    <2> QED BY <1>2, <2>1, <2>2
<1> QED BY <1>10, <1>12, <1>13, <1>14, <1>15 DEF Orderly

(* Lemma: without a rejection every step keeps the queue in order.          *)
LEMMA OrderlyStep ==
    ASSUME TypeOK, Orderly, [Next]_vars, rejects' = 0
    PROVE  Orderly'
<1>0. Refilled \in Int /\ Refilled <= Burst * Unit /\ Unit \in Nat /\ rate \in Int /\ rejects \in Nat
    BY RefilledType, Times, RateRange DEF TypeOK
<1>c. \A c \in Callers :
        call[c] \in [pc : {"idle", "waiting", "due", "out", "gone"}, wait : Nat, owed : Nat]
    BY DEF TypeOK
<1>w. Whole(Refilled) /\ \A x : Whole(x) => Whole(x + Unit) /\ Whole(x - Unit)
    <2>1. PICK k \in Nat \ {0} : Unit = k * Configured
        BY Interval
    <2>2. ASSUME NEW x, NEW n \in Int, x = n * Configured
          PROVE  x + Unit = (n + k) * Configured /\ x - Unit = (n - k) * Configured
        BY <2>1, <2>2, Times
    <2>3. \A x : Whole(x) => Whole(x + Unit) /\ Whole(x - Unit)
        BY <2>1, <2>2 DEF Whole
    <2> QED BY <2>3, WholeRefilled DEF Orderly
<1>1. CASE Tick
    BY <1>1, TickOrderly
<1>2. ASSUME NEW c \in Callers, CallerStep(c) PROVE Orderly'
    <2>1. CASE Reserve(c)
        BY <2>1, ReserveOrderly
    <2>2. CASE Due(c)
        <3>1. /\ call' = [call EXCEPT ![c].pc = "due"] /\ level' = level + Unit
              /\ UNCHANGED <<tokens, since, blocked, rate, successes>>
              /\ c \in Window(0, 0)
            BY <2>2 DEF Due, bucket, Window, Queue
        <3>2. \E r : r.pc # "waiting" /\ call' = [call EXCEPT ![c] = r]
            <4>1. call' = [call EXCEPT ![c] = [call[c] EXCEPT !.pc = "due"]]
                BY <3>1
            <4>2. [call[c] EXCEPT !.pc = "due"].pc # "waiting"
                BY <1>c
            <4> QED BY <4>1, <4>2
        <3>3. Refilled' = Refilled
            BY <3>1 DEF Refilled
        <3>4. Steady'
            BY <1>w, <3>1 DEF Orderly, Steady
        <3>5. /\ Refilled' \in Int /\ Refilled' <= Refilled
              /\ \/ level' = level
                 \/ level' = level + Unit /\ c \in Window(0, 0)
                 \/ level' = level + Unit /\ Refilled' = Refilled - Unit /\ Refilled' >= 0
            BY <1>0, <3>1, <3>3
        <3> QED BY <3>2, <3>4, <3>5, LeaveOrderly, Zenon
    <2>3. CASE WaitReturns(c) \/ WaitGivesUp(c)
        <3>1. /\ \/ call' = [call EXCEPT ![c] = [Resting EXCEPT !.pc = "gone"]]
                 \/ call' = [call EXCEPT ![c] = [call[c] EXCEPT !.pc = "out"]]
              /\ level' = level
              /\ UNCHANGED <<tokens, since, blocked, rate, successes>>
            BY <2>3 DEF WaitReturns, WaitGivesUp, bucket
        <3>2. \E r : r.pc # "waiting" /\ call' = [call EXCEPT ![c] = r]
            <4>1. [Resting EXCEPT !.pc = "gone"].pc # "waiting"
                BY DEF Resting
            <4>2. [call[c] EXCEPT !.pc = "out"].pc # "waiting"
                BY <1>c
            <4> QED BY <3>1, <4>1, <4>2
        <3>3. Refilled' = Refilled /\ Steady'
            BY <3>1 DEF Refilled, Orderly, Steady, Whole
        <3>5. /\ Refilled' \in Int /\ Refilled' <= Refilled
              /\ \/ level' = level
                 \/ level' = level + Unit /\ c \in Window(0, 0)
                 \/ level' = level + Unit /\ Refilled' = Refilled - Unit /\ Refilled' >= 0
            BY <1>0, <3>1, <3>3
        <3> QED BY <3>2, <3>3, <3>5, LeaveOrderly, Zenon
    <2>4. CASE AllowGrants(c)
        <3>1. /\ tokens' = Refilled - Unit /\ since' = 0 /\ level' = level + Unit
              /\ UNCHANGED <<blocked, rate>> /\ Refilled >= Unit
              /\ call' = [call EXCEPT ![c] = [pc |-> "out", wait |-> 0, owed |-> asked]]
            BY <2>4 DEF AllowGrants
        <3>2. \E r : r.pc # "waiting" /\ call' = [call EXCEPT ![c] = r]
            BY <3>1
        <3>3. Refilled' = Refilled - Unit
            BY <1>0, <3>1, RefilledSet, Times
        <3>4. Steady'
            BY <1>w, <3>1 DEF Orderly, Steady
        <3>5. /\ Refilled' \in Int /\ Refilled' <= Refilled
              /\ \/ level' = level
                 \/ level' = level + Unit /\ c \in Window(0, 0)
                 \/ level' = level + Unit /\ Refilled' = Refilled - Unit /\ Refilled' >= 0
            BY <1>0, <3>1, <3>3
        <3> QED BY <3>2, <3>4, <3>5, LeaveOrderly, Zenon
    <2>5. CASE AllowRefuses(c)
        <3>1. /\ tokens' = Refilled /\ since' = 0 /\ call[c].pc = "idle"
              /\ UNCHANGED <<blocked, rate, level, call>>
            BY <2>5 DEF AllowRefuses
        <3>2. \E r : r.pc # "waiting" /\ call' = [call EXCEPT ![c] = r]
            <4>1. call' = [call EXCEPT ![c] = call[c]]
                BY <3>1 DEF TypeOK
            <4> QED BY <3>1, <4>1
        <3>3. Refilled' = Refilled
            BY <1>0, <3>1, RefilledSet, Times
        <3>4. Steady'
            BY <1>w, <3>1 DEF Orderly, Steady
        <3>5. /\ Refilled' \in Int /\ Refilled' <= Refilled
              /\ \/ level' = level
                 \/ level' = level + Unit /\ c \in Window(0, 0)
                 \/ level' = level + Unit /\ Refilled' = Refilled - Unit /\ Refilled' >= 0
            BY <1>0, <3>1, <3>3
        <3> QED BY <3>2, <3>4, <3>5, LeaveOrderly, Zenon
    <2>6. CASE Success(c) \/ Fails(c)
        <3>1. /\ call' = [call EXCEPT ![c] = Resting]
              /\ UNCHANGED <<tokens, since, blocked, rate, level>>
            <4>1. rate >= Configured
                BY Times DEF Orderly, Steady
            <4> QED BY <2>6, <4>1 DEF Success, Fails, Over, bucket
        <3>2. \E r : r.pc # "waiting" /\ call' = [call EXCEPT ![c] = r]
            BY <3>1 DEF Resting
        <3>3. Refilled' = Refilled /\ Steady'
            BY <3>1 DEF Refilled, Orderly, Steady, Whole
        <3>5. /\ Refilled' \in Int /\ Refilled' <= Refilled
              /\ \/ level' = level
                 \/ level' = level + Unit /\ c \in Window(0, 0)
                 \/ level' = level + Unit /\ Refilled' = Refilled - Unit /\ Refilled' >= 0
            BY <1>0, <3>1, <3>3
        <3> QED BY <3>2, <3>3, <3>5, LeaveOrderly, Zenon
    <2>7. ASSUME NEW hint \in Hints, Reject(c, hint) PROVE FALSE
        BY <1>0, <2>7 DEF Reject
    <2> QED BY <1>2, <2>1, <2>2, <2>3, <2>4, <2>5, <2>6, <2>7 DEF CallerStep
<1>3. CASE UNCHANGED vars
    BY <1>3 DEF vars, bucket, Orderly, Steady, Paid, DuePaid, BehindDebt, Spaced,
                Whole, Refilled, Queue, Window
<1> QED BY <1>1, <1>2, <1>3 DEF Next

(* Lemma: rejections are only ever counted up.                              *)
LEMMA RejectsCounted ==
    ASSUME TypeOK, [Next]_vars, rejects' = 0
    PROVE  rejects = 0
<1>1. rejects' \in {rejects, rejects + 1}
    BY DEF Next, vars, Tick, CallerStep, Reserve, Due, WaitReturns, WaitGivesUp, AllowGrants,
           AllowRefuses, Success, Fails, Reject
<1> QED BY <1>1 DEF TypeOK

(* Theorem: the inductive invariant of the rate limiter: what the peer      *)
(* asked for is in every later wait and, until a first rejection, the calls *)
(* let go and those waiting are paid for and a token apart                  *)
(* (Reserve, refill and Reject of ratelimit.go).                            *)
THEOREM RateLimitInvariant == Spec => []IInv
<1>1. Init => IInv
    <2> SUFFICES ASSUME Init PROVE IInv
        OBVIOUS
    <2>1. TypeOK
        BY Times, RateRange DEF Init, TypeOK, Resting
    <2>2. HintHeld /\ RetryAfterKept
        BY DEF Init, HintHeld, RetryAfterKept, Resting
    <2>3. Refilled = Burst * Unit
        <3>1. Burst * Unit + 0 * Configured = Burst * Unit
            BY Times
        <3>2. Refilled = Smaller(Burst * Unit, Burst * Unit + 0 * Configured)
            BY DEF Init, Refilled
        <3> QED BY <3>1, <3>2 DEF Smaller
    <2>4. Steady
        <3>1. PICK k \in Nat \ {0} : Unit = k * Configured
            BY Interval
        <3>2. Burst * Unit = (Burst * k) * Configured /\ Burst * k \in Int /\ 0 = 0 * Configured
            BY <3>1, BucketAssumption
        <3> QED BY <3>2 DEF Init, Steady, Whole
    <2>5. \A m, n \in Nat : Queue(m) = {} /\ Window(m, n) = {}
        BY DEF Init, Resting, Queue, Window
    <2>6. \A m, n \in Nat : Unit * Cardinality(Queue(m)) = 0 /\ Unit * Cardinality(Window(m, n)) = 0
        <3>1. Unit * Cardinality({}) = 0
            BY FS_EmptySet, Times
        <3> QED BY <2>5, <3>1, Zenon
    <2>7. \A n \in Nat : n * Configured \in Nat
        BY BucketAssumption
    <2>8. Paid /\ DuePaid /\ BehindDebt
        BY <2>3, <2>5, <2>6, <2>7, Times DEF Init, Paid, DuePaid, BehindDebt
    <2>9. Spaced
        <3>1. \A m \in Nat \ {0}, n \in Nat : m <= n => n - m \in Nat
            OBVIOUS
        <3> QED BY <2>6, <2>7, <3>1, Times DEF Spaced
    <2> QED BY <2>1, <2>2, <2>4, <2>8, <2>9 DEF IInv, Orderly
<1>2. IInv /\ [Next]_vars => IInv'
    <2> SUFFICES ASSUME IInv, [Next]_vars PROVE IInv'
        OBVIOUS
    <2>1. TypeOK' /\ HintHeld' /\ RetryAfterKept'
        BY TypeStep, HintStep DEF IInv
    <2>2. rejects' = 0 => Orderly'
        BY OrderlyStep, RejectsCounted DEF IInv
    <2> QED BY <2>1, <2>2 DEF IInv
<1> QED BY <1>1, <1>2, PTL DEF Spec

(* Theorem: until the first rejection, in any stretch of time the calls     *)
(* let go are at most the burst and what the configured rate allows in it.    *)
THEOREM QuotaKept == Spec => []WithinQuota
<1>1. IInv => WithinQuota
    <2> SUFFICES ASSUME IInv, rejects = 0 PROVE level <= Burst * Unit
        BY DEF WithinQuota
    <2>1. level + Unit * Cardinality(Window(0, 0)) <= Burst * Unit + 0 * Configured
        BY DEF IInv, Orderly, DuePaid
    <2>2. Cardinality(Window(0, 0)) \in Nat /\ level \in Nat
        BY QueueFinite DEF IInv, TypeOK
    <2>3. Unit * 0 <= Unit * Cardinality(Window(0, 0)) /\ Unit * Cardinality(Window(0, 0)) \in Int
        BY <2>2, Times
    <2> QED BY <2>1, <2>2, <2>3, Times
<1> QED BY <1>1, RateLimitInvariant, PTL

(* Theorem: nobody who comes after a Retry-After calls before it is over,   *)
(* after any number of rejections, hints and recoveries.                    *)
THEOREM RetryAfterHonoured == Spec => []RetryAfterKept
<1>1. IInv => RetryAfterKept
    BY DEF IInv
<1> QED BY <1>1, RateLimitInvariant, PTL
=============================================================================
