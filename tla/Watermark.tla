----------------------------- MODULE Watermark -----------------------------
(***************************************************************************)
(* How far a delta read has got: internal/watermark and the poll, submit    *)
(* and commit of internal/engine/poll.go, for one kind of one peer.         *)
(*                                                                          *)
(* The records change while they are being read and while what was read is  *)
(* worked off.  A record's modification time is the peer's: it may lag our  *)
(* clock by Skew (rounding, write latency) or run ahead of it by Ahead.     *)
(* What the queue makes of a polled version is one step here, taken at any  *)
(* time; WorkQueue takes it apart.  The peer is described by its listing:   *)
(* the records modified at or after since, ordered by (time, identifier),   *)
(* cut into pages by offset, as internal/connector/fake does it.            *)
(***************************************************************************)
EXTENDS Integers, FiniteSets

CONSTANTS
    Recs,                           \* identifiers, numbers so that they sort
    Configured, Exact,              \* PeerConfig: Overlap, ExactTimestamps
    DefaultOverlap, CoarseOverlap,  \* the package's constants
    Skew, Ahead,                    \* how far the peer's times are off
    PageSize,                       \* 0: everything in one page
    StartTime,                      \* our clock when the process first runs
    MaxTime, MaxVersions,           \* bounds on the clock and on changes
    MaxFailures                     \* bound on failed polls and crashes

ASSUME RecsAssumption == Recs \subseteq Int
ASSUME TimesAssumption ==
    /\ Configured \in Int /\ Exact \in BOOLEAN
    /\ DefaultOverlap \in Nat /\ CoarseOverlap \in Nat
    /\ Skew \in Nat /\ Ahead \in Nat /\ PageSize \in Nat /\ StartTime \in Nat
    /\ MaxTime \in Nat /\ MaxVersions \in Nat /\ MaxFailures \in Nat

\* No mark stored yet; times count from 1.
NoMark == 0

VARIABLES
    now,        \* our clock
    stamp,      \* stamp[c]: the peer's modification time of record c
    ver,        \* ver[c]: how many times c has changed
    settled,    \* settled[c]: newest version applied or dead-lettered
    mark,       \* the stored high-water mark
    poll,       \* the cycle in progress
    failures    \* polls failed and processes killed so far

vars == <<now, stamp, ver, settled, mark, poll, failures>>

\* A cycle: where it is, where it reads from, when its first page was read,
\* the next offset, the versions it found and the highest time among them.
NoPoll == [pc |-> "idle", since |-> 0, at |-> 0, cursor |-> 0,
           found |-> {}, highest |-> 0]

Polls == [pc : {"idle", "reading", "working"}, since : Int, at : Nat,
          cursor : Nat, found : SUBSET (Recs \X Nat), highest : Nat]

Times == Nat \ {0}

TypeOK ==
    /\ now \in Times
    /\ stamp \in [Recs -> Times]
    /\ ver \in [Recs -> Nat]
    /\ settled \in [Recs -> Nat]
    /\ mark \in Nat
    /\ poll \in Polls
    /\ failures \in Nat

Init ==
    /\ now = StartTime + 1
    /\ stamp \in [Recs -> 1..(StartTime + 1)]
    /\ ver = [c \in Recs |-> 1]
    /\ settled = [c \in Recs |-> 0]
    /\ mark = NoMark
    /\ poll = NoPoll
    /\ failures = 0

-----------------------------------------------------------------------------
(* The world.                                                               *)

Tick ==
    /\ now < MaxTime
    /\ now' = now + 1
    /\ UNCHANGED <<stamp, ver, settled, mark, poll, failures>>

Change(c, t) ==
    /\ ver[c] < MaxVersions
    /\ t >= now - Skew /\ t <= now + Ahead
    /\ ver' = [ver EXCEPT ![c] = @ + 1]
    /\ stamp' = [stamp EXCEPT ![c] = t]
    /\ UNCHANGED <<now, settled, mark, poll, failures>>

\* One page of the listing: the records whose rank in it follows the cursor.
Listed(since) == {c \in Recs : stamp[c] >= since}

Before(b, c) == stamp[b] < stamp[c] \/ (stamp[b] = stamp[c] /\ b < c)

Rank(since, c) == Cardinality({b \in Listed(since) : Before(b, c)})

Page(since, cursor) ==
    IF PageSize = 0 THEN Listed(since)
    ELSE {c \in Listed(since) : /\ Rank(since, c) >= cursor
                                /\ Rank(since, c) < cursor + PageSize}

LastPage(since, cursor) ==
    PageSize = 0 \/ Cardinality(Listed(since)) <= cursor + PageSize

-----------------------------------------------------------------------------
(* watermark.Tracker.                                                       *)

\* An inexact peer gets at least the coarse window.
Overlap ==
    LET asked == IF Configured <= 0 THEN DefaultOverlap ELSE Configured
    IN  IF ~Exact /\ asked < CoarseOverlap THEN CoarseOverlap ELSE asked

\* Mutant: a read starts at the mark itself.
SinceMark == mark

\* Where the next read starts; at the beginning of time without a mark.
Since == IF mark = NoMark THEN 0 ELSE mark - Overlap

\* Highest: t is the largest of the times in S.
Highest(t, S) == t \in S /\ \A u \in S : u <= t

\* Mutant: the mark moves to the time of the commit.
AdvancedToNow(h) == now

\* Mutant: a peer's clock is believed.
AdvancedUncapped(h) == IF h > mark THEN h ELSE mark

\* Advance: to the highest time seen, never past our clock, never back.
Advanced(h) ==
    LET capped == IF h > now THEN now ELSE h
    IN  IF capped > mark THEN capped ELSE mark

-----------------------------------------------------------------------------
(* Cycle: Poll, Submit, Commit.                                             *)

BeginPoll ==
    /\ poll.pc = "idle"
    /\ poll' = [pc |-> "reading", since |-> Since, at |-> 0, cursor |-> 0,
                found |-> {}, highest |-> 0]
    /\ UNCHANGED <<now, stamp, ver, settled, mark, failures>>

ReadPage ==
    LET page == Page(poll.since, poll.cursor)
        times == {poll.highest} \union {stamp[c] : c \in page}
    IN
    /\ poll.pc = "reading"
    /\ \E highest \in times :
         /\ Highest(highest, times)
         /\ poll' = [pc |-> IF LastPage(poll.since, poll.cursor)
                            THEN "working" ELSE "reading",
                     since |-> poll.since,
                     at |-> IF poll.cursor = 0 THEN now ELSE poll.at,
                     cursor |-> poll.cursor + PageSize,
                     found |-> poll.found \union {<<c, ver[c]>> : c \in page},
                     highest |-> highest]
    /\ UNCHANGED <<now, stamp, ver, settled, mark, failures>>

\* The queue is through with a version: applied, or dead-lettered.
Work(c, v) ==
    /\ poll.pc = "working"
    /\ <<c, v>> \in poll.found
    /\ settled[c] < v
    /\ settled' = [settled EXCEPT ![c] = v]
    /\ UNCHANGED <<now, stamp, ver, mark, poll, failures>>

\* Every task of the poll has reached a terminal state.
AllDone == poll.pc = "working" /\ \A x \in poll.found : settled[x[1]] >= x[2]

Commit ==
    /\ AllDone
    /\ mark' = Advanced(poll.highest)
    /\ poll' = NoPoll
    /\ UNCHANGED <<now, stamp, ver, settled, failures>>

\* A page could not be read: the poll returns an error and is forgotten.
PollFails ==
    /\ poll.pc = "reading" /\ failures < MaxFailures
    /\ poll' = NoPoll
    /\ failures' = failures + 1
    /\ UNCHANGED <<now, stamp, ver, settled, mark>>

\* The process dies; the store keeps the mark and what was applied.
Crash ==
    /\ poll.pc # "idle" /\ failures < MaxFailures
    /\ poll' = NoPoll
    /\ failures' = failures + 1
    /\ UNCHANGED <<now, stamp, ver, settled, mark>>

Cycle == BeginPoll \/ ReadPage \/ (\E x \in poll.found : Work(x[1], x[2])) \/ Commit

Next ==
    \/ Tick
    \/ \E c \in Recs, t \in 1..(MaxTime + Ahead) : Change(c, t)
    \/ Cycle
    \/ PollFails
    \/ Crash

Spec == Init /\ [][Next]_vars

\* The caller of Cycle keeps calling it, and a cycle's steps return.
FairSpec == Spec /\ WF_vars(Cycle)
-----------------------------------------------------------------------------
\* The peer holds a version of c that neither was applied nor is kept.
Owed(c) == settled[c] < ver[c]

(* Safety: whatever is still owed would be read by a poll that started now, *)
(* so a crash, a failed poll or a slow one never loses a change             *)
(* (watermark.go:3-16, poll.go:17-20, 122-127).                             *)
NothingSkipped == \A c \in Recs : Owed(c) => stamp[c] >= Since

(* Liveness: once changes stop, everything is applied or dead-lettered.     *)
CaughtUp == <>[](\A c \in Recs : ~Owed(c))

-----------------------------------------------------------------------------
(* The inductive invariant behind NothingSkipped, for a one-page listing.   *)

\* No stored mark and no stamp is later than our clock allows.
TimesBounded ==
    /\ mark <= now
    /\ \A c \in Recs : stamp[c] <= now + Ahead

\* A cycle reads from where a poll that started now would.
PollFresh ==
    /\ poll.pc # "idle" => poll.since = Since
    /\ poll.pc = "reading" => poll.cursor = 0 /\ poll.found = {} /\ poll.highest = 0

\* What a working cycle did not find changed after it had read; a cycle that
\* is still reading has read nothing, there being one page.
FoundOrLater ==
    poll.pc = "working" =>
        /\ poll.at <= now
        /\ poll.highest <= poll.at + Ahead
        /\ \A c \in Recs : Owed(c) => \/ <<c, ver[c]>> \in poll.found
                                      \/ stamp[c] >= poll.at - Skew

IInv ==
    /\ TypeOK
    /\ TimesBounded
    /\ PollFresh
    /\ FoundOrLater
    /\ NothingSkipped
=============================================================================
