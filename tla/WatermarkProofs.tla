-------------------------- MODULE WatermarkProofs --------------------------
(***************************************************************************)
(* NothingSkipped for every set of records, every clock and every run, when *)
(* the listing comes in one page and the overlap window is at least as wide *)
(* as the peer's times can be off in both directions together.              *)
(***************************************************************************)
EXTENDS Watermark, TLAPS

(* Lemma: the window is a length of time.                                   *)
LEMMA OverlapType == Overlap \in Int
BY TimesAssumption DEF Overlap

(* Lemma: where a read starts is an integer.                                *)
LEMMA SinceType == ASSUME mark \in Nat PROVE Since \in Int
BY OverlapType DEF Since, NoMark

(* Lemma: nothing is stored and nobody is reading when the process starts.  *)
LEMMA InitIInv == Init => IInv
<1> SUFFICES ASSUME Init PROVE IInv
    OBVIOUS
<1>1. TypeOK
    <2>1. poll \in Polls
        BY DEF Init, NoPoll, Polls
    <2>2. stamp \in [Recs -> Times]
        BY TimesAssumption DEF Init, Times
    <2> QED BY <2>1, <2>2, TimesAssumption DEF Init, TypeOK, NoMark, Times
<1>2. TimesBounded
    BY TimesAssumption DEF Init, TimesBounded, NoMark
<1>3. PollFresh /\ FoundOrLater
    BY DEF Init, PollFresh, FoundOrLater, NoPoll
<1>4. NothingSkipped
    BY TimesAssumption DEF Init, NothingSkipped, Since, NoMark
<1> QED BY <1>1, <1>2, <1>3, <1>4 DEF IInv

(* Lemma: no step of anyone disturbs the invariant.  The step that could is *)
(* Commit; the others change what is owed, what was found or the clock in   *)
(* the direction the invariant allows.                                      *)
LEMMA NextIInv ==
    ASSUME PageSize = 0, Skew + Ahead <= Overlap, IInv, [Next]_vars
    PROVE  IInv'
<1> USE TimesAssumption, OverlapType DEF IInv
<1>1. CASE Tick
    <2>1. TypeOK'
        BY <1>1 DEF Tick, TypeOK, Times
    <2>2. TimesBounded'
        BY <1>1 DEF Tick, TypeOK, Times, TimesBounded
    <2>3. Since' = Since
        BY <1>1 DEF Tick, Since
    <2>4. PollFresh' /\ NothingSkipped'
        BY <1>1, <2>3 DEF Tick, PollFresh, NothingSkipped, Owed
    <2>5. FoundOrLater'
        BY <1>1 DEF Tick, FoundOrLater, Owed, TypeOK, Times, Polls
    <2> QED BY <2>1, <2>2, <2>4, <2>5
<1>2. ASSUME NEW c \in Recs, NEW t \in 1..(MaxTime + Ahead), Change(c, t)
      PROVE  IInv'
    <2>1. TypeOK'
        BY <1>2 DEF Change, TypeOK, Times
    <2>2. TimesBounded'
        BY <1>2 DEF Change, TypeOK, Times, TimesBounded
    <2>3. Since' = Since /\ Since \in Int
        BY <1>2, SinceType DEF Change, Since, TypeOK
    <2>4. PollFresh'
        BY <1>2, <2>3 DEF Change, PollFresh
    <2>5. t >= Since
        BY <1>2 DEF Change, TimesBounded, Since, TypeOK, Times, NoMark
    <2>6. NothingSkipped'
        BY <1>2, <2>3, <2>5 DEF Change, NothingSkipped, Owed, TypeOK
    <2>7. FoundOrLater'
        BY <1>2 DEF Change, FoundOrLater, Owed, TypeOK, Times, Polls
    <2> QED BY <2>1, <2>2, <2>4, <2>6, <2>7
<1>3. CASE BeginPoll
    <2>1. Since' = Since /\ Since \in Int
        BY <1>3, SinceType DEF BeginPoll, Since, TypeOK
    <2>2. TypeOK'
        BY <1>3, <2>1 DEF BeginPoll, TypeOK, NoPoll, Polls
    <2>3. TimesBounded' /\ NothingSkipped'
        BY <1>3, <2>1 DEF BeginPoll, TimesBounded, NothingSkipped, Owed
    <2>4. PollFresh' /\ FoundOrLater'
        BY <1>3, <2>1 DEF BeginPoll, PollFresh, FoundOrLater, NoPoll
    <2> QED BY <2>2, <2>3, <2>4
<1>4. CASE ReadPage
    <2> DEFINE page == {c \in Recs : stamp[c] >= poll.since}
    <2> DEFINE times == {poll.highest} \union {stamp[c] : c \in page}
    <2>1. Page(poll.since, poll.cursor) = page
        BY DEF Page, Listed
    <2>2. poll.since = Since /\ poll.cursor = 0 /\ poll.found = {} /\ poll.highest = 0
        BY <1>4 DEF ReadPage, PollFresh
    <2>3. LastPage(poll.since, poll.cursor)
        BY DEF LastPage
    <2>4. PICK h \in times :
            /\ \A u \in times : u <= h
            /\ poll' = [pc |-> "working", since |-> poll.since, at |-> now,
                        cursor |-> poll.cursor + PageSize,
                        found |-> poll.found \union {<<c, ver[c]>> : c \in page},
                        highest |-> h]
        BY <1>4, <2>1, <2>2, <2>3 DEF ReadPage, Highest
    <2>5. now \in Nat /\ Since \in Int /\ h \in Nat /\ h <= now + Ahead
        BY <2>2, SinceType DEF TypeOK, Times, TimesBounded
    <2>6. /\ poll'.pc = "working" /\ poll'.since = Since /\ poll'.at = now
          /\ poll'.cursor = 0 /\ poll'.highest = h
          /\ poll'.found = {<<c, ver[c]>> : c \in page}
        BY <2>2, <2>4
    <2>7. UNCHANGED <<now, stamp, ver, settled, mark, failures>>
        BY <1>4 DEF ReadPage
    <2>8. TypeOK'
        <3>1. {<<c, ver[c]>> : c \in page} \in SUBSET (Recs \X Nat)
            BY DEF TypeOK
        <3>2. poll' \in Polls
            BY <2>2, <2>4, <2>5, <3>1 DEF Polls
        <3> QED BY <2>7, <3>2 DEF TypeOK
    <2>9. Since' = Since
        BY <2>7 DEF Since
    <2>10. TimesBounded' /\ NothingSkipped'
        BY <2>7, <2>9 DEF TimesBounded, NothingSkipped, Owed
    <2>11. PollFresh'
        BY <2>6, <2>9 DEF PollFresh
    <2>12. ASSUME NEW c \in Recs, Owed(c)' PROVE <<c, ver'[c]>> \in poll'.found
        <3>1. c \in page
            BY <2>2, <2>7, <2>12 DEF NothingSkipped, Owed
        <3> QED BY <2>6, <2>7, <3>1
    <2>13. FoundOrLater'
        BY <2>5, <2>6, <2>7, <2>12 DEF FoundOrLater
    <2> QED BY <2>8, <2>10, <2>11, <2>13
<1>5. ASSUME NEW x \in poll.found, Work(x[1], x[2])
      PROVE  IInv'
    <2> DEFINE c == x[1]
               v == x[2]
    <2>1. c \in Recs /\ v \in Nat /\ settled[c] < v
        BY <1>5 DEF Work, TypeOK, Polls
    <2>2. /\ settled' = [settled EXCEPT ![c] = v]
          /\ UNCHANGED <<now, stamp, ver, mark, poll, failures>>
        BY <1>5 DEF Work
    <2> HIDE DEF c, v
    <2>3. TypeOK'
        BY <2>1, <2>2 DEF TypeOK
    <2>4. \A r \in Recs : Owed(r)' => Owed(r)
        BY <2>1, <2>2 DEF Owed, TypeOK
    <2>5. Since' = Since
        BY <2>2 DEF Since
    <2>6. TimesBounded' /\ PollFresh' /\ NothingSkipped'
        BY <2>2, <2>4, <2>5 DEF TimesBounded, PollFresh, NothingSkipped
    <2>7. FoundOrLater'
        BY <2>2, <2>4 DEF FoundOrLater
    <2> QED BY <2>3, <2>6, <2>7
<1>6. CASE Commit
    <2>1. /\ poll.pc = "working" /\ \A x \in poll.found : settled[x[1]] >= x[2]
          /\ mark' = Advanced(poll.highest) /\ poll' = NoPoll
          /\ UNCHANGED <<now, stamp, ver, settled, failures>>
        BY <1>6 DEF Commit, AllDone
    <2>2. now \in Nat /\ mark \in Nat /\ poll.highest \in Nat /\ poll.at \in Nat
        BY DEF TypeOK, Times, Polls
    <2>3. mark' \in Nat /\ mark' <= now /\ (mark' = mark \/ mark' <= poll.highest)
        BY <2>1, <2>2 DEF Advanced, TimesBounded
    <2>4. TypeOK'
        <3>1. NoPoll \in Polls
            BY DEF NoPoll, Polls
        <3> QED BY <2>1, <2>3, <3>1 DEF TypeOK
    <2>5. TimesBounded'
        BY <2>1, <2>3 DEF TimesBounded
    <2>6. PollFresh' /\ FoundOrLater'
        BY <2>1 DEF PollFresh, FoundOrLater, NoPoll
    <2>7. ASSUME NEW c \in Recs, Owed(c) PROVE stamp[c] >= poll.at - Skew
        <3>1. <<c, ver[c]>> \notin poll.found
            <4>1. SUFFICES ASSUME <<c, ver[c]>> \in poll.found PROVE FALSE
                OBVIOUS
            <4>2. settled[c] >= ver[c]
                BY <2>1, <4>1
            <4> QED BY <2>7, <4>2 DEF Owed, TypeOK
        <3> QED BY <2>1, <2>7, <3>1 DEF FoundOrLater
    <2>8. ASSUME NEW c \in Recs, Owed(c) PROVE stamp[c] >= Since'
        <3>1. stamp[c] \in Nat /\ stamp[c] >= poll.at - Skew /\ stamp[c] >= Since
            BY <2>7, <2>8 DEF TypeOK, Times, NothingSkipped
        <3>2. poll.highest <= poll.at + Ahead
            BY <2>1 DEF FoundOrLater
        <3>3. CASE mark' = mark
            BY <3>1, <3>3 DEF Since
        <3>4. CASE mark' <= poll.highest
            BY <2>2, <2>3, <3>1, <3>2, <3>4 DEF Since, NoMark
        <3> QED BY <2>3, <3>3, <3>4
    <2>9. NothingSkipped'
        BY <2>1, <2>8 DEF NothingSkipped, Owed
    <2> QED BY <2>4, <2>5, <2>6, <2>9
<1>7. CASE PollFails \/ Crash
    <2>1. poll' = NoPoll /\ failures' = failures + 1
          /\ UNCHANGED <<now, stamp, ver, settled, mark>>
        BY <1>7 DEF PollFails, Crash
    <2>2. TypeOK'
        BY <2>1 DEF TypeOK, NoPoll, Polls
    <2>3. Since' = Since
        BY <2>1 DEF Since
    <2>4. TimesBounded' /\ NothingSkipped'
        BY <2>1, <2>3 DEF TimesBounded, NothingSkipped, Owed
    <2>5. PollFresh' /\ FoundOrLater'
        BY <2>1 DEF PollFresh, FoundOrLater, NoPoll
    <2> QED BY <2>2, <2>4, <2>5
<1>8. CASE UNCHANGED vars
    <2>1. Since' = Since
        BY <1>8 DEF vars, Since
    <2> QED BY <1>8, <2>1 DEF vars, TypeOK, TimesBounded, PollFresh, FoundOrLater,
                              NothingSkipped, Owed
<1> QED BY <1>1, <1>2, <1>3, <1>4, <1>5, <1>6, <1>7, <1>8 DEF Next, Cycle

(* Theorem: with a listing that comes in one page and a window at least as  *)
(* wide as the peer's times are off, whatever is owed would be read by the  *)
(* next poll: no crash, failed poll, slow work or change during a poll ever *)
(* makes the mark pass a change (watermark.go:3-16, poll.go:128-137).       *)
THEOREM WatermarkSkipsNothing ==
    ASSUME PageSize = 0, Skew + Ahead <= Overlap
    PROVE  Spec => []NothingSkipped
<1>1. IInv /\ [Next]_vars => IInv'
    BY NextIInv
<1>2. IInv => NothingSkipped
    BY DEF IInv
<1> QED BY InitIInv, <1>1, <1>2, PTL DEF Spec

(* Theorem: the mark is never ahead of our clock, whatever the peer's clock *)
(* says, so it cannot blind the sync until real time catches up             *)
(* (watermark.go:112-116).                                                  *)
THEOREM WatermarkInvariant ==
    ASSUME PageSize = 0, Skew + Ahead <= Overlap
    PROVE  Spec => []IInv
<1>1. IInv /\ [Next]_vars => IInv'
    BY NextIInv
<1> QED BY InitIInv, <1>1, PTL DEF Spec
=============================================================================
