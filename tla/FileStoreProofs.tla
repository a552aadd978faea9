-------------------------- MODULE FileStoreProofs --------------------------
(***************************************************************************)
(* RecoversOwed, ReplayIsMemory and the refinement of DurableMap for any    *)
(* keys and values and any number of calls, failures and crashes, as long   *)
(* as no append fails half way.                                             *)
(***************************************************************************)
EXTENDS FileStore, SequenceTheorems, FiniteSetTheorems, WellFoundedInduction, TLAPS

Lines == Ops \union {Torn}

Whole(l) == \A i \in DOMAIN l : l[i] # Torn

-----------------------------------------------------------------------------
(* Lemma: a set of numbers has a least one.                                 *)
LEMMA Least ==
    ASSUME NEW S \in SUBSET Nat, S # {}
    PROVE  \E x \in S : \A y \in S : x <= y
<1>1. \E x \in S : \A y \in S : ~(<<y, x>> \in OpToRel(<, Nat))
    BY NatLessThanWellFounded, WFMin
<1>2. ASSUME NEW x \in Nat, NEW y \in Nat, y < x
      PROVE  <<y, x>> \in OpToRel(<, Nat)
    BY <1>2 DEF OpToRel
<1>3. \E x \in S : \A y \in S : ~(y < x)
    BY <1>1, <1>2, Zenon
<1> QED BY <1>3

(* Lemma: Last is the greatest number of a bounded set.                     *)
LEMMA LastIs ==
    ASSUME NEW N \in Nat, NEW S \in SUBSET (0..N), S # {}
    PROVE  Last(S) \in S /\ \A j \in S : j <= Last(S)
<1> DEFINE T == {n \in Nat : N - n \in S}
<1>1. PICK m \in S : TRUE
    OBVIOUS
<1>2. N - m \in T
    BY <1>1
<1>3. T \in SUBSET Nat /\ T # {}
    BY <1>2
<1>4. PICK x \in T : \A y \in T : x <= y
    BY <1>3, Least
<1>5. N - x \in S /\ \A j \in S : j <= N - x
    <2> SUFFICES ASSUME NEW j \in S PROVE j <= N - x
        BY <1>4
    <2>1. N - j \in T /\ j \in Nat
        OBVIOUS
    <2>2. x <= N - j /\ x \in Nat
        BY <1>4, <2>1
    <2> QED BY <2>1, <2>2
<1> QED BY <1>5 DEF Last

(* Lemma: there is no other greatest number.                                *)
LEMMA LastUnique ==
    ASSUME NEW N \in Nat, NEW S \in SUBSET (0..N), NEW i \in S, \A j \in S : j <= i
    PROVE  Last(S) = i
<1>0. S # {}
    OBVIOUS
<1>1. Last(S) \in S /\ \A j \in S : j <= Last(S)
    BY <1>0, LastIs
<1>2. \A j \in S : j \in Nat
    OBVIOUS
<1>3. Last(S) <= i /\ i <= Last(S) /\ Last(S) \in Nat /\ i \in Nat
    BY <1>1, <1>2
<1> QED BY <1>3

-----------------------------------------------------------------------------
(* Lemma: the lines that replay reads.                                      *)
LEMMA IntactType ==
    ASSUME NEW l \in Seq(Lines)
    PROVE  /\ Len(l) \in Nat /\ DOMAIN l = 1..Len(l)
           /\ Intact(l) \subseteq 1..Len(l)
           /\ \A i \in Intact(l) : l[i] \in Ops
           /\ Whole(l) => Intact(l) = 1..Len(l)
<1>1. Len(l) \in Nat /\ DOMAIN l = 1..Len(l) /\ \A i \in 1..Len(l) : l[i] \in Lines
    BY LenProperties, ElementOfSeq
<1>2. \A i \in Intact(l) : i \in 1..i /\ i \in 1..Len(l)
    BY <1>1 DEF Intact
<1>3. \A i \in Intact(l) : l[i] \in Ops
    BY <1>1, <1>2 DEF Intact, Lines
<1>4. Whole(l) => Intact(l) = 1..Len(l)
    BY <1>1 DEF Whole, Intact
<1> QED BY <1>1, <1>2, <1>3, <1>4

(* Lemma: what replay finds under a key: the snapshot's value if no line is *)
(* about it, and otherwise the same whatever the snapshot (replayLog).      *)
LEMMA ReplayedAt ==
    ASSUME NEW l \in Seq(Lines), NEW k \in Keys
    PROVE  \/ \A s : Replayed(s, l)[k] = s[k]
           \/ \E v \in Held : \A s : Replayed(s, l)[k] = v
<1> DEFINE mine == {i \in Intact(l) : l[i][1] = k}
<1>1. \A s : Replayed(s, l)[k] = IF mine = {} THEN s[k] ELSE l[Last(mine)][2]
    BY DEF Replayed
<1>2. CASE mine = {}
    BY <1>1, <1>2
<1>3. CASE mine # {}
    <2>1. mine \in SUBSET (0..Len(l)) /\ Len(l) \in Nat
        BY IntactType
    <2>2. Last(mine) \in mine
        BY <1>3, <2>1, LastIs
    <2>3. l[Last(mine)] \in Ops
        BY <2>2, IntactType
    <2>4. l[Last(mine)][2] \in Held
        BY <2>3 DEF Ops
    <2> QED BY <1>1, <1>3, <2>4
<1> QED BY <1>2, <1>3

(* Lemma: replay makes a map.                                               *)
LEMMA ReplayedType ==
    ASSUME NEW l \in Seq(Lines), NEW s \in Maps
    PROVE  Replayed(s, l) \in Maps
<1>1. \A k \in Keys : Replayed(s, l)[k] \in Held
    <2> TAKE k \in Keys
    <2>1. s[k] \in Held
        BY DEF Maps
    <2> QED BY <2>1, ReplayedAt
<1> DEFINE R(k) == Replayed(s, l)[k]
<1>2. Replayed(s, l) = [k \in Keys |-> R(k)]
    BY DEF Replayed
<1> HIDE DEF R
<1>3. \A k \in Keys : R(k) \in Held
    BY <1>1 DEF R
<1> QED BY <1>2, <1>3 DEF Maps

(* Lemma: logs with the same intact lines replay to the same map.           *)
LEMMA ReplayedSame ==
    ASSUME NEW l \in Seq(Lines), NEW m, Intact(l) = Intact(m),
           \A i \in Intact(l) : l[i] = m[i], NEW s
    PROVE  Replayed(s, l) = Replayed(s, m)
<1> DEFINE mine(k) == {i \in Intact(l) : l[i][1] = k}
<1>0. ASSUME NEW k \in Keys, mine(k) # {} PROVE Last(mine(k)) \in Intact(l)
    <2>1. mine(k) \in SUBSET (0..Len(l)) /\ Len(l) \in Nat
        BY IntactType
    <2>2. Last(mine(k)) \in mine(k)
        BY <1>0, <2>1, LastIs
    <2> QED BY <2>2
<1>1. ASSUME NEW k \in Keys
      PROVE  {i \in Intact(l) : l[i][1] = k} = {i \in Intact(m) : m[i][1] = k}
    OBVIOUS
<1>2. ASSUME NEW k \in Keys
      PROVE  Last({i \in Intact(l) : l[i][1] = k}) = Last({i \in Intact(m) : m[i][1] = k})
    BY <1>1, Zenon
<1> QED BY <1>0, <1>1, <1>2 DEF Replayed

(* Lemma: replay stops at a torn line.                                      *)
LEMMA ReplayedTorn ==
    ASSUME NEW l \in Seq(Lines), NEW s
    PROVE  Replayed(s, Append(l, Torn)) = Replayed(s, l)
<1> DEFINE m == Append(l, Torn)
<1>1. /\ Len(m) = Len(l) + 1 /\ m[Len(l) + 1] = Torn
      /\ \A i \in 1..Len(l) : m[i] = l[i]
    BY AppendProperties DEF Lines
<1>2. m \in Seq(Lines)
    BY AppendProperties DEF Lines
<1>3. Len(l) \in Nat /\ DOMAIN l = 1..Len(l) /\ DOMAIN m = 1..(Len(l) + 1)
    BY <1>1, <1>2, LenProperties
<1> HIDE DEF m
<1>4. Intact(m) = Intact(l)
    <2>1. ASSUME NEW i \in Intact(m) PROVE i \in Intact(l)
        <3>1. i \in 1..(Len(l) + 1) /\ i \in 1..i /\ m[i] # Torn
            BY <1>3 DEF Intact
        <3>2. i \in 1..Len(l)
            BY <1>1, <1>3, <3>1
        <3> QED BY <1>1, <1>3, <3>2 DEF Intact
    <2>2. ASSUME NEW i \in Intact(l) PROVE i \in Intact(m)
        BY <1>1, <1>3 DEF Intact
    <2> QED BY <2>1, <2>2
<1>5. \A i \in Intact(l) : l[i] = m[i]
    BY <1>1, <1>3 DEF Intact
<1>6. Replayed(s, l) = Replayed(s, m)
    BY <1>4, <1>5, ReplayedSame, Zenon
<1> QED BY <1>6 DEF m

(* Lemma: a line that is written is what replay finds under its key.        *)
LEMMA ReplayedAppend ==
    ASSUME NEW l \in Seq(Lines), Whole(l), NEW o \in Ops, NEW s, NEW k \in Keys
    PROVE  Replayed(s, Append(l, o))[k] = IF k = o[1] THEN o[2] ELSE Replayed(s, l)[k]
<1> DEFINE m == Append(l, o)
           old == {i \in Intact(l) : l[i][1] = k}
           new == {i \in Intact(m) : m[i][1] = k}
<1>0. PICK N \in Nat : N = Len(l)
    BY LenProperties
<1>1. /\ m \in Seq(Lines) /\ Len(m) = N + 1 /\ m[N + 1] = o
      /\ \A i \in 1..N : m[i] = l[i]
    BY <1>0, AppendProperties DEF Lines
<1>2. DOMAIN l = 1..N /\ DOMAIN m = 1..(N + 1)
    BY <1>0, <1>1, LenProperties
<1>3. Whole(m)
    <2>1. o # Torn
        BY ShapesAssumption
    <2> QED BY <1>1, <1>2, <2>1 DEF Whole
<1>4. Intact(l) = 1..N /\ Intact(m) = 1..(N + 1)
    BY <1>0, <1>1, <1>2, <1>3, IntactType
<1>5. Replayed(s, m)[k] = IF new = {} THEN s[k] ELSE m[Last(new)][2]
    BY DEF Replayed
<1>6. Replayed(s, l)[k] = IF old = {} THEN s[k] ELSE l[Last(old)][2]
    BY DEF Replayed
<1>7. /\ new \in SUBSET (0..(N + 1)) /\ old \in SUBSET (0..N) /\ N + 1 \in Nat
      /\ \A i : i \in new <=> i \in 1..(N + 1) /\ m[i][1] = k
      /\ \A i : i \in old <=> i \in 1..N /\ l[i][1] = k
    <2>1. \A i : i \in new <=> i \in 1..(N + 1) /\ m[i][1] = k
        BY <1>4, Zenon
    <2>2. \A i : i \in old <=> i \in 1..N /\ l[i][1] = k
        BY <1>4, Zenon
    <2> HIDE DEF new, old, m
    <2> QED BY <2>1, <2>2
<1> HIDE DEF new, old, m
<1>8. CASE k = o[1]
    <2>1. N + 1 \in new /\ \A j \in new : j <= N + 1
        BY <1>1, <1>7, <1>8
    <2>2. Last(new) = N + 1
        BY <1>7, <2>1, LastUnique
    <2>3. Replayed(s, m)[k] = o[2]
        BY <1>1, <1>5, <2>1, <2>2
    <2> QED BY <1>8, <2>3 DEF m
<1>9. CASE k # o[1]
    <2>1. \A i \in 1..(N + 1) : i \in 1..N \/ i = N + 1
        OBVIOUS
    <2>a. ASSUME NEW i PROVE i \in new <=> i \in old
        <3>1. CASE i \in 1..N
            <4>1. i \in 1..(N + 1) /\ m[i] = l[i]
                BY <1>1, <3>1
            <4> QED BY <1>7, <3>1, <4>1, Zenon
        <3>2. CASE i \notin 1..N
            <4>1. i \in new => m[i] = o
                BY <1>1, <1>7, <2>1, <3>2
            <4> QED BY <1>7, <1>9, <3>2, <4>1
        <3> QED BY <3>1, <3>2
    <2>2. new = old
        BY <2>a, Zenon
    <2>3. Replayed(s, m)[k] = Replayed(s, l)[k]
        <3>1. CASE old = {}
            BY <1>5, <1>6, <2>2, <3>1
        <3>2. CASE old # {}
            <4>1. Last(old) \in old
                BY <1>7, <3>2, LastIs
            <4>2. m[Last(old)] = l[Last(old)]
                BY <1>1, <1>7, <4>1
            <4> QED BY <1>5, <1>6, <2>2, <3>2, <4>2, Zenon
        <3> QED BY <3>1, <3>2
    <2> QED BY <1>9, <2>3 DEF m
<1> QED BY <1>8, <1>9

(* Lemma: when only the last line can be torn, the intact ones are those    *)
(* before it.                                                               *)
LEMMA IntactPrefix ==
    ASSUME NEW N \in Nat, NEW l, DOMAIN l = 1..N, \A i \in 1..N : l[i] = Torn => i = N
    PROVE  \E n \in 0..N : Intact(l) = 1..n
<1>1. CASE N > 0 /\ l[N] = Torn
    <2>1. \A i \in 1..N : N \in 1..i => i = N
        OBVIOUS
    <2>2. \A i \in 1..(N - 1) : \A j \in 1..i : j \in 1..N /\ j # N
        OBVIOUS
    <2>3. Intact(l) = 1..(N - 1)
        BY <1>1, <2>1, <2>2 DEF Intact
    <2> QED BY <1>1, <2>3
<1>2. CASE ~(N > 0 /\ l[N] = Torn)
    <2>1. \A i \in 1..N : \A j \in 1..i : j \in 1..N /\ l[j] # Torn
        BY <1>2
    <2>2. Intact(l) = 1..N
        BY <2>1 DEF Intact
    <2> QED BY <2>2
<1> QED BY <1>1, <1>2

(* Lemma: what replayLog leaves in the file, with the torn end cut off,     *)
(* replays to the same map.                                                 *)
LEMMA ReplayedCut ==
    ASSUME NEW l \in Seq(Lines), \A i \in DOMAIN l : l[i] = Torn => i = Len(l)
    PROVE  LET n == Cardinality(Intact(l)) IN
           /\ n \in 0..Len(l)
           /\ Whole(SubSeq(l, 1, n))
           /\ \A s : Replayed(s, SubSeq(l, 1, n)) = Replayed(s, l)
<1>1. Len(l) \in Nat /\ DOMAIN l = 1..Len(l) /\ \A i \in 1..Len(l) : l[i] \in Lines
    BY LenProperties, ElementOfSeq
<1>2. PICK n \in 0..Len(l) : Intact(l) = 1..n
    BY <1>1, IntactPrefix
<1>3. Cardinality(1..n) = n
    BY <1>1, FS_Interval
<1>4. Cardinality(Intact(l)) = n
    BY <1>2, <1>3, Zenon
<1> DEFINE m == SubSeq(l, 1, n)
<1>5. /\ m \in Seq(Lines) /\ Len(m) = n /\ \A i \in 1..n : m[i] = l[i]
    BY <1>1, SubSeqProperties
<1>6. DOMAIN m = 1..n
    BY <1>5, LenProperties
<1> HIDE DEF m
<1>7. Whole(m)
    <2>1. \A i \in Intact(l) : i \in 1..i /\ l[i] # Torn
        BY <1>1 DEF Intact
    <2> QED BY <1>2, <1>5, <1>6, <2>1 DEF Whole
<1>8. Intact(m) = Intact(l)
    BY <1>2, <1>5, <1>7, IntactType
<1>9. \A s : Replayed(s, m) = Replayed(s, l)
    <2>1. \A i \in Intact(m) : m[i] = l[i]
        BY <1>2, <1>5, <1>8
    <2> QED BY <1>5, <1>8, <2>1, ReplayedSame, Zenon
<1> QED BY <1>1, <1>4, <1>7, <1>9 DEF m

-----------------------------------------------------------------------------
(* Lemma: the first lines of a log.                                         *)
LEMMA FirstLines ==
    ASSUME NEW l \in Seq(Lines), NEW n \in 0..Len(l)
    PROVE  /\ SubSeq(l, 1, n) \in Seq(Lines) /\ Len(SubSeq(l, 1, n)) = n
           /\ \A i \in 1..n : SubSeq(l, 1, n)[i] = l[i]
<1>1. Len(l) \in Nat /\ \A i \in 1..Len(l) : l[i] \in Lines
    BY LenProperties, ElementOfSeq
<1>2. n \in Int /\ \A i \in 1..n : l[i] \in Lines
    BY <1>1
<1> DEFINE p == SubSeq(l, 1, n)
<1>3. p \in Seq(Lines) /\ Len(p) = (IF 1 <= n THEN n - 1 + 1 ELSE 0)
      /\ \A i \in 1..(n - 1 + 1) : p[i] = l[1 + i - 1]
    BY <1>2, SubSeqProperties
<1> HIDE DEF p
<1>4. p \in Seq(Lines) /\ Len(p) = n /\ \A i \in 1..n : p[i] = l[i]
    BY <1>1, <1>3
<1> QED BY <1>4 DEF p

(* Lemma: all its lines are the log.                                        *)
LEMMA AllLines ==
    ASSUME NEW l \in Seq(Lines)
    PROVE  SubSeq(l, 1, Len(l)) = l
<1>1. Len(l) \in 0..Len(l)
    BY LenProperties
<1>2. SubSeq(l, 1, Len(l)) \in Seq(Lines) /\ Len(SubSeq(l, 1, Len(l))) = Len(l)
      /\ \A i \in 1..Len(l) : SubSeq(l, 1, Len(l))[i] = l[i]
    BY <1>1, FirstLines
<1> QED BY <1>2, SeqEqual

(* Lemma: logs have their first n lines in common, line by line.            *)
LEMMA SameFirst ==
    ASSUME NEW l \in Seq(Lines), NEW m \in Seq(Lines), NEW n \in 0..Len(l), n <= Len(m)
    PROVE  SubSeq(l, 1, n) = SubSeq(m, 1, n) <=> \A i \in 1..n : l[i] = m[i]
<1> DEFINE p == SubSeq(l, 1, n)
           q == SubSeq(m, 1, n)
<1>1. p \in Seq(Lines) /\ Len(p) = n /\ \A i \in 1..n : p[i] = l[i]
    BY FirstLines
<1>2. n \in 0..Len(m)
    BY LenProperties
<1>3. q \in Seq(Lines) /\ Len(q) = n /\ \A i \in 1..n : q[i] = m[i]
    BY <1>2, FirstLines
<1> HIDE DEF p, q
<1>4. p = q => \A i \in 1..n : l[i] = m[i]
    BY <1>1, <1>3
<1>5. (\A i \in 1..n : l[i] = m[i]) => p = q
    <2> SUFFICES ASSUME \A i \in 1..n : l[i] = m[i] PROVE p = q
        OBVIOUS
    <2>1. Len(p) = Len(q) /\ \A i \in 1..Len(p) : p[i] = q[i]
        BY <1>1, <1>3
    <2> QED BY <1>1, <1>3, <2>1, SeqEqual
<1> QED BY <1>4, <1>5 DEF p, q

(* Lemma: Common is the length of the longest common beginning.             *)
LEMMA CommonIs ==
    ASSUME NEW l \in Seq(Lines), NEW m \in Seq(Lines)
    PROVE  /\ Common(l, m) \in 0..Len(l) /\ Common(l, m) <= Len(m)
           /\ \A i \in 1..Common(l, m) : l[i] = m[i]
           /\ \A n \in 0..Len(l) :
                n <= Len(m) /\ (\A i \in 1..n : l[i] = m[i]) => n <= Common(l, m)
<1> DEFINE S == {n \in 0..Len(l) : n <= Len(m) /\ SubSeq(l, 1, n) = SubSeq(m, 1, n)}
<1>1. Len(l) \in Nat /\ Len(m) \in Nat
    BY LenProperties
<1>2. \A n \in 0..Len(l) :
        n \in S <=> n <= Len(m) /\ \A i \in 1..n : l[i] = m[i]
    BY SameFirst
<1>3. S \in SUBSET (0..Len(l)) /\ Common(l, m) = Last(S)
    BY DEF Common
<1> HIDE DEF S
<1>4. 0 \in S
    BY <1>1, <1>2
<1>5. Last(S) \in S /\ \A j \in S : j <= Last(S)
    BY <1>1, <1>3, <1>4, LastIs
<1> QED BY <1>2, <1>3, <1>5

(* Lemma: what is in the files may be found after a crash.                  *)
LEMMA ImagesHold ==
    ASSUME NEW l \in Seq(Lines), NEW m \in Seq(Lines)
    PROVE  /\ l \in ImagesOf(l, m) /\ m \in ImagesOf(l, m)
           /\ \A n \in Common(l, m)..Len(l) : SubSeq(l, 1, n) \in ImagesOf(l, m)
           /\ ImagesOf(l, m) \subseteq Seq(Lines)
<1>1. Common(l, m) \in 0..Len(l) /\ Len(l) \in Nat
    BY CommonIs, LenProperties
<1>2. SubSeq(l, 1, Len(l)) = l
    BY AllLines
<1>3. Len(l) \in Common(l, m)..Len(l)
    BY <1>1
<1>4. \A n \in Common(l, m)..Len(l) : SubSeq(l, 1, n) \in ImagesOf(l, m)
    BY DEF ImagesOf
<1>5. l \in ImagesOf(l, m) /\ m \in ImagesOf(l, m)
    <2>1. SubSeq(l, 1, Len(l)) \in ImagesOf(l, m)
        BY <1>3, <1>4
    <2>2. m \in ImagesOf(l, m)
        BY DEF ImagesOf
    <2> QED BY <1>2, <2>1, <2>2, Zenon
<1>6. ASSUME NEW x \in ImagesOf(l, m) PROVE x \in Seq(Lines)
    <2>1. \A n \in Common(l, m)..Len(l) : n \in 0..Len(l) /\ SubSeq(l, 1, n) \in Seq(Lines)
        BY <1>1, FirstLines
    <2>2. \A n \in Common(l, m)..(Len(l) - 1) : n \in Common(l, m)..Len(l)
        BY <1>1
    <2>3. \A y \in Seq(Lines) : Append(y, Torn) \in Seq(Lines)
        BY AppendProperties DEF Lines
    <2>4. \/ \E n \in Common(l, m)..Len(l) : x = SubSeq(l, 1, n)
          \/ \E n \in Common(l, m)..(Len(l) - 1) : x = Append(SubSeq(l, 1, n), Torn)
          \/ x = m
        BY DEF ImagesOf
    <2> QED BY <2>1, <2>2, <2>3, <2>4, Zenon
<1> QED BY <1>4, <1>5, <1>6

(* Lemma: nothing but the log itself is left of a log that was fsynced.     *)
LEMMA ImagesSynced ==
    ASSUME NEW l \in Seq(Lines)
    PROVE  ImagesOf(l, l) = {l}
<1>1. Len(l) \in Nat
    BY LenProperties
<1>2. Common(l, l) = Len(l)
    <2>1. Common(l, l) \in 0..Len(l) /\ Len(l) <= Common(l, l)
        BY <1>1, CommonIs
    <2> QED BY <1>1, <2>1
<1>3. \A n \in Common(l, l)..Len(l) : n = Len(l)
    BY <1>1, <1>2
<1>4. Common(l, l)..(Len(l) - 1) = {}
    BY <1>1, <1>2
<1>5. SubSeq(l, 1, Len(l)) = l
    BY AllLines
<1>6. l \in ImagesOf(l, l)
    BY ImagesHold
<1>7. ASSUME NEW x \in ImagesOf(l, l) PROVE x = l
    <2>1. \/ \E n \in Common(l, l)..Len(l) : x = SubSeq(l, 1, n)
          \/ \E n \in Common(l, l)..(Len(l) - 1) : x = Append(SubSeq(l, 1, n), Torn)
          \/ x = l
        BY DEF ImagesOf
    <2> QED BY <1>3, <1>4, <1>5, <2>1, Zenon
<1> QED BY <1>6, <1>7

(* Lemma: the images of a log that differs from l after its first c lines,  *)
(* whether it lacks them or goes on, are that log and images of l, torn or  *)
(* not.                                                                     *)
LEMMA ImagesChange ==
    ASSUME NEW l \in Seq(Lines), NEW m \in Seq(Lines), NEW synced \in Seq(Lines),
           Len(m) <= Len(l) + 1,
           \A i \in 1..Len(m) : i <= Len(l) => m[i] = l[i],
           NEW x \in ImagesOf(m, synced)
    PROVE  x = m \/ \E y \in ImagesOf(l, synced) : x = y \/ x = Append(y, Torn)
<1> DEFINE c == Common(l, synced)
           d == Common(m, synced)
<1>1. Len(l) \in Nat /\ Len(m) \in Nat /\ Len(synced) \in Nat
    BY LenProperties
<1>2. /\ c \in 0..Len(l) /\ c <= Len(synced) /\ \A i \in 1..c : l[i] = synced[i]
      /\ d \in 0..Len(m)
      /\ \A n \in 0..Len(m) :
           n <= Len(synced) /\ (\A i \in 1..n : m[i] = synced[i]) => n <= d
    BY CommonIs
<1> HIDE DEF c, d
<1>3. ASSUME NEW n \in d..Len(m), n < Len(m)
      PROVE  n \in c..Len(l) /\ SubSeq(m, 1, n) = SubSeq(l, 1, n)
    <2>1. n \in Nat /\ n <= Len(l)
        BY <1>1, <1>2, <1>3
    <2>2. c <= n
        <3>1. CASE c <= Len(m)
            <4>1. c \in 0..Len(m) /\ \A i \in 1..c : i \in 1..Len(m) /\ i <= Len(l)
                BY <1>1, <1>2, <3>1
            <4>2. \A i \in 1..c : m[i] = synced[i]
                BY <1>2, <4>1
            <4>3. c <= d
                BY <1>2, <4>1, <4>2
            <4> QED BY <1>1, <1>2, <1>3, <2>1, <4>3
        <3>2. CASE c > Len(m)
            <4>1. Len(m) <= Len(synced) /\ \A i \in 1..Len(m) : i \in 1..c /\ i <= Len(l)
                BY <1>1, <1>2, <3>2
            <4>2. \A i \in 1..Len(m) : m[i] = synced[i]
                BY <1>2, <4>1
            <4>3. Len(m) <= d
                BY <1>1, <1>2, <4>1, <4>2
            <4> QED BY <1>1, <1>2, <1>3, <4>3
        <3> QED BY <1>1, <1>2, <3>1, <3>2
    <2>3. n \in 0..Len(m) /\ \A i \in 1..n : i \in 1..Len(m) /\ i <= Len(l)
        BY <1>1, <1>3, <2>1
    <2>4. SubSeq(m, 1, n) = SubSeq(l, 1, n)
        BY <2>1, <2>3, SameFirst
    <2> QED BY <1>1, <1>2, <2>1, <2>2, <2>4
<1>4. \A n \in c..Len(l) : SubSeq(l, 1, n) \in ImagesOf(l, synced)
    BY ImagesHold DEF c
<1>5. SubSeq(m, 1, Len(m)) = m
    BY AllLines
<1>6. \/ \E n \in d..Len(m) : x = SubSeq(m, 1, n)
      \/ \E n \in d..(Len(m) - 1) : x = Append(SubSeq(m, 1, n), Torn)
      \/ x = synced
    BY DEF ImagesOf, d
<1>7. CASE \E n \in d..Len(m) : x = SubSeq(m, 1, n)
    <2>1. PICK n \in d..Len(m) : x = SubSeq(m, 1, n)
        BY <1>7
    <2>2. n < Len(m) \/ n = Len(m)
        BY <1>1, <1>2
    <2> QED BY <1>3, <1>4, <1>5, <2>1, <2>2, Zenon
<1>8. CASE \E n \in d..(Len(m) - 1) : x = Append(SubSeq(m, 1, n), Torn)
    <2>1. PICK n \in d..(Len(m) - 1) : x = Append(SubSeq(m, 1, n), Torn)
        BY <1>8
    <2>2. n \in d..Len(m) /\ n < Len(m)
        BY <1>1, <1>2
    <2> QED BY <1>3, <1>4, <2>1, <2>2, Zenon
<1>9. CASE x = synced
    BY <1>9, ImagesHold
<1> QED BY <1>6, <1>7, <1>8, <1>9

(* Lemma: a crash tears at most the last line of what it leaves.            *)
LEMMA ImagesTorn ==
    ASSUME NEW l \in Seq(Lines), NEW m \in Seq(Lines),
           \A i \in DOMAIN l : l[i] = Torn => i = Len(l),
           \A i \in DOMAIN m : m[i] = Torn => i = Len(m),
           NEW x \in ImagesOf(l, m), NEW i \in DOMAIN x, x[i] = Torn
    PROVE  i = Len(x)
<1>1. Len(l) \in Nat /\ DOMAIN l = 1..Len(l) /\ Common(l, m) \in 0..Len(l)
    BY LenProperties, CommonIs
<1>2. ASSUME NEW n \in 0..Len(l), NEW j \in 1..n, l[j] = Torn
      PROVE  j = n
    BY <1>1, <1>2
<1>3. \A n \in 0..Len(l) : SubSeq(l, 1, n) \in Seq(Lines) /\ Len(SubSeq(l, 1, n)) = n
                           /\ \A j \in 1..n : SubSeq(l, 1, n)[j] = l[j]
    BY FirstLines
<1>4. \/ \E n \in Common(l, m)..Len(l) : x = SubSeq(l, 1, n)
      \/ \E n \in Common(l, m)..(Len(l) - 1) : x = Append(SubSeq(l, 1, n), Torn)
      \/ x = m
    BY DEF ImagesOf
<1>5. CASE \E n \in Common(l, m)..Len(l) : x = SubSeq(l, 1, n)
    <2>1. PICK n \in Common(l, m)..Len(l) : x = SubSeq(l, 1, n)
        BY <1>5
    <2>2. n \in 0..Len(l)
        BY <1>1
    <2>3. x \in Seq(Lines) /\ Len(x) = n /\ \A j \in 1..n : x[j] = l[j]
        BY <1>3, <2>1, <2>2
    <2>4. i \in 1..n
        BY <2>3, LenProperties
    <2> QED BY <1>2, <2>2, <2>3, <2>4
<1>6. CASE \E n \in Common(l, m)..(Len(l) - 1) : x = Append(SubSeq(l, 1, n), Torn)
    <2>1. PICK n \in Common(l, m)..(Len(l) - 1) : x = Append(SubSeq(l, 1, n), Torn)
        BY <1>6
    <2>2. n \in 0..Len(l) /\ n < Len(l)
        BY <1>1
    <2> DEFINE y == SubSeq(l, 1, n)
    <2>3. y \in Seq(Lines) /\ Len(y) = n /\ \A j \in 1..n : y[j] = l[j]
        BY <1>3, <2>2
    <2> HIDE DEF y
    <2>4. x \in Seq(Lines) /\ Len(x) = n + 1 /\ \A j \in 1..n : x[j] = y[j]
        BY <2>1, <2>3, AppendProperties DEF y, Lines
    <2>5. i \in 1..(n + 1)
        BY <2>4, LenProperties
    <2>6. i \notin 1..n
        <3> SUFFICES ASSUME i \in 1..n PROVE FALSE
            OBVIOUS
        <3>1. l[i] = Torn /\ i \in 1..Len(l)
            BY <1>1, <2>2, <2>3, <2>4
        <3> QED BY <1>1, <2>2, <3>1
    <2> QED BY <2>2, <2>4, <2>5, <2>6
<1>7. CASE x = m
    BY <1>7
<1> QED BY <1>4, <1>5, <1>6, <1>7

-----------------------------------------------------------------------------
(* Lemma: the op a call logs next is one of those it has to log.            *)
LEMMA CurrentIs ==
    ASSUME TypeOK, todo # {}
    PROVE  Current \in todo /\ Current \in Ops /\ Current[1] \in Keys /\ Current[2] \in Held
<1> DEFINE S == {o[1] : o \in todo}
<1>1. \A o \in todo : o \in Ops /\ o[1] \in Keys /\ o[2] \in Held
    BY DEF TypeOK, Ops
<1>2. S \in SUBSET Nat /\ S # {}
    BY <1>1, KeysAssumption
<1>3. PICK x \in S : \A y \in S : x <= y
    BY <1>2, Least
<1>4. PICK o \in todo : o[1] = x
    BY <1>3
<1>5. \A p \in todo : o[1] <= p[1]
    BY <1>3, <1>4
<1>6. Current \in todo
    BY <1>5 DEF Current
<1> QED BY <1>1, <1>6

(* Lemma: the file operations of compact, in order.                         *)
LEMMA StepsAre ==
    /\ DOMAIN Steps = {"snapshot", "rename", "syncdir", "truncate", "fsynclog"}
    /\ Steps["snapshot"] = "rename" /\ Steps["rename"] = "syncdir"
    /\ Steps["syncdir"] = "truncate" /\ Steps["truncate"] = "fsynclog"
    /\ Steps["fsynclog"] = "idle"
    BY DEF Steps

(* Lemma: a step that touches neither the files nor memory nor what is      *)
(* owed, and neither opens a store nor leaves one about to fsync or apply.  *)
LEMMA QuietIInv ==
    ASSUME IInv, UNCHANGED <<data, log, stable, snap, snaps, owed>>,
           ops' \in Nat, todo' \subseteq Ops,
           pc # "down", pc # "apply", pc' \in {"idle", "write", "snapshot", "rename"},
           pc' = "write" => todo' # {}
    PROVE  IInv'
<1>1. TypeOK'
    BY StepsAre DEF IInv, TypeOK
<1>2. Working' /\ LineLast' /\ SnapshotFirst'
    BY DEF IInv, Working, LineLast, SnapshotFirst
<1>3. MemoryOwed'
    BY DEF IInv, MemoryOwed
<1>4. TornLast'
    BY DEF IInv, TornLast
<1>5. RecoversOwed' /\ \A k \in Keys : IsFiniteSet(owed'[k])
    BY DEF IInv, RecoversOwed, Images
<1> QED BY <1>1, <1>2, <1>3, <1>4, <1>5 DEF IInv

(* Lemma: the calls, and the failures that leave the files alone.           *)
LEMMA CallsIInv ==
    ASSUME IInv, "torn" \notin Faults,
           \/ \E k \in Keys : Delete(k) \/ \E v \in Values : Put(k, v)
           \/ \E dead \in SUBSET Keys : Sweep(dead)
           \/ Compact \/ WriteTemp \/ WriteFails \/ FsyncFails \/ CompactFails
    PROVE  IInv'
<1>0. ops \in Nat /\ todo \subseteq Ops
    BY DEF IInv, TypeOK
<1>a. AfterOps(ops) \in {"idle", "snapshot"}
    BY DEF AfterOps
<1>o. \A k \in Keys, v \in Held : <<k, v>> \in Ops
    BY DEF Ops
<1>1. ASSUME NEW k \in Keys, NEW v \in Values, Put(k, v) PROVE IInv'
    <2>1. todo' = {<<k, v>>} /\ <<k, v>> \in Ops
        BY <1>1, <1>o DEF Put, Held
    <2> QED BY <1>0, <1>1, <2>1, QuietIInv DEF Put, Call, diskVars
<1>2. ASSUME NEW k \in Keys, Delete(k) PROVE IInv'
    <2>1. <<k, None>> \in Ops
        BY <1>o DEF Held
    <2>2. todo' \subseteq Ops /\ pc' \in {"idle", "write"} /\ (pc' = "write" => todo' # {})
        BY <1>0, <1>2, <2>1 DEF Delete, Call
    <2> QED BY <1>0, <1>2, <2>2, QuietIInv DEF Delete, Call, diskVars
<1>3. ASSUME NEW dead \in SUBSET Keys, Sweep(dead) PROVE IInv'
    <2>1. todo' \subseteq Ops
        BY <1>3, <1>o DEF Sweep, Held
    <2>2. pc' \in {"idle", "write", "snapshot"} /\ (pc' = "write" => todo' # {})
        BY <1>3, <1>a DEF Sweep
    <2> QED BY <1>0, <1>3, <2>1, <2>2, QuietIInv DEF Sweep, Call, diskVars
<1>4. CASE Compact
    BY <1>0, <1>4, QuietIInv DEF Compact, Call, diskVars
<1>5. CASE WriteTemp
    BY <1>0, <1>5, QuietIInv, StepsAre DEF WriteTemp, diskVars
<1>6. CASE WriteFails
    BY <1>0, <1>6, QuietIInv DEF WriteFails
<1>7. CASE FsyncFails
    BY <1>0, <1>7, QuietIInv DEF FsyncFails, diskVars
<1>8. CASE CompactFails
    BY <1>0, <1>8, QuietIInv, StepsAre DEF CompactFails, diskVars
<1> QED BY <1>1, <1>2, <1>3, <1>4, <1>5, <1>6, <1>7, <1>8

(* Lemma: a line is added; from here on a crash may leave it or not.        *)
LEMMA WriteLineIInv ==
    ASSUME IInv, WriteLine
    PROVE  IInv'
<1> DEFINE o == Current
           k1 == Current[1]
<1>1. o \in todo /\ o \in Ops /\ k1 \in Keys /\ o[2] \in Held
    BY CurrentIs DEF IInv, Working, WriteLine
<1>2. /\ log' = Append(log, o) /\ pc' = "fsync"
      /\ owed' = [owed EXCEPT ![k1] = @ \union {o[2]}]
      /\ UNCHANGED <<data, stable, snap, snaps, ops, todo>>
    BY DEF WriteLine
<1>c. Current' = Current
    BY <1>2 DEF Current
<1>3. /\ log \in Seq(Lines) /\ stable \in Seq(Lines) /\ snaps \subseteq Maps
      /\ owed \in [Keys -> SUBSET Held]
    BY DEF IInv, TypeOK, Lines
<1>4. /\ log' \in Seq(Lines) /\ Len(log') = Len(log) + 1 /\ log' # <<>>
      /\ \A i \in 1..Len(log) : log'[i] = log[i]
      /\ log'[Len(log) + 1] = o
    BY <1>1, <1>2, <1>3, AppendProperties DEF Lines
<1>5. /\ Len(log) \in Nat /\ DOMAIN log = 1..Len(log) /\ DOMAIN log' = 1..(Len(log) + 1)
    BY <1>3, <1>4, LenProperties
<1>6. Whole(log)
    BY DEF IInv, TornLast, WriteLine, Whole
<1>7. \A k \in Keys : owed'[k] = IF k = k1 THEN owed[k] \union {o[2]} ELSE owed[k]
    BY <1>1, <1>2, <1>3
<1>8. TypeOK'
    <2>1. owed' \in [Keys -> SUBSET Held]
        BY <1>1, <1>2, <1>3
    <2> QED BY <1>2, <1>4, <2>1 DEF IInv, TypeOK, Lines
<1>9. Working' /\ SnapshotFirst'
    BY <1>1, <1>2 DEF IInv, Working, SnapshotFirst, WriteLine
<1>10. MemoryOwed'
    BY <1>2, <1>7 DEF IInv, MemoryOwed, WriteLine
<1>11. LineLast'
    <2>1. o[2] \in owed'[k1]
        BY <1>1, <1>7
    <2>2. log'[Len(log')] = o
        BY <1>4
    <2> QED BY <1>2, <1>4, <1>c, <2>1, <2>2 DEF LineLast
<1>12. TornLast'
    <2>1. o # Torn
        BY <1>1, ShapesAssumption
    <2>2. \A i \in DOMAIN log' : log'[i] # Torn
        <3> TAKE i \in DOMAIN log'
        <3>1. i \in 1..Len(log) \/ i = Len(log) + 1
            BY <1>5
        <3> QED BY <1>4, <1>5, <1>6, <2>1, <3>1 DEF Whole
    <2> QED BY <1>2, <2>2 DEF IInv, TornLast
<1>13. \A k \in Keys : IsFiniteSet(owed'[k])
    <2> TAKE k \in Keys
    <2>1. IsFiniteSet(owed[k]) /\ IsFiniteSet(owed[k] \union {o[2]})
        BY FS_AddElement DEF IInv
    <2>2. CASE k = k1
        <3>1. owed'[k] = owed[k] \union {o[2]}
            BY <1>7, <2>2
        <3> QED BY <2>1, <3>1, Zenon
    <2>3. CASE k # k1
        BY <1>7, <2>1, <2>3
    <2> QED BY <2>2, <2>3
<1>14. RecoversOwed'
    <2> SUFFICES ASSUME NEW x \in Images', NEW s \in snaps, NEW k \in Keys
                 PROVE  Replayed(s, x)[k] \in owed'[k]
        BY <1>2 DEF RecoversOwed
    <2>1. x \in ImagesOf(log', stable)
        BY <1>2 DEF Images
    <2>2. \A i \in 1..Len(log') : i <= Len(log) => log'[i] = log[i]
        BY <1>4, <1>5
    <2>3. x = log' \/ \E y \in ImagesOf(log, stable) : x = y \/ x = Append(y, Torn)
        BY <1>3, <1>4, <1>5, <2>1, <2>2, ImagesChange
    <2>4. ASSUME NEW y \in ImagesOf(log, stable)
          PROVE  Replayed(s, y)[k] \in owed'[k] /\ Replayed(s, Append(y, Torn))[k] \in owed'[k]
        <3>1. Replayed(s, y)[k] \in owed[k]
            BY DEF IInv, RecoversOwed, Images
        <3>2. y \in Seq(Lines)
            BY <1>3, ImagesHold
        <3>3. Replayed(s, Append(y, Torn)) = Replayed(s, y)
            BY <3>2, ReplayedTorn
        <3> QED BY <1>7, <3>1, <3>3
    <2>5. Replayed(s, log')[k] \in owed'[k]
        <3>1. Replayed(s, log')[k] = IF k = k1 THEN o[2] ELSE Replayed(s, log)[k]
            BY <1>1, <1>2, <1>3, <1>6, ReplayedAppend
        <3>2. Replayed(s, log)[k] \in owed'[k]
            BY <1>3, <2>4, ImagesHold
        <3> QED BY <1>7, <3>1, <3>2
    <2> QED BY <2>3, <2>4, <2>5
<1> QED BY <1>8, <1>9, <1>10, <1>11, <1>12, <1>13, <1>14 DEF IInv

(* Lemma: once the log is fsynced a crash leaves all of it.                 *)
LEMMA FsyncLineIInv ==
    ASSUME IInv, FsyncLine
    PROVE  IInv'
<1> DEFINE o == Current
           k1 == Current[1]
<1>1. o \in todo /\ o \in Ops /\ k1 \in Keys /\ o[2] \in Held
    BY CurrentIs DEF IInv, Working, FsyncLine
<1>2. /\ stable' = log /\ pc' = "apply" /\ ops' = ops + 1
      /\ owed' = [owed EXCEPT ![k1] = {o[2]}]
      /\ UNCHANGED <<data, log, snap, snaps, todo>>
    BY DEF FsyncLine, AfterFsync
<1>c. Current' = Current
    BY <1>2 DEF Current
<1>3. /\ log \in Seq(Lines) /\ stable \in Seq(Lines) /\ owed \in [Keys -> SUBSET Held]
    BY DEF IInv, TypeOK, Lines
<1>4. \A k \in Keys : owed'[k] = IF k = k1 THEN {o[2]} ELSE owed[k]
    BY <1>1, <1>2, <1>3
<1>5. TypeOK'
    <2>1. owed' \in [Keys -> SUBSET Held]
        BY <1>1, <1>2, <1>3
    <2>2. ops' \in Nat
        BY <1>2 DEF IInv, TypeOK
    <2> QED BY <1>2, <2>1, <2>2 DEF IInv, TypeOK
<1>6. Working' /\ SnapshotFirst'
    BY <1>1, <1>2 DEF IInv, Working, SnapshotFirst, FsyncLine
<1>7. MemoryOwed'
    BY <1>2, <1>4, <1>c DEF IInv, MemoryOwed, FsyncLine
<1>8. LineLast'
    BY <1>1, <1>2, <1>4, <1>c DEF LineLast
<1>9. TornLast'
    BY <1>2 DEF IInv, TornLast, FsyncLine
<1>10. \A k \in Keys : IsFiniteSet(owed'[k])
    BY <1>4, FS_Singleton DEF IInv
<1>11. RecoversOwed'
    <2> SUFFICES ASSUME NEW x \in Images', NEW s \in snaps, NEW k \in Keys
                 PROVE  Replayed(s, x)[k] \in owed'[k]
        BY <1>2 DEF RecoversOwed
    <2>1. x = log
        <3>1. x \in ImagesOf(log, log)
            BY <1>2 DEF Images
        <3> QED BY <1>3, <3>1, ImagesSynced
    <2>2. log \in Images
        BY <1>3, ImagesHold DEF Images
    <2>3. Replayed(s, log)[k] \in owed[k]
        BY <2>2 DEF IInv, RecoversOwed
    <2>4. CASE k # k1
        BY <1>4, <2>1, <2>3, <2>4
    <2>5. CASE k = k1
        <3>1. log # <<>> /\ log[Len(log)] = o
            BY DEF IInv, LineLast, FsyncLine
        <3>2. Len(log) \in Nat \ {0} /\ DOMAIN log = 1..Len(log)
            BY <1>3, <3>1, EmptySeq, LenProperties
        <3>3. Intact(log) = 1..Len(log)
            <4>1. Whole(log)
                BY DEF IInv, TornLast, FsyncLine, Whole
            <4> QED BY <1>3, <4>1, IntactType
        <3> DEFINE mine == {i \in Intact(log) : log[i][1] = k}
        <3>4. Replayed(s, log)[k] = IF mine = {} THEN s[k] ELSE log[Last(mine)][2]
            BY DEF Replayed
        <3>5. mine \in SUBSET (0..Len(log)) /\ Len(log) \in mine /\ \A j \in mine : j <= Len(log)
            BY <2>5, <3>1, <3>2, <3>3
        <3> HIDE DEF mine
        <3>6. Last(mine) = Len(log)
            BY <3>2, <3>5, LastUnique
        <3>7. Replayed(s, log)[k] = o[2]
            BY <3>1, <3>4, <3>5, <3>6
        <3> QED BY <1>4, <2>1, <2>5, <3>7
    <2> QED BY <2>4, <2>5
<1> QED BY <1>5, <1>6, <1>7, <1>8, <1>9, <1>10, <1>11 DEF IInv

(* Lemma: the op that has landed is shown.                                  *)
LEMMA ApplyIInv ==
    ASSUME IInv, Apply
    PROVE  IInv'
<1> DEFINE o == Current
           k1 == Current[1]
<1>1. o \in todo /\ o \in Ops /\ k1 \in Keys /\ o[2] \in Held
    BY CurrentIs DEF IInv, Working, Apply
<1>2. /\ data' = [data EXCEPT ![k1] = o[2]] /\ todo' = todo \ {o}
      /\ UNCHANGED <<log, stable, snap, snaps, ops, owed>>
    BY DEF Apply, diskVars
<1>3. pc' \in {"idle", "write", "snapshot"} /\ (pc' = "write" => todo' # {})
    BY DEF Apply, AfterOps
<1>4. data \in Maps /\ data # Down
    BY DEF IInv, TypeOK, Working, Apply
<1>5. data' \in Maps /\ \A k \in Keys : data'[k] = IF k = k1 THEN o[2] ELSE data[k]
    BY <1>1, <1>2, <1>4 DEF Maps
<1>6. data' # Down
    BY <1>5, ShapesAssumption
<1>7. TypeOK'
    BY <1>2, <1>3, <1>5, StepsAre DEF IInv, TypeOK
<1>8. Working' /\ LineLast' /\ SnapshotFirst'
    BY <1>2, <1>3, <1>6 DEF IInv, Working, LineLast, SnapshotFirst
<1>9. MemoryOwed'
    BY <1>2, <1>3, <1>4, <1>5 DEF IInv, MemoryOwed, LineLast, Apply
<1>10. TornLast'
    BY <1>2, <1>3 DEF IInv, TornLast, Apply
<1>11. RecoversOwed' /\ \A k \in Keys : IsFiniteSet(owed'[k])
    BY <1>2 DEF IInv, RecoversOwed, Images
<1> QED BY <1>7, <1>8, <1>9, <1>10, <1>11 DEF IInv

(* Lemma: the snapshot takes its place; the log replays onto it as it did   *)
(* onto the one before.                                                     *)
LEMMA RenameIInv ==
    ASSUME IInv, Rename
    PROVE  IInv'
<1>1. /\ snap' = data /\ snaps' = snaps \union {data} /\ pc' = "syncdir"
      /\ UNCHANGED <<data, log, stable, ops, todo, owed>>
    BY StepsAre DEF Rename
<1>2. data \in Maps /\ data # Down
    BY DEF IInv, TypeOK, Working, Rename
<1>3. TypeOK'
    BY <1>1, <1>2, StepsAre DEF IInv, TypeOK
<1>4. Working' /\ LineLast' /\ SnapshotFirst' /\ TornLast'
    BY <1>1, <1>2 DEF IInv, Working, LineLast, SnapshotFirst, TornLast, Rename
<1>5. MemoryOwed' /\ \A k \in Keys : data[k] \in owed[k]
    BY <1>1, <1>2 DEF IInv, MemoryOwed, Rename
<1>6. RecoversOwed'
    <2> SUFFICES ASSUME NEW x \in Images, NEW s \in snaps \union {data}, NEW k \in Keys
                 PROVE  Replayed(s, x)[k] \in owed[k]
        BY <1>1 DEF RecoversOwed, Images
    <2>1. log \in Seq(Lines) /\ stable \in Seq(Lines)
        BY DEF IInv, TypeOK, Lines
    <2>2. x \in Seq(Lines)
        BY <2>1, ImagesHold DEF Images
    <2>3. snap \in snaps /\ Replayed(snap, x)[k] \in owed[k]
        BY DEF IInv, SnapshotFirst, RecoversOwed
    <2>4. CASE s \in snaps
        BY <2>4 DEF IInv, RecoversOwed
    <2>5. CASE s = data
        BY <1>5, <2>2, <2>3, <2>5, ReplayedAt
    <2> QED BY <2>4, <2>5
<1>7. \A k \in Keys : IsFiniteSet(owed'[k])
    BY <1>1 DEF IInv
<1> QED BY <1>3, <1>4, <1>5, <1>6, <1>7 DEF IInv

(* Lemma: the directory is fsynced, the log cut, the cut fsynced.           *)
LEMMA CutIInv ==
    ASSUME IInv, SyncDir \/ Truncate \/ FsyncLog
    PROVE  IInv'
<1>0. /\ log \in Seq(Lines) /\ stable \in Seq(Lines) /\ <<>> \in Seq(Lines)
      /\ snap \in Maps /\ snap \in snaps
    BY EmptySeq DEF IInv, TypeOK, SnapshotFirst, Lines
<1>1. CASE SyncDir
    <2>1. /\ snaps' = {snap} /\ pc' = "truncate" /\ pc = "syncdir"
          /\ UNCHANGED <<data, log, stable, snap, ops, todo, owed>>
        BY <1>1, StepsAre DEF SyncDir
    <2>2. TypeOK'
        BY <1>0, <2>1, StepsAre DEF IInv, TypeOK
    <2>3. Working' /\ LineLast' /\ SnapshotFirst' /\ TornLast' /\ MemoryOwed'
        BY <2>1 DEF IInv, Working, LineLast, SnapshotFirst, TornLast, MemoryOwed
    <2>4. RecoversOwed' /\ \A k \in Keys : IsFiniteSet(owed'[k])
        BY <1>0, <2>1 DEF IInv, RecoversOwed, Images
    <2> QED BY <2>2, <2>3, <2>4 DEF IInv
<1>2. CASE Truncate
    <2>1. /\ log' = <<>> /\ pc' = "fsynclog" /\ pc = "truncate"
          /\ UNCHANGED <<data, stable, snap, snaps, ops, todo, owed>>
        BY <1>2, StepsAre DEF Truncate
    <2>2. TypeOK'
        BY <1>0, <2>1, StepsAre DEF IInv, TypeOK, Lines
    <2>3. Working' /\ LineLast' /\ SnapshotFirst' /\ MemoryOwed'
        BY <2>1 DEF IInv, Working, LineLast, SnapshotFirst, MemoryOwed
    <2>4. TornLast'
        BY <2>1 DEF IInv, TornLast
    <2>5. /\ snap = data /\ snaps = {snap} /\ data # Down
          /\ \A k \in Keys : snap[k] \in owed[k]
        BY <2>1 DEF IInv, SnapshotFirst, MemoryOwed, Working
    <2>6. RecoversOwed'
        <3> SUFFICES ASSUME NEW x \in Images', NEW k \in Keys
                     PROVE  Replayed(snap, x)[k] \in owed[k]
            BY <2>1, <2>5 DEF RecoversOwed
        <3>1. x \in ImagesOf(<<>>, stable)
            BY <2>1 DEF Images
        <3>2. ASSUME NEW y \in Seq(Lines), y = <<>> \/ y = stable
              PROVE  Replayed(snap, y)[k] \in owed[k] /\ Replayed(snap, Append(y, Torn))[k] \in owed[k]
            <4>1. CASE y = <<>>
                <5>1. Intact(<<>>) = {}
                    BY DEF Intact
                <5>2. {i \in Intact(<<>>) : <<>>[i][1] = k} = {}
                    BY <5>1
                <5>3. Replayed(snap, <<>>)[k] = snap[k]
                    BY <5>2 DEF Replayed
                <5> QED BY <2>5, <3>2, <4>1, <5>3, ReplayedTorn
            <4>2. CASE y = stable
                <5>1. stable \in Images
                    BY <1>0, ImagesHold DEF Images
                <5>2. Replayed(snap, stable)[k] \in owed[k]
                    BY <1>0, <5>1 DEF IInv, RecoversOwed
                <5> QED BY <3>2, <4>2, <5>2, ReplayedTorn
            <4> QED BY <3>2, <4>1, <4>2
        <3>3. x = <<>> \/ x = stable
            <4>1. Len(<<>>) = 0 /\ Common(<<>>, stable) \in 0..0
                BY <1>0, CommonIs
            <4>2. Common(<<>>, stable) = 0
                BY <4>1
            <4>3. \/ \E n \in Common(<<>>, stable)..Len(<<>>) : x = SubSeq(<<>>, 1, n)
                  \/ \E n \in Common(<<>>, stable)..(Len(<<>>) - 1) : x = Append(SubSeq(<<>>, 1, n), Torn)
                  \/ x = stable
                BY <3>1 DEF ImagesOf
            <4>4. SubSeq(<<>>, 1, 0) = <<>>
                BY SubSeqEmpty
            <4>5. \A n \in 0..0 : n = 0
                OBVIOUS
            <4>6. 0..(0 - 1) = {}
                OBVIOUS
            <4> QED BY <4>1, <4>2, <4>3, <4>4, <4>5, <4>6
        <3> QED BY <1>0, <3>2, <3>3
    <2>7. \A k \in Keys : IsFiniteSet(owed'[k])
        BY <2>1 DEF IInv
    <2> QED BY <2>2, <2>3, <2>4, <2>6, <2>7 DEF IInv
<1>3. CASE FsyncLog
    <2>1. /\ stable' = log /\ ops' = 0 /\ pc' = "idle" /\ pc = "fsynclog"
          /\ UNCHANGED <<data, log, snap, snaps, todo, owed>>
        BY <1>3, StepsAre DEF FsyncLog
    <2>2. TypeOK'
        BY <1>0, <2>1 DEF IInv, TypeOK, Lines
    <2>3. Working' /\ LineLast' /\ SnapshotFirst' /\ TornLast' /\ MemoryOwed'
        BY <2>1 DEF IInv, Working, LineLast, SnapshotFirst, TornLast, MemoryOwed
    <2>4. RecoversOwed'
        <3>1. Images' = {log}
            BY <1>0, <2>1, ImagesSynced DEF Images
        <3>2. log \in Images
            BY <1>0, ImagesHold DEF Images
        <3> QED BY <2>1, <3>1, <3>2 DEF IInv, RecoversOwed
    <2>5. \A k \in Keys : IsFiniteSet(owed'[k])
        BY <2>1 DEF IInv
    <2> QED BY <2>2, <2>3, <2>4, <2>5 DEF IInv
<1> QED BY <1>1, <1>2, <1>3

(* Lemma: the store is closed or its process dies; the files stay.          *)
LEMMA DownIInv ==
    ASSUME IInv, Close \/ Kill
    PROVE  IInv'
<1>1. /\ data' = Down /\ pc' = "down" /\ todo' \subseteq Ops
      /\ UNCHANGED <<log, stable, snap, snaps, ops, owed>>
    BY DEF Close, Kill, diskVars, IInv, TypeOK
<1>2. TypeOK'
    BY <1>1 DEF IInv, TypeOK
<1>3. Working' /\ LineLast' /\ SnapshotFirst' /\ MemoryOwed'
    BY <1>1 DEF IInv, Working, LineLast, SnapshotFirst, MemoryOwed
<1>4. TornLast'
    BY <1>1 DEF IInv, TornLast
<1>5. RecoversOwed' /\ \A k \in Keys : IsFiniteSet(owed'[k])
    BY <1>1 DEF IInv, RecoversOwed, Images
<1> QED BY <1>2, <1>3, <1>4, <1>5 DEF IInv

(* Lemma: the machine dies; what it leaves can be replayed.                 *)
LEMMA CrashIInv ==
    ASSUME IInv, Crash
    PROVE  IInv'
<1>0. log \in Seq(Lines) /\ stable \in Seq(Lines) /\ snaps \subseteq Maps
    BY DEF IInv, TypeOK, Lines
<1>1. PICK l \in Images : log' = l /\ stable' = l
    BY DEF Crash
<1>2. PICK s \in snaps : snap' = s /\ snaps' = {s}
    BY DEF Crash
<1>3. data' = Down /\ pc' = "down" /\ todo' = {} /\ UNCHANGED <<ops, owed>>
    BY DEF Crash
<1>4. l \in Seq(Lines)
    BY <1>0, ImagesHold DEF Images
<1>5. TypeOK'
    BY <1>0, <1>1, <1>2, <1>3, <1>4 DEF IInv, TypeOK, Lines
<1>6. Working' /\ LineLast' /\ SnapshotFirst' /\ MemoryOwed'
    BY <1>2, <1>3 DEF Working, LineLast, SnapshotFirst, MemoryOwed
<1>7. TornLast'
    <2>1. \A i \in DOMAIN l : l[i] = Torn => i = Len(l)
        BY <1>0, ImagesTorn DEF IInv, TornLast, Images
    <2> QED BY <1>1, <1>3, <2>1 DEF TornLast
<1>8. RecoversOwed'
    <2>1. Images' = {l}
        BY <1>1, <1>4, ImagesSynced DEF Images
    <2> QED BY <1>2, <1>3, <2>1 DEF IInv, RecoversOwed
<1>9. \A k \in Keys : IsFiniteSet(owed'[k])
    BY <1>3 DEF IInv
<1> QED BY <1>5, <1>6, <1>7, <1>8, <1>9 DEF IInv

(* Lemma: OpenFile finds what is owed, and cuts off nothing but a torn line.*)
LEMMA OpenFileIInv ==
    ASSUME IInv, OpenFile
    PROVE  IInv' /\ \A k \in Keys : data'[k] \in owed[k]
<1> DEFINE n == Cardinality(Intact(log))
           cut == SubSeq(log, 1, n)
<1>0. /\ log \in Seq(Lines) /\ stable \in Seq(Lines) /\ snap \in Maps /\ snap \in snaps
      /\ snaps \subseteq Maps /\ todo \subseteq Ops
    BY DEF IInv, TypeOK, Lines, SnapshotFirst
<1>1. /\ data' = Replayed(snap, log) /\ log' = cut /\ ops' = 0 /\ pc' = "idle"
      /\ UNCHANGED <<stable, snap, snaps, todo, owed>>
    BY DEF OpenFile
<1>2. n \in 0..Len(log) /\ Whole(cut) /\ \A s : Replayed(s, cut) = Replayed(s, log)
    BY <1>0, ReplayedCut DEF IInv, TornLast
<1>3. cut \in Seq(Lines) /\ Len(cut) = n /\ \A i \in 1..n : cut[i] = log[i]
    BY <1>0, <1>2, FirstLines
<1> HIDE DEF n, cut
<1>4. Len(log) \in Nat /\ DOMAIN cut = 1..Len(cut)
    BY <1>0, <1>3, LenProperties
<1>5. Replayed(snap, log) \in Maps
    BY <1>0, ReplayedType
<1>6. \A k \in Keys : data'[k] \in owed[k]
    <2>1. log \in Images
        BY <1>0, ImagesHold DEF Images
    <2> QED BY <1>0, <1>1, <2>1 DEF IInv, RecoversOwed
<1>7. TypeOK'
    BY <1>0, <1>1, <1>3, <1>5 DEF IInv, TypeOK, Lines
<1>8. Working' /\ LineLast' /\ SnapshotFirst' /\ MemoryOwed'
    BY <1>0, <1>1, <1>5, <1>6, ShapesAssumption
       DEF IInv, Working, LineLast, SnapshotFirst, MemoryOwed
<1>9. TornLast'
    BY <1>1, <1>2 DEF IInv, TornLast, Whole
<1>10. RecoversOwed'
    <2> SUFFICES ASSUME NEW x \in Images', NEW s \in snaps, NEW k \in Keys
                 PROVE  Replayed(s, x)[k] \in owed[k]
        BY <1>1 DEF RecoversOwed
    <2>1. x \in ImagesOf(cut, stable)
        BY <1>1 DEF Images
    <2>2. Len(cut) <= Len(log) + 1 /\ \A i \in 1..Len(cut) : i <= Len(log) => cut[i] = log[i]
        BY <1>2, <1>3, <1>4
    <2>3. x = cut \/ \E y \in ImagesOf(log, stable) : x = y \/ x = Append(y, Torn)
        BY <1>0, <1>3, <2>1, <2>2, ImagesChange
    <2>4. ASSUME NEW y \in ImagesOf(log, stable)
          PROVE  Replayed(s, y)[k] \in owed[k] /\ Replayed(s, Append(y, Torn))[k] \in owed[k]
        <3>1. Replayed(s, y)[k] \in owed[k]
            BY DEF IInv, RecoversOwed, Images
        <3>2. y \in Seq(Lines)
            BY <1>0, ImagesHold
        <3>3. Replayed(s, Append(y, Torn)) = Replayed(s, y)
            BY <3>2, ReplayedTorn
        <3> QED BY <3>1, <3>3
    <2>5. Replayed(s, cut)[k] \in owed[k]
        <3>1. log \in ImagesOf(log, stable)
            BY <1>0, ImagesHold
        <3> QED BY <1>2, <2>4, <3>1
    <2> QED BY <2>3, <2>4, <2>5
<1>11. \A k \in Keys : IsFiniteSet(owed'[k])
    BY <1>1 DEF IInv
<1> QED BY <1>6, <1>7, <1>8, <1>9, <1>10, <1>11 DEF IInv

(* Lemma: a fresh store owes nothing but empty rows.                        *)
LEMMA InitIInv == Init => IInv
<1> SUFFICES ASSUME Init PROVE IInv
    OBVIOUS
<1>1. <<>> \in Seq(Lines) /\ Empty \in Maps /\ None \in Held
    BY EmptySeq DEF Empty, Maps, Held
<1>2. TypeOK
    BY <1>1 DEF Init, TypeOK, Lines
<1>3. data # Down
    BY <1>1, ShapesAssumption DEF Init
<1>4. Working /\ LineLast /\ SnapshotFirst /\ TornLast
    BY <1>3 DEF Init, Working, LineLast, SnapshotFirst, TornLast
<1>5. MemoryOwed
    BY DEF Init, MemoryOwed, Empty
<1>6. \A k \in Keys : IsFiniteSet(owed[k])
    BY FS_Singleton DEF Init
<1>7. RecoversOwed
    <2>1. Images = {<<>>}
        BY <1>1, ImagesSynced DEF Init, Images
    <2>2. \A k \in Keys : {i \in Intact(<<>>) : <<>>[i][1] = k} = {}
        BY DEF Intact
    <2>3. \A k \in Keys : Replayed(Empty, <<>>)[k] = None
        BY <2>2 DEF Replayed, Empty
    <2> QED BY <2>1, <2>3 DEF Init, RecoversOwed
<1> QED BY <1>2, <1>4, <1>5, <1>6, <1>7 DEF IInv

(* Lemma: every step keeps the invariant.                                   *)
LEMMA NextIInv ==
    ASSUME IInv, "torn" \notin Faults, [Next]_vars
    PROVE  IInv'
<1>1. CASE Next
    BY <1>1, CallsIInv, WriteLineIInv, FsyncLineIInv, ApplyIInv, RenameIInv, CutIInv,
       DownIInv, CrashIInv, OpenFileIInv DEF Next
<1>2. CASE UNCHANGED vars
    BY <1>2 DEF vars, IInv, TypeOK, Working, MemoryOwed, LineLast, SnapshotFirst, TornLast,
                RecoversOwed, Images, Current
<1> QED BY <1>1, <1>2

-----------------------------------------------------------------------------
(* Theorem: the inductive invariant of the file store: at every step of     *)
(* every call, and wherever it fails, what a crash may leave replays to     *)
(* what is owed (file.go, append, compact and replayLog), unless an append  *)
(* fails half way, which the code does not recover from.                    *)
THEOREM FileStoreInvariant ==
    ASSUME "torn" \notin Faults
    PROVE  Spec => []IInv
<1>1. Init => IInv
    BY InitIInv
<1>2. IInv /\ [Next]_vars => IInv'
    BY NextIInv
<1> QED BY <1>1, <1>2, PTL DEF Spec

(* Theorem: whenever the machine dies, replay finds under every key the     *)
(* last write that was acknowledged, or one under way or failed since.      *)
THEOREM CrashRecovers ==
    ASSUME "torn" \notin Faults
    PROVE  Spec => []RecoversOwed
<1>1. IInv => RecoversOwed
    BY DEF IInv
<1> QED BY <1>1, FileStoreInvariant, PTL

(* Theorem: between calls the files replay to what is in memory, but for    *)
(* the key of a write that failed.                                          *)
THEOREM FilesReplayToMemory ==
    ASSUME "torn" \notin Faults
    PROVE  Spec => []ReplayIsMemory
<1>1. IInv => ReplayIsMemory
    <2> SUFFICES ASSUME IInv, pc = "idle", NEW k \in Keys, ~InDoubt(k)
                 PROVE  Replayed(snap, log)[k] = data[k]
        BY DEF ReplayIsMemory
    <2>1. log \in Images
        BY ImagesHold DEF Images, IInv, TypeOK, Lines
    <2>2. Replayed(snap, log)[k] \in owed[k]
        BY <2>1 DEF IInv, SnapshotFirst, RecoversOwed
    <2>3. data[k] \in owed[k]
        BY DEF IInv, Working, MemoryOwed
    <2>4. IsFiniteSet(owed[k]) /\ Cardinality(owed[k]) \in Nat /\ ~(Cardinality(owed[k]) > 1)
        BY FS_CardinalityType DEF IInv, InDoubt
    <2>5. Cardinality(owed[k]) # 0
        BY <2>3, <2>4, FS_EmptySet
    <2>6. Cardinality(owed[k]) = 1
        BY <2>4, <2>5
    <2>7. PICK v : owed[k] = {v}
        BY <2>4, <2>6, FS_Singleton
    <2> QED BY <2>2, <2>3, <2>7
<1> QED BY <1>1, FileStoreInvariant, PTL

(* Theorem: log, snapshot and replay together are a map that survives       *)
(* restarts: a write is shown only after it has landed, and a restart finds *)
(* what has landed.                                                         *)
THEOREM StoreIsDurableMap ==
    ASSUME "torn" \notin Faults
    PROVE  Spec => ImplementsDurableMap
<1>1. Init => Abstract!MapInit
    BY DEF Init, Empty, Abstract!MapInit
<1>2. IInv /\ [Next]_vars => [Abstract!MapNext]_<<data, owed>>
    <2> SUFFICES ASSUME IInv, [Next]_vars
                 PROVE  Abstract!MapNext \/ UNCHANGED <<data, owed>>
        OBVIOUS
    <2> USE DEF Abstract!MapNext
    <2>h. Abstract!Held = Held
        BY DEF Abstract!Held, Held
    <2>1. CASE WriteLine
        <3>1. Current[1] \in Keys /\ Current[2] \in Held
            BY <2>1, CurrentIs DEF IInv, Working, WriteLine
        <3>2. Abstract!Offer(Current[1], Current[2])
            BY <2>1 DEF WriteLine, Abstract!Offer, IInv, Working
        <3> QED BY <2>h, <3>1, <3>2
    <2>2. CASE FsyncLine
        <3>1. Current[1] \in Keys /\ Current[2] \in Held
            BY <2>2, CurrentIs DEF IInv, Working, FsyncLine
        <3>2. IInv'
            BY <2>2, FsyncLineIInv
        <3>3. Abstract!Land(Current[1], Current[2])
            BY <2>2 DEF FsyncLine, Abstract!Land, IInv, Working, LineLast
        <3> QED BY <2>h, <3>1, <3>3
    <2>3. CASE Apply
        <3>1. Current[1] \in Keys /\ Current[2] \in Held
            BY <2>3, CurrentIs DEF IInv, Working, Apply
        <3>2. Abstract!Show(Current[1], Current[2])
            BY <2>3 DEF Apply, Abstract!Show, IInv, Working, LineLast
        <3> QED BY <2>h, <3>1, <3>2
    <2>4. CASE Close \/ Kill \/ Crash
        <3>1. data' = Down /\ owed' = owed
            BY <2>4 DEF Close, Kill, Crash
        <3> QED BY <3>1 DEF Abstract!GoDown
    <2>5. CASE OpenFile
        <3>1. \A k \in Keys : data'[k] \in owed[k]
            BY <2>5, OpenFileIInv
        <3>2. data = Down /\ owed' = owed
            BY <2>5 DEF OpenFile, IInv, Working
        <3>3. data' \in [Keys -> Held]
            <4>1. log \in Seq(Lines) /\ snap \in Maps
                BY DEF IInv, TypeOK, Lines
            <4> QED BY <2>5, <4>1, ReplayedType DEF OpenFile, Maps
        <3> QED BY <2>h, <3>1, <3>2, <3>3 DEF Abstract!ComeUp
    <2>6. CASE \/ \E k \in Keys : Delete(k) \/ \E v \in Values : Put(k, v)
               \/ \E dead \in SUBSET Keys : Sweep(dead)
               \/ Compact \/ WriteTemp \/ Rename \/ SyncDir \/ Truncate \/ FsyncLog
               \/ WriteFails \/ FsyncFails \/ CompactFails
        BY <2>6 DEF Delete, Put, Sweep, Compact, WriteTemp, Rename, SyncDir, Truncate,
                    FsyncLog, WriteFails, FsyncFails, CompactFails
    <2>7. CASE UNCHANGED vars
        BY <2>7 DEF vars
    <2> QED BY <2>1, <2>2, <2>3, <2>4, <2>5, <2>6, <2>7 DEF Next
<1> QED BY <1>1, <1>2, FileStoreInvariant, PTL DEF Spec, ImplementsDurableMap, Abstract!MapSpec
=============================================================================
