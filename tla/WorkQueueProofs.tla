-------------------------- MODULE WorkQueueProofs --------------------------
(***************************************************************************)
(* OnePlace, DepthIsWork and MarkBehindWork for any pool, any number of     *)
(* tasks, attempts and waiters.  The argument is about three sets: the      *)
(* tasks in line, the tasks in a runner's hands and the unfinished ones.    *)
(* Every operation of the queue moves one task from one of them to another  *)
(* and the sequences and the depth follow.                                  *)
(***************************************************************************)
EXTENDS WorkQueue, SequenceTheorems, FiniteSetTheorems, TLAPS

\* What is in a sequence, and that it is there once.
Elements(s) == {s[n] : n \in DOMAIN s}
Distinct(s) == \A m, n \in DOMAIN s : s[m] = s[n] => m = n

\* t is s with x put in after the first n.
Inserted(t, s, n, x) ==
    /\ Len(t) = Len(s) + 1
    /\ \A k \in 1..n : t[k] = s[k]
    /\ t[n + 1] = x
    /\ \A k \in n + 1..Len(s) : t[k + 1] = s[k]

\* t is s without its first.
Shifted(t, s) ==
    /\ Len(s) = Len(t) + 1
    /\ \A k \in 1..Len(t) : t[k] = s[k + 1]

(* Lemma: what inserting an element does to the contents of a sequence.     *)
LEMMA InsertedContents ==
    ASSUME NEW S, NEW s \in Seq(S), NEW t \in Seq(S), NEW x,
           NEW n \in 0..Len(s), Inserted(t, s, n, x)
    PROVE  /\ Elements(t) = Elements(s) \union {x}
           /\ Distinct(s) /\ x \notin Elements(s) => Distinct(t)
<1>1. PICK N \in Nat : N = Len(s) /\ DOMAIN s = 1..N /\ DOMAIN t = 1..(N + 1)
    BY LenProperties DEF Inserted
<1>2. /\ n \in 0..N
      /\ \A k \in 1..n : t[k] = s[k]
      /\ t[n + 1] = x
      /\ \A k \in n + 1..N : t[k + 1] = s[k]
    BY <1>1 DEF Inserted
<1>3. \A k \in 1..(N + 1) : \/ k \in 1..n /\ k \in 1..N /\ t[k] = s[k]
                            \/ k = n + 1 /\ t[k] = x
                            \/ k - 1 \in n + 1..N /\ k - 1 \in 1..N /\ t[k] = s[k - 1]
    <2> TAKE k \in 1..(N + 1)
    <2>1. CASE k <= n
        BY <1>2, <2>1
    <2>2. CASE k = n + 1
        BY <1>2, <2>2
    <2>3. CASE k > n + 1
        <3>1. k - 1 \in n + 1..N /\ k - 1 \in 1..N /\ (k - 1) + 1 = k
            BY <1>2, <2>3
        <3> QED BY <1>2, <3>1
    <2> QED BY <1>2, <2>1, <2>2, <2>3
<1>4. Elements(t) = Elements(s) \union {x}
    <2>1. ASSUME NEW k \in 1..(N + 1) PROVE t[k] \in Elements(s) \union {x}
        BY <1>1, <1>3 DEF Elements
    <2>2. ASSUME NEW k \in 1..N PROVE s[k] \in Elements(t)
        <3>1. CASE k <= n
            <4>1. k \in 1..n /\ k \in 1..(N + 1)
                BY <1>2, <3>1
            <4> QED BY <1>1, <1>2, <4>1 DEF Elements
        <3>2. CASE k > n
            <4>1. k \in n + 1..N /\ k + 1 \in 1..(N + 1)
                BY <1>2, <3>2
            <4> QED BY <1>1, <1>2, <4>1 DEF Elements
        <3> QED BY <1>2, <3>1, <3>2
    <2>3. x \in Elements(t)
        <3>1. n + 1 \in 1..(N + 1)
            BY <1>2
        <3> QED BY <1>1, <1>2, <3>1 DEF Elements
    <2>4. Elements(t) \subseteq Elements(s) \union {x}
        BY <1>1, <2>1 DEF Elements
    <2>5. Elements(s) \subseteq Elements(t)
        BY <1>1, <2>2 DEF Elements
    <2> QED BY <2>3, <2>4, <2>5
<1>5. ASSUME Distinct(s), x \notin Elements(s) PROVE Distinct(t)
    <2> SUFFICES ASSUME NEW j \in 1..(N + 1), NEW k \in 1..(N + 1), t[j] = t[k]
                 PROVE  j = k
        BY <1>1 DEF Distinct
    <2>1. \A m \in 1..N : s[m] # x
        BY <1>1, <1>5 DEF Elements
    <2>2. \A m, o \in 1..N : s[m] = s[o] => m = o
        BY <1>1, <1>5 DEF Distinct
    <2>3. CASE j = n + 1 \/ k = n + 1
        BY <1>2, <1>3, <2>1, <2>3
    <2>4. CASE j # n + 1 /\ k # n + 1
        <3> DEFINE a == IF j <= n THEN j ELSE j - 1
                   b == IF k <= n THEN k ELSE k - 1
        <3>1. a \in 1..N /\ b \in 1..N /\ t[j] = s[a] /\ t[k] = s[b]
            BY <1>2, <1>3, <2>4
        <3>2. a = b
            BY <2>2, <3>1
        <3> QED BY <1>2, <2>4, <3>2
    <2> QED BY <2>3, <2>4
<1> QED BY <1>4, <1>5

(* Lemma: what taking the first does to the contents of a sequence.         *)
LEMMA ShiftedContents ==
    ASSUME NEW S, NEW s \in Seq(S), NEW t \in Seq(S), Shifted(t, s), Distinct(s)
    PROVE  /\ 1 \in DOMAIN s
           /\ Elements(t) = Elements(s) \ {s[1]} /\ s[1] \in Elements(s)
           /\ Distinct(t)
<1>1. PICK N \in Nat : N = Len(t) /\ DOMAIN t = 1..N /\ DOMAIN s = 1..(N + 1)
    BY LenProperties DEF Shifted
<1>2. \A k \in 1..N : t[k] = s[k + 1] /\ k + 1 \in 1..(N + 1) /\ k + 1 # 1
    BY <1>1 DEF Shifted
<1>3. \A k \in 1..(N + 1) : k # 1 => k - 1 \in 1..N /\ t[k - 1] = s[k]
    <2> TAKE k \in 1..(N + 1)
    <2> HAVE k # 1
    <2>1. k - 1 \in 1..N /\ (k - 1) + 1 = k
        OBVIOUS
    <2> QED BY <1>2, <2>1
<1>4. 1 \in 1..(N + 1) /\ \A m, n \in 1..(N + 1) : s[m] = s[n] => m = n
    BY <1>1 DEF Distinct
<1>5. Elements(t) \subseteq Elements(s) \ {s[1]}
    BY <1>1, <1>2, <1>4 DEF Elements
<1>6. Elements(s) \ {s[1]} \subseteq Elements(t)
    BY <1>1, <1>3 DEF Elements
<1>7. Distinct(t)
    <2> SUFFICES ASSUME NEW m \in 1..N, NEW n \in 1..N, t[m] = t[n] PROVE m = n
        BY <1>1 DEF Distinct
    <2>1. m + 1 = n + 1
        BY <1>2, <1>4
    <2> QED BY <2>1
<1> QED BY <1>1, <1>4, <1>5, <1>6, <1>7 DEF Elements

(* Lemma: the length and the elements of one sequence after another.        *)
LEMMA Joined ==
    ASSUME NEW S, NEW s \in Seq(S), NEW t \in Seq(S), NEW m, NEW n, m = Len(s), n = Len(t)
    PROVE  /\ s \o t \in Seq(S) /\ Len(s \o t) = m + n
           /\ \A i \in 1..(m + n) : (s \o t)[i] = IF i <= m THEN s[i] ELSE t[i - m]
BY ConcatProperties

(* Lemma: push puts a task at the end of ready, requeue somewhere in        *)
(* delayed; in the line both put it somewhere.                              *)
LEMMA LineInsert ==
    ASSUME NEW S, NEW r \in Seq(S), NEW d \in Seq(S), NEW x \in S
    PROVE  /\ Append(r, x) \o d \in Seq(S)
           /\ Inserted(Append(r, x) \o d, r \o d, Len(r), x)
           /\ \A n \in 0..Len(d) :
                LET e == SubSeq(d, 1, n) \o <<x>> \o SubSeq(d, n + 1, Len(d))
                IN  /\ e \in Seq(S) /\ Len(e) = Len(d) + 1
                    /\ r \o e \in Seq(S)
                    /\ Inserted(r \o e, r \o d, Len(r) + n, x)
<1>1. PICK R \in Nat, D \in Nat : R = Len(r) /\ D = Len(d)
    BY LenProperties
<1>2. /\ r \o d \in Seq(S) /\ Len(r \o d) = R + D
      /\ \A i \in 1..(R + D) : (r \o d)[i] = IF i <= R THEN r[i] ELSE d[i - R]
    BY <1>1, ConcatProperties
<1>3. Append(r, x) \o d \in Seq(S) /\ Inserted(Append(r, x) \o d, r \o d, Len(r), x)
    <2> DEFINE a == Append(r, x)
    <2>1. /\ a \in Seq(S) /\ Len(a) = R + 1
          /\ \A i \in 1..R : a[i] = r[i]
          /\ a[R + 1] = x
        BY <1>1, AppendProperties
    <2> HIDE DEF a
    <2>2. /\ a \o d \in Seq(S) /\ Len(a \o d) = (R + 1) + D
          /\ \A i \in 1..((R + 1) + D) : (a \o d)[i] = IF i <= R + 1 THEN a[i] ELSE d[i - (R + 1)]
        <3>1. a \in Seq(S) /\ R + 1 = Len(a)
            BY <2>1
        <3> QED BY <1>1, <3>1, Joined
    <2>3. \A k \in 1..R : (a \o d)[k] = (r \o d)[k]
        <3> TAKE k \in 1..R
        <3>1. k \in 1..(R + D) /\ k <= R /\ k \in 1..((R + 1) + D) /\ k <= R + 1
            OBVIOUS
        <3> QED BY <1>2, <2>1, <2>2, <3>1
    <2>4. (a \o d)[R + 1] = x
        BY <2>1, <2>2
    <2>5. \A k \in R + 1..(R + D) : (a \o d)[k + 1] = (r \o d)[k]
        <3> TAKE k \in R + 1..(R + D)
        <3>1. /\ k \in 1..(R + D) /\ ~(k <= R)
              /\ k + 1 \in 1..((R + 1) + D) /\ ~(k + 1 <= R + 1) /\ (k + 1) - (R + 1) = k - R
            OBVIOUS
        <3> QED BY <1>2, <2>2, <3>1
    <2> QED BY <1>1, <1>2, <2>2, <2>3, <2>4, <2>5 DEF Inserted, a
<1>4. ASSUME NEW n \in 0..Len(d)
      PROVE  LET e == SubSeq(d, 1, n) \o <<x>> \o SubSeq(d, n + 1, Len(d))
             IN  /\ e \in Seq(S) /\ Len(e) = Len(d) + 1
                 /\ r \o e \in Seq(S)
                 /\ Inserted(r \o e, r \o d, Len(r) + n, x)
    <2> DEFINE p == SubSeq(d, 1, n)
               q == SubSeq(d, n + 1, Len(d))
               e == p \o <<x>> \o q
    <2>0. n \in 0..D /\ \A i \in 1..D : d[i] \in S
        BY <1>1, <1>4, ElementOfSeq
    <2>1. p \in Seq(S) /\ Len(p) = n /\ \A i \in 1..n : p[i] = d[i]
        <3>1. \A i \in 1..n : d[i] \in S
            BY <2>0
        <3>2. /\ p \in Seq(S) /\ Len(p) = IF 1 <= n THEN n - 1 + 1 ELSE 0
              /\ \A i \in 1..(n - 1 + 1) : p[i] = d[1 + i - 1]
            BY <2>0, <3>1, SubSeqProperties
        <3> HIDE DEF p
        <3> QED BY <2>0, <3>2
    <2>2. q \in Seq(S) /\ Len(q) = D - n /\ \A i \in 1..(D - n) : q[i] = d[n + i]
        <3>1. \A i \in n + 1..D : d[i] \in S
            BY <2>0
        <3>2. /\ q \in Seq(S) /\ Len(q) = IF n + 1 <= D THEN D - (n + 1) + 1 ELSE 0
              /\ \A i \in 1..(D - (n + 1) + 1) : q[i] = d[(n + 1) + i - 1]
            BY <1>1, <2>0, <3>1, SubSeqProperties
        <3> HIDE DEF q
        <3> QED BY <2>0, <3>2
    <2> HIDE DEF p, q
    <2>3. /\ p \o <<x>> \in Seq(S) /\ Len(p \o <<x>>) = n + 1
          /\ \A i \in 1..n : (p \o <<x>>)[i] = d[i]
          /\ (p \o <<x>>)[n + 1] = x
        <3>1. <<x>> \in Seq(S) /\ Len(<<x>>) = 1 /\ <<x>>[1] = x
            OBVIOUS
        <3>2. /\ p \o <<x>> \in Seq(S) /\ Len(p \o <<x>>) = n + 1
              /\ \A i \in 1..(n + 1) : (p \o <<x>>)[i] = IF i <= n THEN p[i] ELSE <<x>>[i - n]
            BY <2>1, <3>1, ConcatProperties
        <3>3. \A i \in 1..n : i \in 1..(n + 1) /\ i <= n
            BY <2>0
        <3>4. n + 1 \in 1..(n + 1) /\ ~(n + 1 <= n) /\ (n + 1) - n = 1
            BY <2>0
        <3> QED BY <2>1, <3>1, <3>2, <3>3, <3>4
    <2>4. /\ e \in Seq(S) /\ Len(e) = D + 1
          /\ \A i \in 1..n : e[i] = d[i]
          /\ e[n + 1] = x
          /\ \A i \in n + 1..D : e[i + 1] = d[i]
        <3> DEFINE px == p \o <<x>>
        <3>1. /\ px \in Seq(S) /\ Len(px) = n + 1 /\ px[n + 1] = x
              /\ \A i \in 1..n : px[i] = d[i]
            BY <2>3
        <3> HIDE DEF px
        <3>2. /\ px \o q \in Seq(S) /\ Len(px \o q) = (n + 1) + (D - n)
              /\ \A i \in 1..((n + 1) + (D - n)) :
                   (px \o q)[i] = IF i <= n + 1 THEN px[i] ELSE q[i - (n + 1)]
            <4>1. PICK a, b : a = n + 1 /\ b = D - n
                OBVIOUS
            <4>2. px \in Seq(S) /\ a = Len(px) /\ q \in Seq(S) /\ b = Len(q)
                BY <2>2, <3>1, <4>1
            <4>3. /\ px \o q \in Seq(S) /\ Len(px \o q) = a + b
                  /\ \A i \in 1..(a + b) : (px \o q)[i] = IF i <= a THEN px[i] ELSE q[i - a]
                BY <4>2, Joined
            <4> QED BY <4>1, <4>3
        <3>3. (n + 1) + (D - n) = D + 1
            BY <2>0
        <3>4. \A i \in 1..n : (px \o q)[i] = d[i]
            <4> TAKE i \in 1..n
            <4>1. i \in 1..(D + 1) /\ i <= n + 1
                BY <2>0
            <4> QED BY <3>1, <3>2, <3>3, <4>1
        <3>5. (px \o q)[n + 1] = x
            BY <2>0, <3>1, <3>2, <3>3
        <3>6. \A i \in n + 1..D : (px \o q)[i + 1] = d[i]
            <4> TAKE i \in n + 1..D
            <4>1. /\ i + 1 \in 1..(D + 1) /\ ~(i + 1 <= n + 1) /\ (i + 1) - (n + 1) = i - n
                  /\ i - n \in 1..(D - n) /\ n + (i - n) = i
                BY <2>0
            <4> QED BY <2>2, <3>2, <3>3, <4>1
        <3> QED BY <3>2, <3>3, <3>4, <3>5, <3>6 DEF px
    <2> HIDE DEF e
    <2>5. /\ r \o e \in Seq(S) /\ Len(r \o e) = R + (D + 1)
          /\ \A i \in 1..(R + (D + 1)) : (r \o e)[i] = IF i <= R THEN r[i] ELSE e[i - R]
        <3>1. e \in Seq(S) /\ D + 1 = Len(e)
            BY <2>4
        <3> QED BY <1>1, <3>1, Joined
    <2>6. \A k \in 1..(R + n) : (r \o e)[k] = (r \o d)[k]
        <3> TAKE k \in 1..(R + n)
        <3>1. k \in 1..(R + D) /\ k \in 1..(R + (D + 1))
            BY <2>0
        <3>2. CASE k <= R
            BY <1>2, <2>5, <3>1, <3>2
        <3>3. CASE ~(k <= R)
            <4>1. k - R \in 1..n
                BY <2>0, <3>3
            <4> QED BY <1>2, <2>4, <2>5, <3>1, <3>3, <4>1
        <3> QED BY <3>2, <3>3
    <2>7. (r \o e)[(R + n) + 1] = x
        <3>1. (R + n) + 1 \in 1..(R + (D + 1)) /\ ~((R + n) + 1 <= R) /\ ((R + n) + 1) - R = n + 1
            BY <2>0
        <3> QED BY <2>4, <2>5, <3>1
    <2>8. \A k \in (R + n) + 1..(R + D) : (r \o e)[k + 1] = (r \o d)[k]
        <3> TAKE k \in (R + n) + 1..(R + D)
        <3>1. /\ k \in 1..(R + D) /\ ~(k <= R)
              /\ k + 1 \in 1..(R + (D + 1)) /\ ~(k + 1 <= R)
              /\ (k + 1) - R = (k - R) + 1 /\ k - R \in n + 1..D
            BY <2>0
        <3> QED BY <1>2, <2>4, <2>5, <3>1
    <2>9. Len(r \o e) = (R + D) + 1
        BY <2>5
    <2> QED BY <1>1, <1>2, <2>4, <2>5, <2>6, <2>7, <2>8, <2>9 DEF Inserted, e, p, q
<1> QED BY <1>3, <1>4

(* Lemma: promotion leaves the line as it is, and Take takes its first.     *)
LEMMA LineTake ==
    ASSUME NEW S, NEW r \in Seq(S), NEW d \in Seq(S), NEW k \in 0..Len(d),
           r \o SubSeq(d, 1, k) # <<>>
    PROVE  LET p == r \o SubSeq(d, 1, k)
               q == SubSeq(d, k + 1, Len(d))
           IN  /\ Head(p) = (r \o d)[1]
               /\ Tail(p) \in Seq(S) /\ q \in Seq(S)
               /\ Len(Tail(p)) + Len(q) + 1 = Len(r) + Len(d)
               /\ Shifted(Tail(p) \o q, r \o d)
<1>1. PICK R \in Nat, D \in Nat : R = Len(r) /\ D = Len(d)
    BY LenProperties
<1>2. /\ r \o d \in Seq(S) /\ Len(r \o d) = R + D
      /\ \A i \in 1..(R + D) : (r \o d)[i] = IF i <= R THEN r[i] ELSE d[i - R]
    BY <1>1, Joined
<1>3. k \in 0..D /\ \A i \in 1..D : d[i] \in S
    BY <1>1, ElementOfSeq
<1> DEFINE c == SubSeq(d, 1, k)
           q == SubSeq(d, k + 1, Len(d))
           p == r \o c
           t == Tail(p)
<1>4. c \in Seq(S) /\ Len(c) = k /\ \A i \in 1..k : c[i] = d[i]
    <2>1. \A i \in 1..k : d[i] \in S
        BY <1>3
    <2>2. /\ c \in Seq(S) /\ Len(c) = IF 1 <= k THEN k - 1 + 1 ELSE 0
          /\ \A i \in 1..(k - 1 + 1) : c[i] = d[1 + i - 1]
        BY <1>3, <2>1, SubSeqProperties
    <2> HIDE DEF c
    <2> QED BY <1>3, <2>2
<1>5. q \in Seq(S) /\ Len(q) = D - k /\ \A i \in 1..(D - k) : q[i] = d[k + i]
    <2>1. \A i \in k + 1..D : d[i] \in S
        BY <1>3
    <2>2. /\ q \in Seq(S) /\ Len(q) = IF k + 1 <= D THEN D - (k + 1) + 1 ELSE 0
          /\ \A i \in 1..(D - (k + 1) + 1) : q[i] = d[(k + 1) + i - 1]
        BY <1>1, <1>3, <2>1, SubSeqProperties
    <2> HIDE DEF q
    <2> QED BY <1>3, <2>2
<1> HIDE DEF c, q
<1>6. /\ p \in Seq(S) /\ Len(p) = R + k
      /\ \A i \in 1..(R + k) : p[i] = IF i <= R THEN r[i] ELSE c[i - R]
    <2>1. c \in Seq(S) /\ k = Len(c)
        BY <1>4
    <2> QED BY <1>1, <2>1, Joined
<1>7. \A i \in 1..(R + k) : p[i] = (r \o d)[i]
    <2> TAKE i \in 1..(R + k)
    <2>1. i \in 1..(R + D)
        BY <1>3
    <2>2. CASE i <= R
        BY <1>2, <1>6, <2>1, <2>2
    <2>3. CASE ~(i <= R)
        <3>1. i - R \in 1..k
            BY <1>3, <2>3
        <3> QED BY <1>2, <1>4, <1>6, <2>1, <2>3, <3>1
    <2> QED BY <2>2, <2>3
<1>8. p # <<>> /\ Len(p) # 0
    <2>1. p # <<>>
        BY DEF c
    <2> QED BY <1>6, <2>1, EmptySeq
<1>9. R + k >= 1 /\ 1 \in 1..(R + k)
    BY <1>3, <1>6, <1>8
<1>10. Head(p) = p[1]
    BY <1>6, <1>8
<1>11. /\ t \in Seq(S) /\ Len(t) = (R + k) - 1
       /\ \A i \in 1..((R + k) - 1) : t[i] = p[i + 1]
    <2> HIDE DEF p
    <2>1. t \in Seq(S) /\ Len(t) = Len(p) - 1 /\ \A i \in 1..Len(t) : t[i] = p[i + 1]
        BY <1>6, <1>8, HeadTailProperties
    <2> HIDE DEF t
    <2> QED BY <1>6, <2>1
<1> HIDE DEF t, p
<1>12. /\ t \o q \in Seq(S) /\ Len(t \o q) = (R + D) - 1
       /\ \A i \in 1..((R + D) - 1) :
            (t \o q)[i] = IF i <= (R + k) - 1 THEN t[i] ELSE q[i - ((R + k) - 1)]
    <2>1. PICK a, b : a = (R + k) - 1 /\ b = D - k
        OBVIOUS
    <2>2. t \in Seq(S) /\ a = Len(t) /\ q \in Seq(S) /\ b = Len(q)
        BY <1>5, <1>11, <2>1
    <2>3. /\ t \o q \in Seq(S) /\ Len(t \o q) = a + b
          /\ \A i \in 1..(a + b) : (t \o q)[i] = IF i <= a THEN t[i] ELSE q[i - a]
        BY <2>2, Joined
    <2>4. a + b = (R + D) - 1
        BY <1>3, <2>1
    <2> QED BY <2>1, <2>3, <2>4
<1>13. \A i \in 1..((R + D) - 1) : (t \o q)[i] = (r \o d)[i + 1]
    <2> TAKE i \in 1..((R + D) - 1)
    <2>0. i + 1 \in 1..(R + D)
        OBVIOUS
    <2>1. CASE i <= (R + k) - 1
        <3>1. i \in 1..((R + k) - 1) /\ i + 1 \in 1..(R + k)
            BY <1>3, <2>1
        <3> QED BY <1>7, <1>11, <1>12, <2>1, <3>1
    <2>2. CASE ~(i <= (R + k) - 1)
        <3>1. /\ i - ((R + k) - 1) \in 1..(D - k) /\ ~(i + 1 <= R)
              /\ k + (i - ((R + k) - 1)) = (i + 1) - R
            BY <1>3, <1>9, <2>2
        <3>2. (t \o q)[i] = q[i - ((R + k) - 1)]
            BY <1>12, <2>2
        <3>3. (r \o d)[i + 1] = d[(i + 1) - R]
            BY <1>2, <2>0, <3>1
        <3> QED BY <1>5, <3>1, <3>2, <3>3
    <2> QED BY <2>1, <2>2
<1>14. Shifted(t \o q, r \o d)
    BY <1>2, <1>12, <1>13 DEF Shifted
<1>15. Len(t) + Len(q) + 1 = Len(r) + Len(d)
    BY <1>1, <1>3, <1>5, <1>11
<1>16. Head(p) = (r \o d)[1]
    BY <1>7, <1>9, <1>10
<1> QED BY <1>5, <1>11, <1>14, <1>15, <1>16 DEF t, p, q, c

-----------------------------------------------------------------------------
(* The three sets under the operations.                                     *)

Tasks == [item : Items, attempts : 0..MaxAttempts, done : BOOLEAN]

(* Lemma: there are finitely many runners, and workers in a deployment.     *)
LEMMA RunnersFinite ==
    /\ IsFiniteSet(Running) /\ Cardinality(Running) \in Nat
    /\ \A d \in Deployments : Cardinality(d.pool) \in Nat
<1>1. IsFiniteSet(Runners)
    BY PoolAssumption, FS_AddElement DEF Runners
<1>2. IsFiniteSet(Running)
    BY <1>1, FS_Subset DEF Running
<1>3. ASSUME NEW d \in Deployments PROVE Cardinality(d.pool) \in Nat
    <2>1. d.pool \in SUBSET Pool
        BY DeploymentsAssumption
    <2> QED BY <2>1, PoolAssumption, FS_Subset, FS_CardinalityType
<1> QED BY <1>2, <1>3, FS_CardinalityType

(* Lemma: what QueueInv says of the sequences and the tasks.                *)
LEMMA Parts ==
    ASSUME QueueInv
    PROVE  /\ task \in Seq(Tasks) /\ Len(task) \in Nat /\ DOMAIN task = 1..Len(task)
           /\ ready \in Seq(Ids) /\ delayed \in Seq(Ids) /\ Line \in Seq(Ids)
           /\ Len(ready) \in Nat /\ Len(delayed) \in Nat /\ due \in 0..Len(delayed)
           /\ Queued = Elements(Line) /\ Distinct(Line)
           /\ Unfinished \subseteq DOMAIN task
           /\ \A p \in Running : run[p].task \in InHand /\ run[p].task \in DOMAIN task
           /\ WakeSlots \in Nat \ {0}
<1>1. task \in Seq(Tasks) /\ ready \in Seq(Ids) /\ delayed \in Seq(Ids) /\ due \in 0..Len(delayed)
    BY DEF QueueInv, TypeOK, Tasks
<1>2. Line \in Seq(Ids)
    BY <1>1, ConcatProperties DEF Line
<1>3. Len(task) \in Nat /\ DOMAIN task = 1..Len(task) /\ Len(ready) \in Nat /\ Len(delayed) \in Nat
    BY <1>1, LenProperties
<1>4. Queued = Elements(Line) /\ Distinct(Line)
    BY DEF QueueInv, Places, Queued, Elements, Distinct
<1>5. \A p \in Running : run[p].task \in InHand
    BY DEF InHand
<1>6. InHand \subseteq DOMAIN task
    BY DEF QueueInv, Places, Unfinished
<1>7. WakeSlots \in Nat \ {0}
    BY RunnersFinite DEF QueueInv, RunnersOK, WakeSlots, Max1
<1> QED BY <1>1, <1>2, <1>3, <1>4, <1>5, <1>6, <1>7 DEF Unfinished

(* Lemma: a step that takes no task and finishes none.                      *)
LEMMA QuietStep ==
    ASSUME QueueInv,
           UNCHANGED <<dep, task, ready, delayed, closed, stopped, depth, batch>>,
           due' \in 0..Len(delayed), wake' \in 0..WakeSlots, empty' \in 0..1,
           handled' \subseteq Items, dlq' \subseteq Items, passed' \subseteq Items,
           run' \in [Runners -> RunnerStates],
           \A p \in Runners : /\ run'[p].pc = "running" <=> run[p].pc = "running"
                              /\ run[p].pc = "running" => run'[p].task = run[p].task
    PROVE  QueueInv'
<1>1. TypeOK'
    BY DEF QueueInv, TypeOK, WakeSlots
<1>2. RunnersOK'
    BY DEF QueueInv, RunnersOK
<1>3. Running' = Running /\ \A p \in Running : run'[p].task = run[p].task
    BY DEF Running, At
<1>4. InHand' = InHand
    BY <1>3 DEF InHand
<1>5. Line' = Line /\ Queued' = Queued /\ Unfinished' = Unfinished
    BY DEF Line, Queued, Unfinished
<1>6. Places'
    BY <1>3, <1>4, <1>5 DEF QueueInv, Places
<1>7. DepthIsWork'
    <2>1. Cardinality(Running') = Cardinality(Running)
        BY <1>3, Zenon
    <2> QED BY <2>1 DEF QueueInv, DepthIsWork
<1> QED BY <1>1, <1>2, <1>6, <1>7 DEF QueueInv

(* Lemma: a runner puts its task down.                                      *)
LEMMA PutDown ==
    ASSUME QueueInv, NEW p \in Runners, At(p, "running"), Back(p)
    PROVE  /\ run' \in [Runners -> RunnerStates]
           /\ Running' = Running \ {p} /\ p \in Running
           /\ InHand' = InHand \ {run[p].task} /\ run[p].task \in InHand
           /\ \A q, r \in Running' : run'[q].task = run'[r].task => q = r
           /\ Cardinality(Running') = Cardinality(Running) - 1
           /\ At(Cycler, "gone")' <=> At(Cycler, "gone")
<1>1. run \in [Runners -> RunnerStates]
    BY DEF QueueInv, RunnersOK
<1>2. Loop(p) # "running" /\ Loop(p) # "gone" /\ Going(Loop(p), NoTask, <<>>) \in RunnerStates
    BY DEF Loop, Going, RunnerStates
<1>3. /\ run' \in [Runners -> RunnerStates]
      /\ \A q \in Runners : q # p => run'[q] = run[q]
      /\ run'[p].pc = Loop(p)
    BY <1>1, <1>2 DEF Back, Going
<1>4. Running' = Running \ {p} /\ p \in Running
    BY <1>2, <1>3 DEF Running, At
<1>5. \A q \in Running' : q \in Running /\ q # p /\ run'[q].task = run[q].task
    BY <1>3, <1>4 DEF Running
<1>6. \A q, r \in Running : run[q].task = run[r].task => q = r
    BY DEF QueueInv, Places
<1>7. InHand' = InHand \ {run[p].task} /\ run[p].task \in InHand
    BY <1>4, <1>5, <1>6 DEF InHand
<1>8. Cardinality(Running') = Cardinality(Running) - 1
    <2>1. Cardinality(Running \ {p}) = Cardinality(Running) - 1
        BY <1>4, RunnersFinite, FS_RemoveElement
    <2> QED BY <1>4, <2>1, Zenon
<1>9. At(Cycler, "gone")' <=> At(Cycler, "gone")
    <2>1. CASE p = Cycler
        BY <1>2, <1>3, <2>1 DEF At
    <2>2. CASE p # Cycler
        BY <1>3, <2>2 DEF At, Runners
    <2> QED BY <2>1, <2>2
<1> QED BY <1>3, <1>4, <1>5, <1>6, <1>7, <1>8, <1>9

(* Lemma: Submit's push, whoever submits.                                   *)
LEMMA PushStep ==
    ASSUME QueueInv, NEW item \in Items, Push(item), UNCHANGED <<dep, run, stopped>>,
           batch' \subseteq batch \union {Len(task) + 1},
           handled' \subseteq Items, dlq' \subseteq Items, passed' \subseteq Items
    PROVE  QueueInv'
<1> DEFINE i == Len(task) + 1
           new == [item |-> item, attempts |-> 0, done |-> closed]
<1>0. i \in Ids /\ i \notin DOMAIN task
    BY Parts, AttemptsAssumption DEF Push, Ids
<1>1. new \in Tasks
    <2>1. closed \in BOOLEAN
        BY Zenon DEF QueueInv, RunnersOK
    <2> QED BY <2>1, AttemptsAssumption DEF Tasks
<1> HIDE DEF new
<1>2. /\ task' \in Seq(Tasks) /\ DOMAIN task' = DOMAIN task \union {i}
      /\ \A j \in DOMAIN task : task'[j] = task[j]
      /\ task'[i] = new
    <2>1. task' = Append(task, new)
        BY DEF Push, new
    <2>2. /\ task' \in Seq(Tasks) /\ Len(task') = Len(task) + 1
          /\ \A j \in 1..Len(task) : task'[j] = task[j]
          /\ task'[Len(task) + 1] = new
        BY <1>1, <2>1, Parts, AppendProperties
    <2>3. DOMAIN task' = 1..(Len(task) + 1)
        BY <2>2, LenProperties
    <2> QED BY <2>2, <2>3, Parts
<1>3. Running' = Running /\ InHand' = InHand
    BY DEF Running, InHand, At
<1>4. Cardinality(Running') = Cardinality(Running)
    BY <1>3, Zenon
<1>5. wake' \in 0..WakeSlots'
    BY Parts DEF QueueInv, TypeOK, Push, Signalled, WakeSlots
<1>6. RunnersOK' /\ batch' \subseteq Ids
    BY <1>0, <1>2 DEF QueueInv, RunnersOK, Push, TypeOK
<1>7. \A q, r \in Running' : run'[q].task = run'[r].task => q = r
    BY <1>3 DEF QueueInv, Places
<1>8. CASE closed
    <2>1. new.done
        BY <1>8 DEF new
    <2>2. Unfinished' = Unfinished
        BY <1>0, <1>2, <2>1 DEF Unfinished
    <2>3. UNCHANGED <<ready, delayed, depth>>
        BY <1>8 DEF Push
    <2>4. Line' = Line /\ Queued' = Queued
        BY <2>3 DEF Line, Queued
    <2>5. Places'
        BY <1>3, <1>7, <2>2, <2>4 DEF QueueInv, Places
    <2>6. DepthIsWork'
        BY <1>8 DEF QueueInv, RunnersOK, DepthIsWork
    <2>7. TypeOK'
        BY <1>2, <1>5, <1>6, <2>3 DEF QueueInv, TypeOK, Push, Tasks
    <2> QED BY <1>6, <2>5, <2>6, <2>7 DEF QueueInv
<1>9. CASE ~closed
    <2>1. ~new.done
        BY <1>9 DEF new
    <2>2. Unfinished' = Unfinished \union {i}
        BY <1>0, <1>2, <2>1 DEF Unfinished
    <2>3. ready' = Append(ready, i) /\ delayed' = delayed /\ depth' = depth + 1
        BY <1>9 DEF Push
    <2>4. Line' \in Seq(Ids) /\ Inserted(Line', Line, Len(ready), i)
        BY <1>0, <2>3, Parts, LineInsert DEF Line
    <2>5. Len(ready) \in 0..Len(Line)
        BY Parts, ConcatProperties DEF Line
    <2>6. i \notin Queued
        BY <1>0 DEF QueueInv, Places, Unfinished
    <2>7. Elements(Line') = Elements(Line) \union {i} /\ Distinct(Line')
        BY <2>4, <2>5, <2>6, Parts, InsertedContents
    <2>8. Queued' = Queued \union {i}
        BY <2>7, Parts DEF Queued, Elements
    <2>9. i \notin InHand
        BY <1>0 DEF QueueInv, Places, Unfinished
    <2>10. Places'
        <3>1. Queued' \union InHand' = Unfinished' /\ Queued' \intersect InHand' = {}
            BY <1>3, <2>2, <2>8, <2>9 DEF QueueInv, Places
        <3>2. InHand' \subseteq Ids
            BY <1>3 DEF QueueInv, Places
        <3> QED BY <1>7, <2>7, <3>1, <3>2 DEF Places, Distinct
    <2>11. ready' \in Seq(Ids) /\ Len(ready') = Len(ready) + 1
        BY <1>0, <2>3, Parts, AppendProperties
    <2>12. DepthIsWork'
        <3>1. depth \in Int /\ Cardinality(Running) \in Nat
            BY RunnersFinite DEF QueueInv, TypeOK
        <3>2. stopped \/ depth = Len(ready) + Len(delayed) + Cardinality(Running)
            BY DEF QueueInv, DepthIsWork
        <3>3. Len(ready) \in Nat /\ Len(delayed) \in Nat
            BY Parts
        <3>4. stopped \/ depth + 1 = (Len(ready) + 1) + Len(delayed) + Cardinality(Running)
            BY <3>1, <3>2, <3>3
        <3> QED BY <1>4, <2>3, <2>11, <3>4 DEF DepthIsWork
    <2>13. TypeOK'
        BY <1>2, <1>5, <1>6, <2>3, <2>11 DEF QueueInv, TypeOK, Push, Tasks
    <2> QED BY <1>6, <2>10, <2>12, <2>13 DEF QueueInv
<1> QED BY <1>8, <1>9

(* Lemma: a task whose handle is released is finished and no other is.      *)
LEMMA HandleReleased ==
    ASSUME QueueInv, NEW i \in DOMAIN task, task' \in Seq(Tasks),
           DOMAIN task' = DOMAIN task, task'[i].done,
           \A j \in DOMAIN task : j # i => task'[j].done = task[j].done
    PROVE  Unfinished' = Unfinished \ {i}
BY DEF Unfinished

(* Lemma: complete, when the runner goes back to its loop.                  *)
LEMMA CompleteStep ==
    ASSUME QueueInv, NEW p \in Runners, At(p, "running"), Complete(run[p].task), Back(p),
           UNCHANGED <<dep, stopped, batch, passed>>,
           handled' \subseteq Items, dlq' \subseteq Items
    PROVE  QueueInv'
<1> DEFINE i == run[p].task
<1>0. i \in DOMAIN task /\ i \in InHand
    BY PutDown, Parts
<1> HIDE DEF i
<1>t. /\ task' = [task EXCEPT ![i].done = TRUE] /\ depth' = depth - 1
      /\ empty' = (IF depth = 1 THEN 1 ELSE empty)
      /\ UNCHANGED <<ready, delayed, due, closed, wake>>
    BY DEF Complete, i
<1>1. task' \in Seq(Tasks) /\ DOMAIN task' = DOMAIN task
    <2>1. [task[i] EXCEPT !.done = TRUE] \in Tasks
        <3>1. task[i] \in Tasks
            BY <1>0, Parts, ElementOfSeq
        <3> QED BY <3>1 DEF Tasks
    <2>2. task' = [task EXCEPT ![i] = [task[i] EXCEPT !.done = TRUE]]
        BY <1>t
    <2> QED BY <1>0, <2>1, <2>2, Parts
<1>2. Unfinished' = Unfinished \ {i}
    <2>1. task'[i].done /\ \A j \in DOMAIN task : j # i => task'[j].done = task[j].done
        <3>1. task[i] \in Tasks
            BY <1>0, Parts, ElementOfSeq
        <3> QED BY <1>0, <1>t, <3>1 DEF Tasks
    <2> QED BY <1>0, <1>1, <2>1, HandleReleased
<1>3. Line' = Line /\ Queued' = Queued
    BY <1>t DEF Line, Queued
<1>4. /\ InHand' = InHand \ {i}
      /\ \A q, r \in Running' : run'[q].task = run'[r].task => q = r
      /\ Cardinality(Running') = Cardinality(Running) - 1
      /\ run' \in [Runners -> RunnerStates]
    BY PutDown DEF i
<1>5. Places'
    <2>1. Queued' \union InHand' = Unfinished' /\ Queued' \intersect InHand' = {}
        BY <1>0, <1>2, <1>3, <1>4 DEF QueueInv, Places
    <2> QED BY <1>3, <1>4, <2>1 DEF QueueInv, Places
<1>6. RunnersOK'
    BY <1>1, <1>4, <1>t DEF QueueInv, RunnersOK
<1>7. DepthIsWork'
    <2>1. depth \in Int /\ Cardinality(Running) \in Nat
        BY RunnersFinite DEF QueueInv, TypeOK
    <2>2. stopped \/ depth = Len(ready) + Len(delayed) + Cardinality(Running)
        BY DEF QueueInv, DepthIsWork
    <2>3. Len(ready) \in Nat /\ Len(delayed) \in Nat
        BY Parts
    <2>4. stopped \/ depth - 1 = Len(ready) + Len(delayed) + (Cardinality(Running) - 1)
        BY <2>1, <2>2, <2>3
    <2> QED BY <1>4, <1>t, <2>4 DEF DepthIsWork
<1>8. TypeOK'
    <2>1. depth' \in Int /\ empty' \in 0..1 /\ wake' \in 0..WakeSlots'
        BY <1>t DEF QueueInv, TypeOK, WakeSlots
    <2> QED BY <1>1, <1>t, <2>1 DEF QueueInv, TypeOK, Tasks
<1> QED BY <1>5, <1>6, <1>7, <1>8 DEF QueueInv

(* Lemma: a failed attempt goes back into the line, or is given up when the *)
(* queue was closed under it.                                               *)
LEMMA RetryStep ==
    ASSUME QueueInv, NEW p \in Runners, Retry(p)
    PROVE  QueueInv'
<1> DEFINE i == run[p].task
<1>a. At(p, "running") /\ Back(p)
    BY DEF Retry
<1>0. i \in DOMAIN task /\ i \in InHand /\ i \in Ids /\ i \in Unfinished
    BY <1>a, PutDown, Parts DEF QueueInv, Places
<1>4. /\ InHand' = InHand \ {i}
      /\ \A q, r \in Running' : run'[q].task = run'[r].task => q = r
      /\ Cardinality(Running') = Cardinality(Running) - 1
      /\ run' \in [Runners -> RunnerStates]
    BY <1>a, PutDown
<1>m. task[i].attempts + 1 < MaxAttempts
    BY DEF Retry, MayRetry
<1>t. /\ task' = [task EXCEPT ![i].attempts = @ + 1, ![i].done = closed]
      /\ UNCHANGED <<dep, ready, due, closed, depth, empty, stopped, batch, handled, dlq, passed>>
      /\ closed => UNCHANGED <<delayed, wake>>
      /\ ~closed => /\ wake' = Signalled
                    /\ \E n \in due..Len(delayed) :
                         delayed' = SubSeq(delayed, 1, n) \o <<i>> \o SubSeq(delayed, n + 1, Len(delayed))
    BY DEF Retry, Requeue, Requeued, lastingVars
<1> HIDE DEF i
<1>b. closed \in BOOLEAN
    BY Zenon DEF QueueInv, RunnersOK
<1>c. task[i] \in Tasks
    BY <1>0, Parts, ElementOfSeq
<1>1. task' \in Seq(Tasks) /\ DOMAIN task' = DOMAIN task
    <2>1. [task[i] EXCEPT !.attempts = @ + 1, !.done = closed] \in Tasks
        <3>1. task[i].attempts + 1 \in 0..MaxAttempts
            BY <1>c, <1>m, AttemptsAssumption DEF Tasks
        <3> QED BY <1>b, <1>c, <3>1 DEF Tasks
    <2>2. task' = [task EXCEPT ![i] = [task[i] EXCEPT !.attempts = @ + 1, !.done = closed]]
        BY <1>0, <1>t, <1>c, Parts DEF Tasks
    <2> QED BY <1>0, <2>1, <2>2, Parts
<1>2. task'[i].done = closed /\ \A j \in DOMAIN task : j # i => task'[j].done = task[j].done
    BY <1>0, <1>t, <1>c DEF Tasks
<1>5. RunnersOK'
    BY <1>1, <1>4, <1>t DEF QueueInv, RunnersOK
<1>6. wake' \in 0..WakeSlots'
    BY <1>t, Parts DEF QueueInv, TypeOK, Signalled, WakeSlots
<1>7. CASE closed
    <2>1. Unfinished' = Unfinished \ {i}
        BY <1>0, <1>1, <1>2, <1>7, HandleReleased
    <2>2. Line' = Line /\ Queued' = Queued
        BY <1>t, <1>7 DEF Line, Queued
    <2>3. Places'
        <3>1. Queued' \union InHand' = Unfinished' /\ Queued' \intersect InHand' = {}
            BY <1>0, <1>4, <2>1, <2>2 DEF QueueInv, Places
        <3> QED BY <1>4, <2>2, <3>1 DEF QueueInv, Places
    <2>4. DepthIsWork'
        BY <1>t, <1>7 DEF QueueInv, RunnersOK, DepthIsWork
    <2>5. TypeOK'
        BY <1>1, <1>t, <1>6, <1>7 DEF QueueInv, TypeOK, Tasks
    <2> QED BY <1>5, <2>3, <2>4, <2>5 DEF QueueInv
<1>8. CASE ~closed
    <2>1. Unfinished' = Unfinished
        BY <1>0, <1>1, <1>2, <1>8 DEF Unfinished
    <2>2. PICK n \in due..Len(delayed) :
              delayed' = SubSeq(delayed, 1, n) \o <<i>> \o SubSeq(delayed, n + 1, Len(delayed))
        BY <1>t, <1>8
    <2>n. n \in 0..Len(delayed)
        BY Parts
    <2>3. /\ delayed' \in Seq(Ids) /\ Len(delayed') = Len(delayed) + 1
          /\ Line' \in Seq(Ids) /\ Inserted(Line', Line, Len(ready) + n, i)
        <3>1. Line' = ready \o delayed'
            BY <1>t DEF Line
        <3>2. LET e == SubSeq(delayed, 1, n) \o <<i>> \o SubSeq(delayed, n + 1, Len(delayed))
              IN  /\ e \in Seq(Ids) /\ Len(e) = Len(delayed) + 1
                  /\ ready \o e \in Seq(Ids)
                  /\ Inserted(ready \o e, ready \o delayed, Len(ready) + n, i)
            BY <1>0, <2>n, Parts, LineInsert
        <3> QED BY <2>2, <3>1, <3>2 DEF Line
    <2>4. Len(ready) + n \in 0..Len(Line)
        BY <2>n, Parts, ConcatProperties DEF Line
    <2>5. i \notin Queued
        BY <1>0 DEF QueueInv, Places
    <2>6. Elements(Line') = Elements(Line) \union {i} /\ Distinct(Line')
        BY <2>3, <2>4, <2>5, Parts, InsertedContents
    <2>7. Queued' = Queued \union {i}
        BY <2>6, Parts DEF Queued, Elements
    <2>8. Places'
        <3>1. Queued' \union InHand' = Unfinished' /\ Queued' \intersect InHand' = {}
            BY <1>0, <1>4, <2>1, <2>7 DEF QueueInv, Places
        <3>2. InHand' \subseteq Ids
            BY <1>4 DEF QueueInv, Places
        <3> QED BY <1>4, <2>6, <3>1, <3>2 DEF Places, Distinct
    <2>9. DepthIsWork'
        <3>1. depth \in Int /\ Cardinality(Running) \in Nat
            BY RunnersFinite DEF QueueInv, TypeOK
        <3>2. stopped \/ depth = Len(ready) + Len(delayed) + Cardinality(Running)
            BY DEF QueueInv, DepthIsWork
        <3>3. Len(ready) \in Nat /\ Len(delayed) \in Nat
            BY Parts
        <3>4. stopped \/ depth = Len(ready) + (Len(delayed) + 1) + (Cardinality(Running) - 1)
            BY <3>1, <3>2, <3>3
        <3> QED BY <1>4, <1>t, <2>3, <3>4 DEF DepthIsWork
    <2>10. TypeOK'
        <3>1. due' \in 0..Len(delayed')
            BY <1>t, <2>3, Parts
        <3> QED BY <1>1, <1>t, <1>6, <2>3, <3>1 DEF QueueInv, TypeOK, Tasks
    <2> QED BY <1>5, <2>8, <2>9, <2>10 DEF QueueInv
<1> QED BY <1>7, <1>8

(* Lemma: Take moves the first of the line into a runner's hands.           *)
LEMMA TakeStep ==
    ASSUME QueueInv, NEW p \in Runners, Take(p)
    PROVE  QueueInv'
<1> DEFINE i == Head(Promoted)
<1>1. /\ run' = [run EXCEPT ![p] = Going("running", i, <<>>)]
      /\ ready' = Tail(Promoted) /\ delayed' = SubSeq(delayed, due + 1, Len(delayed))
      /\ due' = 0
      /\ UNCHANGED <<dep, task, closed, depth, wake, empty, batch, stopped, handled, dlq, passed>>
    BY DEF Take, lastingVars
<1>2. /\ i = Line[1]
      /\ ready' \in Seq(Ids) /\ delayed' \in Seq(Ids)
      /\ Len(ready') + Len(delayed') + 1 = Len(ready) + Len(delayed)
      /\ Shifted(Line', Line)
    <2>1. ready \o SubSeq(delayed, 1, due) # <<>>
        BY DEF Take, Promoted
    <2>2. LET c == ready \o SubSeq(delayed, 1, due)
              q == SubSeq(delayed, due + 1, Len(delayed))
          IN  /\ Head(c) = (ready \o delayed)[1]
              /\ Tail(c) \in Seq(Ids) /\ q \in Seq(Ids)
              /\ Len(Tail(c)) + Len(q) + 1 = Len(ready) + Len(delayed)
              /\ Shifted(Tail(c) \o q, ready \o delayed)
        BY <2>1, Parts, LineTake
    <2> QED BY <1>1, <2>2 DEF Promoted, Line
<1> HIDE DEF i
<1>3. Line' \in Seq(Ids)
    BY <1>2, ConcatProperties DEF Line
<1>4. /\ Elements(Line') = Elements(Line) \ {i} /\ i \in Elements(Line)
      /\ Distinct(Line')
    BY <1>2, <1>3, Parts, ShiftedContents
<1>5. Queued' = Queued \ {i} /\ i \in Queued
    BY <1>4, Parts DEF Queued, Elements
<1>6. i \in Ids /\ i \notin InHand
    <2>1. i \in Ids
        BY <1>4, Parts, LenProperties DEF Elements
    <2> QED BY <1>5, <2>1 DEF QueueInv, Places
<1>7. /\ run' \in [Runners -> RunnerStates]
      /\ \A q \in Runners : q # p => run'[q] = run[q]
      /\ run'[p].pc = "running" /\ run'[p].task = i
    <2>1. Going("running", i, <<>>) \in RunnerStates
        BY <1>6 DEF Going, RunnerStates
    <2> QED BY <1>1, <2>1 DEF QueueInv, RunnersOK, Going
<1>8. p \notin Running
    BY DEF Take, Running, At, Loop
<1>9. Running' = Running \union {p}
    BY <1>7 DEF Running, At
<1>10. \A q \in Running : q \in Runners /\ q # p /\ run'[q].task = run[q].task /\ run[q].task \in InHand
    BY <1>7, <1>8 DEF Running, InHand
<1>11. InHand' = InHand \union {i}
    BY <1>7, <1>9, <1>10 DEF InHand
<1>12. \A q, r \in Running' : run'[q].task = run'[r].task => q = r
    BY <1>6, <1>7, <1>9, <1>10 DEF QueueInv, Places
<1>13. Cardinality(Running') = Cardinality(Running) + 1
    <2>1. Cardinality(Running \union {p}) = Cardinality(Running) + 1
        BY <1>8, RunnersFinite, FS_AddElement
    <2> QED BY <1>9, <2>1, Zenon
<1>14. Unfinished' = Unfinished
    BY <1>1 DEF Unfinished
<1>15. Places'
    <2>1. Queued' \union InHand' = Unfinished' /\ Queued' \intersect InHand' = {}
        BY <1>5, <1>6, <1>11, <1>14 DEF QueueInv, Places
    <2>2. InHand' \subseteq Ids
        BY <1>6, <1>11 DEF QueueInv, Places
    <2> QED BY <1>4, <1>12, <2>1, <2>2 DEF Places, Distinct
<1>16. DepthIsWork'
    <2>1. depth \in Int /\ Cardinality(Running) \in Nat /\ Len(ready') \in Nat /\ Len(delayed') \in Nat
        BY <1>2, RunnersFinite, LenProperties DEF QueueInv, TypeOK
    <2>2. Len(ready) \in Nat /\ Len(delayed) \in Nat
        BY Parts
    <2>3. stopped \/ depth = Len(ready) + Len(delayed) + Cardinality(Running)
        BY DEF QueueInv, DepthIsWork
    <2>4. stopped \/ depth = Len(ready') + Len(delayed') + (Cardinality(Running) + 1)
        BY <1>2, <2>1, <2>2, <2>3
    <2> QED BY <1>1, <1>13, <2>4 DEF DepthIsWork
<1>17. TypeOK'
    <2>1. due' \in 0..Len(delayed')
        BY <1>1, <1>2, LenProperties
    <2> QED BY <1>1, <1>2, <2>1 DEF QueueInv, TypeOK, WakeSlots
<1>18. RunnersOK'
    BY <1>1, <1>7 DEF QueueInv, RunnersOK
<1> QED BY <1>15, <1>16, <1>17, <1>18 DEF QueueInv

(* Lemma: what is in line is what is ready and what is delayed.             *)
LEMMA LineContents ==
    ASSUME QueueInv
    PROVE  Queued = Elements(ready) \union Elements(delayed)
<1>1. PICK R \in Nat, D \in Nat : R = Len(ready) /\ D = Len(delayed)
    BY Parts
<1>2. /\ DOMAIN ready = 1..R /\ DOMAIN delayed = 1..D
      /\ ready \in Seq(Ids) /\ delayed \in Seq(Ids)
    BY <1>1, Parts, LenProperties
<1>3. /\ Len(Line) = R + D
      /\ \A n \in 1..(R + D) : Line[n] = IF n <= R THEN ready[n] ELSE delayed[n - R]
    BY <1>1, <1>2, Joined DEF Line
<1>4. DOMAIN Line = 1..(R + D)
    BY <1>3, Parts, LenProperties
<1>5. ASSUME NEW n \in 1..(R + D)
      PROVE  Line[n] \in Elements(ready) \union Elements(delayed)
    <2>1. CASE n <= R
        <3>1. n \in 1..R
            BY <2>1
        <3> QED BY <1>2, <1>3, <2>1, <3>1 DEF Elements
    <2>2. CASE ~(n <= R)
        <3>1. n - R \in 1..D
            BY <2>2
        <3> QED BY <1>2, <1>3, <2>2, <3>1 DEF Elements
    <2> QED BY <2>1, <2>2
<1>6. ASSUME NEW n \in 1..R PROVE ready[n] \in Queued
    <2>1. n \in 1..(R + D) /\ n <= R
        OBVIOUS
    <2> QED BY <1>3, <1>4, <2>1 DEF Queued
<1>7. ASSUME NEW n \in 1..D PROVE delayed[n] \in Queued
    <2>1. R + n \in 1..(R + D) /\ ~(R + n <= R) /\ (R + n) - R = n
        OBVIOUS
    <2> QED BY <1>3, <1>4, <2>1 DEF Queued
<1>8. Queued \subseteq Elements(ready) \union Elements(delayed)
    BY <1>4, <1>5 DEF Queued
<1>9. Elements(ready) \subseteq Queued /\ Elements(delayed) \subseteq Queued
    BY <1>2, <1>6, <1>7 DEF Elements
<1> QED BY <1>8, <1>9

(* Lemma: an empty line.                                                    *)
LEMMA EmptyLine ==
    /\ <<>> \o <<>> = <<>> /\ DOMAIN <<>> = {} /\ Len(<<>>) = 0
    /\ \A S : <<>> \in Seq(S)
BY EmptySeq

(* Lemma: Stop finishes what is in line and leaves what is running alone.   *)
LEMMA StopStep ==
    ASSUME QueueInv, Stop
    PROVE  QueueInv'
<1>1. /\ stopped' = TRUE /\ closed' = TRUE
      /\ task' = [i \in DOMAIN task |-> IF i \in Queued THEN [task[i] EXCEPT !.done = TRUE]
                                        ELSE task[i]]
      /\ ready' = <<>> /\ delayed' = <<>> /\ due' = 0 /\ depth' = 0 /\ empty' = 1
      /\ UNCHANGED <<dep, wake, run, batch, handled, dlq, passed>>
    BY LineContents DEF Stop, Elements, lastingVars
<1>2. \A i \in DOMAIN task : task[i] \in Tasks /\ [task[i] EXCEPT !.done = TRUE] \in Tasks
    <2>1. \A i \in DOMAIN task : task[i] \in Tasks
        BY Parts, LenProperties
    <2>2. \A t \in Tasks : [t EXCEPT !.done = TRUE] \in Tasks
        BY DEF Tasks
    <2> QED BY <2>1, <2>2
<1>3. task' \in Seq(Tasks) /\ DOMAIN task' = DOMAIN task
    <2>1. task' \in [1..Len(task) -> Tasks] /\ Len(task) \in Nat
        BY <1>1, <1>2, Parts
    <2>2. task' \in Seq(Tasks)
        BY <2>1
    <2> QED BY <1>1, <2>2
<1>4. \A i \in DOMAIN task : task'[i].done <=> i \in Queued \/ task[i].done
    BY <1>1, <1>2 DEF Tasks
<1>5. Unfinished' = Unfinished \ Queued
    BY <1>3, <1>4 DEF Unfinished
<1>6. Line' = <<>> /\ Queued' = {}
    BY <1>1, EmptyLine DEF Line, Queued
<1>7. Running' = Running /\ InHand' = InHand
    BY <1>1 DEF Running, InHand, At
<1>8. Places'
    <2>1. Queued' \union InHand' = Unfinished' /\ Queued' \intersect InHand' = {}
        BY <1>5, <1>6, <1>7 DEF QueueInv, Places
    <2> QED BY <1>1, <1>6, <1>7, <2>1, EmptyLine DEF QueueInv, Places
<1>9. DepthIsWork'
    BY <1>1 DEF DepthIsWork
<1>10. RunnersOK'
    BY <1>1, <1>3, Zenon DEF QueueInv, RunnersOK
<1>11. TypeOK'
    BY <1>1, <1>3, EmptyLine DEF QueueInv, TypeOK, Tasks, WakeSlots
<1> QED BY <1>8, <1>9, <1>10, <1>11 DEF QueueInv

(* Lemma: the process ends.                                                 *)
LEMMA ExitStep ==
    ASSUME QueueInv, Exit
    PROVE  QueueInv'
<1>1. /\ stopped' = TRUE /\ closed' = TRUE
      /\ task' = <<>> /\ ready' = <<>> /\ delayed' = <<>> /\ due' = 0
      /\ depth' = 0 /\ wake' = 0 /\ empty' = 0 /\ batch' = {}
      /\ run' = [p \in Runners |-> Going("gone", NoTask, <<>>)]
      /\ UNCHANGED <<dep, handled, dlq, passed>>
    BY DEF Exit, lastingVars
<1>2. run' \in [Runners -> RunnerStates] /\ \A p \in Runners : run'[p].pc = "gone"
    BY <1>1 DEF Going, RunnerStates
<1>3. Running' = {} /\ InHand' = {}
    BY <1>2 DEF Running, InHand, At
<1>4. Line' = <<>> /\ Queued' = {} /\ Unfinished' = {}
    BY <1>1, EmptyLine DEF Line, Queued, Unfinished
<1>5. Places'
    BY <1>3, <1>4, EmptyLine DEF Places
<1>6. DepthIsWork'
    BY <1>1 DEF DepthIsWork
<1>7. RunnersOK'
    <2>1. dep' \in Deployments
        BY <1>1 DEF QueueInv, RunnersOK
    <2> QED BY <1>1, <1>2, <2>1, Zenon DEF RunnersOK
<1>8. TypeOK'
    <2>1. wake' \in 0..WakeSlots'
        BY <1>1, Parts DEF WakeSlots
    <2> QED BY <1>1, <2>1, EmptyLine DEF QueueInv, TypeOK
<1> QED BY <1>5, <1>6, <1>7, <1>8 DEF QueueInv

(* Lemma: an engine is built with an empty queue and nobody running.        *)
LEMMA InitQueueInv == Init => QueueInv
<1> SUFFICES ASSUME Init PROVE QueueInv
    OBVIOUS
<1>1. /\ dep \in Deployments /\ stopped = FALSE /\ closed = FALSE
      /\ task = <<>> /\ ready = <<>> /\ delayed = <<>> /\ due = 0
      /\ depth = 0 /\ wake = 0 /\ empty = 0 /\ batch = {}
      /\ handled = {} /\ dlq = LeftOver /\ passed = {}
    BY DEF Init
<1>2. run \in [Runners -> RunnerStates] /\ \A p \in Runners : run[p].pc # "running"
    <2> DEFINE pcs(p) == CASE p = Cycler -> "submit" [] p \in dep.pool -> "top" [] OTHER -> "gone"
    <2>1. ASSUME NEW p \in Runners
          PROVE  pcs(p) \in {"submit", "top", "gone"}
        <3>1. ~(p = Cycler /\ p \in dep.pool)
            BY <1>1, PoolAssumption, DeploymentsAssumption
        <3> QED BY <3>1
    <2>2. ASSUME NEW p \in Runners
          PROVE  Going(pcs(p), NoTask, <<>>) \in RunnerStates /\ Going(pcs(p), NoTask, <<>>).pc # "running"
        <3> HIDE DEF pcs
        <3> QED BY <2>1 DEF Going, RunnerStates
    <2>3. run = [p \in Runners |-> Going(pcs(p), NoTask, <<>>)]
        BY DEF Init
    <2> HIDE DEF pcs
    <2> QED BY <2>2, <2>3
<1>3. Running = {} /\ InHand = {}
    BY <1>2 DEF Running, InHand, At
<1>4. Line = <<>> /\ Queued = {} /\ Unfinished = {}
    BY <1>1, EmptyLine DEF Line, Queued, Unfinished
<1>5. Places
    BY <1>3, <1>4, EmptyLine DEF Places
<1>6. DepthIsWork
    <2>1. Cardinality(Running) = 0
        BY <1>3, FS_EmptySet, Zenon
    <2> QED BY <1>1, <2>1, EmptyLine DEF DepthIsWork
<1>7. RunnersOK
    BY <1>1, <1>2, Zenon DEF RunnersOK
<1>8. TypeOK
    <2>1. WakeSlots \in Nat
        BY <1>1, RunnersFinite DEF WakeSlots, Max1
    <2> QED BY <1>1, <2>1, EmptyLine DEF TypeOK, Items
<1> QED BY <1>5, <1>6, <1>7, <1>8 DEF QueueInv

(* Lemma: every step keeps QueueInv.                                        *)
LEMMA NextQueueInv == QueueInv /\ [Next]_vars => QueueInv'
<1> SUFFICES ASSUME QueueInv, [Next]_vars PROVE QueueInv'
    OBVIOUS
<1>t. /\ due \in 0..Len(delayed) /\ wake \in 0..WakeSlots /\ empty \in 0..1
      /\ batch \subseteq Ids /\ handled \subseteq Items /\ dlq \subseteq Items
      /\ passed \subseteq Items
      /\ run \in [Runners -> RunnerStates]
    BY DEF QueueInv, TypeOK, RunnersOK
<1>i. \A i \in DOMAIN task : task[i] \in Tasks /\ task[i].item \in Items /\ task[i].attempts \in 0..MaxAttempts
    <2>1. \A i \in DOMAIN task : task[i] \in Tasks
        BY Parts, LenProperties
    <2> QED BY <2>1 DEF Tasks
<1>1. ASSUME NEW p \in Runners, Runner(p) PROVE QueueInv'
    <2>0. run[p] \in RunnerStates
        BY <1>t
    <2>1. CASE Take(p)
        BY <2>1, TakeStep
    <2>2. CASE Succeed(p)
        <3>1. handled' \subseteq Items
            BY <1>t, <1>i, <2>2, PutDown, Parts DEF Succeed
        <3> QED BY <1>t, <2>2, <3>1, CompleteStep DEF Succeed
    <2>3. CASE Abandon(p)
        BY <1>t, <2>3, CompleteStep DEF Abandon, lastingVars
    <2>4. CASE Retry(p)
        BY <2>4, RetryStep
    <2>5. CASE GiveUp(p)
        <3>1. dlq' \subseteq Items
            <4>1. task[run[p].task].item \in Items
                BY <1>i, <2>5, PutDown, Parts DEF GiveUp
            <4>2. dlq' = dlq \union {task[run[p].task].item} \/ dlq' = dlq
                BY <2>5 DEF GiveUp, Kept
            <4> QED BY <1>t, <4>1, <4>2
        <3> QED BY <1>t, <2>5, <3>1, CompleteStep DEF GiveUp
    <2>6. CASE FindNothing(p)
        <3>1. run' = [run EXCEPT ![p].pc = "looking"] /\ run[p].pc = "top"
            BY <2>6 DEF FindNothing, At
        <3>2. run' \in [Runners -> RunnerStates]
            BY <1>t, <3>1 DEF RunnerStates
        <3>3. /\ run'[p].pc = "looking"
              /\ \A q \in Runners : q # p => run'[q] = run[q]
            BY <1>t, <2>0, <3>1 DEF RunnerStates
        <3> QED BY <1>t, <2>6, <3>1, <3>2, <3>3, QuietStep DEF FindNothing, queueVars, lastingVars
    <2>7. CASE Sleep(p)
        <3> DEFINE timer == IF delayed = <<>> THEN <<>>
                            ELSE <<Head(delayed), task[Head(delayed)].attempts>>
        <3>1. run' = [run EXCEPT ![p] = Going("asleep", NoTask, timer)] /\ run[p].pc = "looking"
            BY <2>7 DEF Sleep, At
        <3>2. timer \in {<<>>} \union (Ids \X (0..MaxAttempts))
            <4>1. CASE delayed = <<>>
                BY <4>1
            <4>2. CASE delayed # <<>>
                <5>1. Head(delayed) = delayed[1] /\ 1 \in DOMAIN delayed
                    BY <4>2, Parts, LenProperties
                <5>2. Head(delayed) \in Ids
                    BY <4>2, Parts, HeadTailProperties
                <5>3. Head(delayed) \in DOMAIN task
                    <6>1. Head(delayed) \in Queued
                        BY <5>1, LineContents DEF Elements
                    <6> QED BY <6>1 DEF QueueInv, Places, Unfinished
                <5> QED BY <1>i, <4>2, <5>2, <5>3
            <4> QED BY <4>1, <4>2
        <3> HIDE DEF timer
        <3>3. /\ run' \in [Runners -> RunnerStates] /\ run'[p].pc = "asleep"
              /\ \A q \in Runners : q # p => run'[q] = run[q]
            BY <1>t, <3>1, <3>2 DEF RunnerStates, Going
        <3> QED BY <1>t, <2>7, <3>1, <3>3, QuietStep DEF Sleep, queueVars, lastingVars
    <2>8. CASE Awaken(p) \/ TimerFires(p)
        <3>1. Back(p) /\ run[p].pc = "asleep"
            BY <2>8 DEF Awaken, TimerFires, At
        <3>2. Loop(p) \in {"drain", "top"}
            BY DEF Loop
        <3>3. /\ run' \in [Runners -> RunnerStates] /\ run'[p].pc = Loop(p)
              /\ \A q \in Runners : q # p => run'[q] = run[q]
            BY <1>t, <3>1, <3>2 DEF RunnerStates, Going, Back
        <3>4. wake' \in 0..WakeSlots
            BY <1>t, <2>8, Parts DEF Awaken, TimerFires, queueVars
        <3>5. UNCHANGED <<dep, task, ready, delayed, due, closed, stopped, depth, batch, empty,
                          handled, dlq, passed>>
            BY <2>8 DEF Awaken, TimerFires, queueVars, lastingVars
        <3>6. \A q \in Runners : /\ run'[q].pc = "running" <=> run[q].pc = "running"
                                 /\ run[q].pc = "running" => run'[q].task = run[q].task
            BY <3>1, <3>2, <3>3
        <3> QED BY <1>t, <3>3, <3>4, <3>5, <3>6, QuietStep
    <2>9. CASE Leave(p)
        <3>1. run' = [run EXCEPT ![p].pc = "gone"] /\ run[p].pc \in {"top", "asleep"}
            BY <2>9 DEF Leave
        <3>2. run' \in [Runners -> RunnerStates]
            BY <1>t, <3>1 DEF RunnerStates
        <3>3. /\ run'[p].pc = "gone"
              /\ \A q \in Runners : q # p => run'[q] = run[q]
            BY <1>t, <2>0, <3>1 DEF RunnerStates
        <3> QED BY <1>t, <2>9, <3>1, <3>2, <3>3, QuietStep DEF Leave, queueVars, lastingVars
    <2> QED BY <1>1, <2>1, <2>2, <2>3, <2>4, <2>5, <2>6, <2>7, <2>8, <2>9 DEF Runner, Finish
<1>2. CASE Elapse
    BY <1>t, <1>2, Parts, QuietStep DEF Elapse, lastingVars
<1>3. CASE CycleStep
    <2>1. ASSUME NEW item \in Polled, CycleSubmit(item) PROVE QueueInv'
        BY <1>t, <2>1, PushStep DEF CycleSubmit, Items, lastingVars
    <2>2. CASE CycleDrain \/ CycleWait \/ CycleCommit \/ CycleGivesUp
        <3>1. PICK pc \in {"drain", "commit", "returned"} : run' = [run EXCEPT ![Cycler].pc = pc]
            BY <2>2 DEF CycleDrain, CycleWait, CycleCommit, CycleGivesUp
        <3>2. run[Cycler].pc \in {"submit", "drain", "commit"} /\ Cycler \in Runners
            BY <2>2 DEF CycleDrain, CycleWait, CycleCommit, CycleGivesUp, At, Runners
        <3>3. /\ run' \in [Runners -> RunnerStates] /\ run'[Cycler].pc = pc
              /\ \A q \in Runners : q # Cycler => run'[q] = run[q]
            BY <1>t, <3>1, <3>2 DEF RunnerStates
        <3>4. \A q \in Runners : /\ run'[q].pc = "running" <=> run[q].pc = "running"
                                 /\ run[q].pc = "running" => run'[q].task = run[q].task
            BY <3>2, <3>3
        <3>5. /\ UNCHANGED <<dep, task, ready, delayed, due, closed, stopped, depth, wake, batch,
                             empty, handled, dlq>>
              /\ passed' = passed \/ passed' = passed \union Submitted
            BY <2>2 DEF CycleDrain, CycleWait, CycleCommit, CycleGivesUp, queueVars, lastingVars
        <3>6. passed' \subseteq Items
            <4>1. Submitted \subseteq Items
                BY <1>i DEF Submitted, QueueInv, RunnersOK
            <4> QED BY <1>t, <3>5, <4>1
        <3> QED BY <1>t, <3>3, <3>4, <3>5, <3>6, QuietStep
    <2> QED BY <1>3, <2>1, <2>2 DEF CycleStep
<1>4. ASSUME NEW item \in Hooked, Hook(item) PROVE QueueInv'
    BY <1>t, <1>4, PushStep DEF Hook, Items, lastingVars
<1>5. ASSUME NEW x \in Waiters, Idle(x) PROVE QueueInv'
    <2>1. empty' \in 0..1
        BY <1>t, <1>5 DEF Idle, IdleLook, IdleToken, IdleGivesUp, queueVars
    <2>2. UNCHANGED <<dep, task, ready, delayed, due, closed, stopped, depth, wake, batch,
                      run, handled, dlq, passed>>
        BY <1>5 DEF Idle, IdleLook, IdleToken, IdleGivesUp, queueVars, lastingVars
    <2> QED BY <1>t, <2>1, <2>2, QuietStep
<1>6. ASSUME NEW item \in LeftOver, Replay(item) PROVE QueueInv'
    BY <1>t, <1>6, PushStep DEF Replay, Items
<1>7. CASE Cancel
    BY <1>t, <1>7, QuietStep DEF Cancel, queueVars, lastingVars
<1>8. CASE Stop
    BY <1>8, StopStep
<1>9. CASE Exit
    BY <1>9, ExitStep
<1>10. CASE UNCHANGED vars
    BY <1>t, <1>10, QuietStep DEF vars, queueVars, lastingVars
<1> QED BY <1>1, <1>2, <1>3, <1>4, <1>5, <1>6, <1>7, <1>8, <1>9, <1>10 DEF Next

-----------------------------------------------------------------------------
(* Theorem: whatever the pool, the retries, the webhooks, Stop and the end  *)
(* of the context do, a task is in line once, in one runner's hands or      *)
(* finished, and until Stop the depth counts the first two.                 *)
THEOREM WorkQueueInvariant == Spec => []QueueInv
<1> QED BY InitQueueInv, NextQueueInv, PTL DEF Spec

(* Theorem: no task is run by two runners, queued twice, or run again after *)
(* its handle was released.                                                 *)
THEOREM TaskInOnePlace == Spec => []OnePlace
<1>1. QueueInv => OnePlace
    <2> SUFFICES ASSUME QueueInv, NEW i \in DOMAIN task
                 PROVE  Cardinality({n \in DOMAIN ready : ready[n] = i})
                          + Cardinality({n \in DOMAIN delayed : delayed[n] = i})
                          + Cardinality({p \in Running : run[p].task = i})
                        = IF task[i].done THEN 0 ELSE 1
        BY DEF OnePlace
    <2> DEFINE A == {n \in DOMAIN ready : ready[n] = i}
               B == {n \in DOMAIN delayed : delayed[n] = i}
               C == {p \in Running : run[p].task = i}
    <2>1. PICK R \in Nat, D \in Nat : R = Len(ready) /\ D = Len(delayed)
        BY Parts
    <2>2. /\ DOMAIN ready = 1..R /\ DOMAIN delayed = 1..D
          /\ ready \in Seq(Ids) /\ delayed \in Seq(Ids)
        BY <2>1, Parts, LenProperties
    <2>3. /\ Len(Line) = R + D
          /\ \A n \in 1..(R + D) : Line[n] = IF n <= R THEN ready[n] ELSE delayed[n - R]
        BY <2>1, <2>2, Joined DEF Line
    <2>4. DOMAIN Line = 1..(R + D)
        BY <2>3, Parts, LenProperties
    <2>5. \A m, n \in 1..(R + D) : Line[m] = Line[n] => m = n
        BY <2>4 DEF QueueInv, Places
    <2>6. \A n \in 1..R : n \in 1..(R + D) /\ Line[n] = ready[n]
        BY <2>3
    <2>7. \A n \in 1..D : R + n \in 1..(R + D) /\ Line[R + n] = delayed[n]
        <3> TAKE n \in 1..D
        <3>1. R + n \in 1..(R + D) /\ ~(R + n <= R) /\ (R + n) - R = n
            OBVIOUS
        <3> QED BY <2>3, <3>1
    <2>8. \A m, n \in 1..R : ready[m] = ready[n] => m = n
        BY <2>5, <2>6
    <2>9. \A m, n \in 1..D : delayed[m] = delayed[n] => m = n
        <3> SUFFICES ASSUME NEW m \in 1..D, NEW n \in 1..D, delayed[m] = delayed[n]
                     PROVE  m = n
            OBVIOUS
        <3>1. R + m = R + n
            BY <2>5, <2>7
        <3> QED BY <3>1
    <2>10. \A m \in 1..R, n \in 1..D : ready[m] # delayed[n]
        <3> SUFFICES ASSUME NEW m \in 1..R, NEW n \in 1..D, ready[m] = delayed[n]
                     PROVE  FALSE
            OBVIOUS
        <3>1. m = R + n
            BY <2>5, <2>6, <2>7
        <3> QED BY <3>1
    <2>11. /\ \A m, n \in A : m = n
           /\ \A m, n \in B : m = n
           /\ \A p, q \in C : p = q
        BY <2>2, <2>8, <2>9 DEF QueueInv, Places
    <2>12. i \in Queued <=> A # {} \/ B # {}
        BY LineContents DEF Elements
    <2>13. i \in InHand <=> C # {}
        BY DEF InHand
    <2>14. i \in Unfinished <=> ~task[i].done
        BY DEF Unfinished
    <2>15. A = {} \/ B = {}
        BY <2>2, <2>10
    <2>16. /\ (A = {} /\ B = {} /\ C = {}) \/ ~task[i].done
           /\ ~task[i].done => \/ A # {} /\ B = {} /\ C = {}
                               \/ A = {} /\ B # {} /\ C = {}
                               \/ A = {} /\ B = {} /\ C # {}
        BY <2>12, <2>13, <2>14, <2>15 DEF QueueInv, Places
    <2>17. ASSUME NEW S, \A x, y \in S : x = y
           PROVE  Cardinality(S) = IF S = {} THEN 0 ELSE 1
        <3>1. CASE S = {}
            BY <3>1, FS_EmptySet
        <3>2. CASE S # {}
            <4>1. PICK x : x \in S
                BY <3>2
            <4>2. S = {x}
                BY <2>17, <4>1
            <4>3. Cardinality(S) = 1
                BY <4>2, FS_Singleton, Zenon
            <4> QED BY <3>2, <4>3
        <3> QED BY <3>1, <3>2
    <2>18. /\ Cardinality(A) = IF A = {} THEN 0 ELSE 1
           /\ Cardinality(B) = IF B = {} THEN 0 ELSE 1
           /\ Cardinality(C) = IF C = {} THEN 0 ELSE 1
        <3> HIDE DEF A, B, C
        <3> QED BY <2>11, <2>17
    <2>19. task[i].done \/ ~task[i].done
        OBVIOUS
    <2>20. Cardinality(A) + Cardinality(B) + Cardinality(C) = IF task[i].done THEN 0 ELSE 1
        <3> HIDE DEF A, B, C
        <3>1. CASE A = {} /\ B = {} /\ C = {}
            <4>1. task[i].done
                BY <2>16, <3>1
            <4>2. Cardinality(A) = 0 /\ Cardinality(B) = 0 /\ Cardinality(C) = 0
                BY <2>18, <3>1
            <4> QED BY <4>1, <4>2
        <3>2. CASE ~(A = {} /\ B = {} /\ C = {})
            <4>1. ~task[i].done
                BY <2>16, <3>2
            <4>2. \/ Cardinality(A) = 1 /\ Cardinality(B) = 0 /\ Cardinality(C) = 0
                  \/ Cardinality(A) = 0 /\ Cardinality(B) = 1 /\ Cardinality(C) = 0
                  \/ Cardinality(A) = 0 /\ Cardinality(B) = 0 /\ Cardinality(C) = 1
                BY <2>16, <2>18, <4>1
            <4> QED BY <4>1, <4>2
        <3> QED BY <3>1, <3>2
    <2> QED BY <2>20
<1> QED BY <1>1, WorkQueueInvariant, PTL

(* Theorem: until Stop the depth that WaitIdle looks at is the number of    *)
(* tasks queued or in flight.                                               *)
THEOREM DepthCountsWork == Spec => []DepthIsWork
<1>1. QueueInv => DepthIsWork
    BY DEF QueueInv
<1> QED BY <1>1, WorkQueueInvariant, PTL

-----------------------------------------------------------------------------
(* Lemma: only the end of the process makes the cycle's goroutine go.       *)
LEMMA CyclerStays ==
    ASSUME QueueInv, Next, ~Exit
    PROVE  At(Cycler, "gone")' <=> At(Cycler, "gone")
<1>t. run \in [Runners -> RunnerStates] /\ Cycler \in Runners /\ Cycler \notin Pool
    BY PoolAssumption DEF QueueInv, RunnersOK, Runners
<1>1. ASSUME NEW p \in Runners, Runner(p)
      PROVE  At(Cycler, "gone")' <=> At(Cycler, "gone")
    <2>1. CASE Take(p)
        <3>1. run' = [run EXCEPT ![p] = Going("running", Head(Promoted), <<>>)] /\ run[p].pc # "gone"
            BY <2>1 DEF Take, At, Loop
        <3> QED BY <1>t, <3>1 DEF At, Going
    <2>2. CASE Finish(p) \/ Awaken(p) \/ TimerFires(p)
        <3>1. Back(p) /\ run[p].pc # "gone"
            BY <2>2 DEF Finish, Succeed, Abandon, Retry, GiveUp, Awaken, TimerFires, At
        <3>2. Loop(p) # "gone"
            BY DEF Loop
        <3> QED BY <1>t, <3>1, <3>2 DEF At, Going, Back
    <2>3. CASE FindNothing(p) \/ Leave(p)
        BY <1>t, <2>3 DEF FindNothing, Leave, At
    <2>4. CASE Sleep(p)
        <3> DEFINE timer == IF delayed = <<>> THEN <<>>
                            ELSE <<Head(delayed), task[Head(delayed)].attempts>>
        <3>1. run' = [run EXCEPT ![p] = Going("asleep", NoTask, timer)] /\ run[p].pc = "looking"
            BY <2>4 DEF Sleep, At
        <3> HIDE DEF timer
        <3> QED BY <1>t, <3>1 DEF At, Going
    <2> QED BY <1>1, <2>1, <2>2, <2>3, <2>4 DEF Runner
<1>2. CASE CycleStep
    <2>1. ASSUME NEW item \in Polled, CycleSubmit(item) PROVE UNCHANGED run
        BY <2>1 DEF CycleSubmit
    <2>2. CASE CycleDrain \/ CycleWait \/ CycleCommit \/ CycleGivesUp
        <3>1. PICK pc \in {"drain", "commit", "returned"} : run' = [run EXCEPT ![Cycler].pc = pc]
            BY <2>2 DEF CycleDrain, CycleWait, CycleCommit, CycleGivesUp
        <3>2. run[Cycler].pc # "gone"
            BY <2>2 DEF CycleDrain, CycleWait, CycleCommit, CycleGivesUp, At
        <3> QED BY <1>t, <3>1, <3>2 DEF At, RunnerStates
    <2> QED BY <1>2, <2>1, <2>2 DEF CycleStep, At
<1>3. CASE UNCHANGED run
    BY <1>3 DEF At
<1>4. ASSUME NEW x \in Waiters, Idle(x) PROVE UNCHANGED run
    BY <1>4 DEF Idle, IdleLook, IdleToken, IdleGivesUp
<1>5. CASE Elapse \/ (\E item \in Hooked : Hook(item)) \/ (\E item \in LeftOver : Replay(item))
           \/ Cancel \/ Stop
    BY <1>3, <1>5 DEF Elapse, Hook, Replay, Cancel, Stop
<1> QED BY <1>1, <1>2, <1>3, <1>4, <1>5 DEF Next

Mark == Settled /\ MarkBehindWork

(* Lemma: a step that moves no mark, submits nothing and releases handles   *)
(* only of what it has handled or kept, or of what is abandoned.            *)
LEMMA MarkStands ==
    ASSUME QueueInv, Mark, UNCHANGED <<passed, batch>>,
           DOMAIN task' = DOMAIN task, \A i \in DOMAIN task : task'[i].item = task[i].item,
           handled \subseteq handled', dlq \intersect Polled \subseteq dlq',
           ~Abandoned' => ~Abandoned,
           ~stopped' /\ ~cancelled' =>
             /\ ~stopped /\ ~cancelled
             /\ \A i \in DOMAIN task : task'[i].done =>
                  task[i].done \/ task[i].item \in handled' \union dlq'
    PROVE  Mark'
<1>1. MarkBehindWork'
    <2> SUFFICES ASSUME ~Abandoned' PROVE passed' \subseteq handled' \union dlq'
        BY DEF MarkBehindWork
    <2>1. passed \subseteq handled \union dlq /\ passed \subseteq Polled
        BY DEF Mark, Settled, MarkBehindWork
    <2> QED BY <2>1
<1>2. batch \subseteq DOMAIN task
    BY DEF QueueInv, RunnersOK
<1>3. (\A i \in batch : task[i].item \in Polled) /\ passed \subseteq Polled
    BY DEF Mark, Settled
<1>4. ASSUME ~stopped', ~cancelled', NEW i \in DOMAIN task, task'[i].done, task[i].item \in Polled
      PROVE  task[i].item \in handled' \union dlq'
    <2>1. CASE task[i].done
        BY <1>4, <2>1 DEF Mark, Settled
    <2>2. CASE ~task[i].done
        BY <1>4, <2>2
    <2> QED BY <2>1, <2>2
<1> QED BY <1>1, <1>2, <1>3, <1>4 DEF Mark, Settled

(* Lemma: submitting leaves the mark behind the work.                       *)
LEMMA MarkPush ==
    ASSUME QueueInv, Mark, NEW item, Push(item), UNCHANGED <<run, stopped, cancelled, passed, handled>>,
           dlq \intersect Polled \subseteq dlq',
           batch' = batch \/ (batch' = batch \union {Len(task) + 1} /\ item \in Polled)
    PROVE  Mark'
<1> DEFINE i == Len(task) + 1
           new == [item |-> item, attempts |-> 0, done |-> closed]
<1>1. /\ DOMAIN task' = DOMAIN task \union {i} /\ i \notin DOMAIN task
      /\ \A j \in DOMAIN task : task'[j] = task[j]
      /\ task'[i].item = item /\ task'[i].done = closed
    <2>1. task' = Append(task, new)
        BY DEF Push
    <2>2. /\ task \in Seq(Tasks \union {new}) /\ new \in Tasks \union {new}
        BY Parts
    <2> HIDE DEF new
    <2>3. /\ task' \in Seq(Tasks \union {new}) /\ Len(task') = Len(task) + 1
          /\ \A j \in 1..Len(task) : task'[j] = task[j]
          /\ task'[Len(task) + 1] = new
        BY <2>1, <2>2, AppendProperties
    <2>4. DOMAIN task' = 1..(Len(task) + 1)
        BY <2>3, LenProperties
    <2>5. new.item = item /\ new.done = closed
        BY DEF new
    <2> QED BY <2>3, <2>4, <2>5, Parts
<1>2. MarkBehindWork'
    <2>1. Abandoned' <=> Abandoned
        BY DEF Abandoned, At
    <2> QED BY <2>1 DEF Mark, Settled, MarkBehindWork
<1>3. closed = stopped /\ batch \subseteq DOMAIN task
    BY DEF QueueInv, RunnersOK
<1>4. \A j \in batch' : task'[j].item \in Polled
    BY <1>1, <1>3 DEF Mark, Settled
<1>5. ASSUME ~stopped, ~cancelled, NEW j \in DOMAIN task', task'[j].done, task'[j].item \in Polled
      PROVE  task'[j].item \in handled' \union dlq'
    <2>1. ~closed
        BY <1>3, <1>5
    <2>2. j \in DOMAIN task /\ task'[j] = task[j]
        BY <1>1, <1>5, <2>1
    <2> QED BY <1>5, <2>2 DEF Mark, Settled
<1> QED BY <1>2, <1>4, <1>5 DEF Mark, Settled

(* Lemma: every step leaves the mark behind the work, when dead letters are *)
(* written and what is replayed is not what the cycle polls.                *)
LEMMA NextMark ==
    ASSUME StoreFails = FALSE, Polled \intersect LeftOver = {},
           QueueInv, Mark, [Next]_vars
    PROVE  Mark'
<1>c. \A i \in DOMAIN task : task[i] \in Tasks
    BY Parts, LenProperties
<1>a. ASSUME Next, ~Exit, stopped => stopped', cancelled => cancelled', ~Abandoned' PROVE ~Abandoned
    BY <1>a, CyclerStays DEF Abandoned
<1>1. ASSUME NEW p \in Runners, Runner(p) PROVE Mark'
    <2>n. Next
        BY <1>1 DEF Next
    <2>0. UNCHANGED <<passed, batch, stopped, cancelled>>
        BY <1>1 DEF Runner, Take, Finish, Succeed, Abandon, Retry, GiveUp, FindNothing, Sleep,
                    Awaken, TimerFires, Leave, queueVars, lastingVars
    <2>e. ~Exit
        BY <2>0 DEF Exit
    <2>a. ~Abandoned' => ~Abandoned
        BY <1>a, <2>n, <2>0, <2>e
    <2>1. CASE Succeed(p) \/ Abandon(p) \/ GiveUp(p)
        <3> DEFINE i == run[p].task
        <3>1. i \in DOMAIN task /\ task' = [task EXCEPT ![i].done = TRUE]
            <4>1. At(p, "running") /\ Back(p) /\ task' = [task EXCEPT ![i].done = TRUE]
                BY <2>1 DEF Succeed, Abandon, GiveUp, Complete
            <4> QED BY <4>1, PutDown, Parts
        <3>2. /\ DOMAIN task' = DOMAIN task
              /\ \A j \in DOMAIN task : task'[j].item = task[j].item
              /\ \A j \in DOMAIN task : j # i => task'[j].done = task[j].done
            BY <1>c, <3>1 DEF Tasks
        <3>3. handled \subseteq handled' /\ dlq \subseteq dlq'
            BY <2>1 DEF Succeed, Abandon, GiveUp, Kept, lastingVars
        <3>4. ~cancelled => task[i].item \in handled' \union dlq'
            BY <2>1 DEF Succeed, Abandon, GiveUp, Kept
        <3> HIDE DEF i
        <3>5. ASSUME ~stopped', ~cancelled', NEW j \in DOMAIN task, task'[j].done
              PROVE  task[j].done \/ task[j].item \in handled' \union dlq'
            BY <2>0, <3>2, <3>4, <3>5
        <3> QED BY <2>0, <2>a, <3>2, <3>3, <3>5, MarkStands
    <2>2. CASE Retry(p)
        <3> DEFINE i == run[p].task
        <3>1. i \in DOMAIN task /\ task' = [task EXCEPT ![i].attempts = @ + 1, ![i].done = closed]
            <4>1. /\ At(p, "running") /\ Back(p)
                  /\ task' = [task EXCEPT ![i].attempts = @ + 1, ![i].done = closed]
                BY <2>2 DEF Retry, Requeue, Requeued
            <4> QED BY <4>1, PutDown, Parts
        <3>2. /\ DOMAIN task' = DOMAIN task
              /\ \A j \in DOMAIN task : task'[j].item = task[j].item
              /\ \A j \in DOMAIN task : j # i => task'[j].done = task[j].done
              /\ task'[i].done = closed
            BY <1>c, <3>1 DEF Tasks
        <3>3. UNCHANGED <<handled, dlq>>
            BY <2>2 DEF Retry, lastingVars
        <3>4. closed = stopped
            BY DEF QueueInv, RunnersOK
        <3> HIDE DEF i
        <3>5. ASSUME ~stopped', ~cancelled', NEW j \in DOMAIN task, task'[j].done
              PROVE  task[j].done
            <4>1. ~closed
                BY <2>0, <3>4, <3>5
            <4> QED BY <3>2, <3>5, <4>1
        <3> QED BY <2>0, <2>a, <3>2, <3>3, <3>5, MarkStands
    <2>3. CASE Take(p) \/ FindNothing(p) \/ Sleep(p) \/ Awaken(p) \/ TimerFires(p) \/ Leave(p)
        <3>1. UNCHANGED <<task, handled, dlq>>
            BY <2>3 DEF Take, FindNothing, Sleep, Awaken, TimerFires, Leave, queueVars, lastingVars
        <3> QED BY <2>0, <2>a, <3>1, MarkStands
    <2> QED BY <1>1, <2>1, <2>2, <2>3 DEF Runner, Finish
<1>2. CASE Elapse \/ Cancel \/ (\E x \in Waiters : Idle(x)) \/ CycleDrain \/ CycleWait
           \/ CycleGivesUp
    <2>1. /\ UNCHANGED <<task, handled, dlq, passed, batch, stopped>>
          /\ cancelled => cancelled'
        BY <1>2 DEF Elapse, Cancel, Idle, IdleLook, IdleToken, IdleGivesUp, CycleDrain, CycleWait,
                    CycleGivesUp, queueVars, lastingVars
    <2>2. Next
        BY <1>2 DEF Next, CycleStep
    <2>3. ~Exit
        BY <2>1 DEF Exit
    <2>4. ~Abandoned' => ~Abandoned
        BY <1>a, <2>1, <2>2, <2>3
    <2> QED BY <2>1, <2>4, MarkStands
<1>3. ASSUME NEW item \in Polled, CycleSubmit(item) PROVE Mark'
    <2>1. /\ Push(item) /\ UNCHANGED <<run, stopped, cancelled, passed, handled, dlq>>
          /\ batch' = batch \union {Len(task) + 1}
        BY <1>3 DEF CycleSubmit, lastingVars
    <2> QED BY <2>1, MarkPush
<1>4. ASSUME NEW item \in Hooked, Hook(item) PROVE Mark'
    <2>1. Push(item) /\ UNCHANGED <<run, stopped, cancelled, passed, handled, dlq, batch>>
        BY <1>4 DEF Hook, lastingVars
    <2> QED BY <2>1, MarkPush
<1>5. ASSUME NEW item \in LeftOver, Replay(item) PROVE Mark'
    <2>1. /\ Push(item) /\ UNCHANGED <<run, stopped, cancelled, passed, handled, batch>>
          /\ dlq' = dlq \ {item}
        BY <1>5 DEF Replay
    <2>2. dlq \intersect Polled \subseteq dlq'
        BY <1>5, <2>1
    <2> QED BY <2>1, <2>2, MarkPush
<1>6. CASE CycleCommit
    <2>1. /\ At(Cycler, "commit") /\ (\A i \in batch : task[i].done)
          /\ passed' = passed \union Submitted
          /\ UNCHANGED <<task, batch, stopped, cancelled, handled, dlq>>
        BY <1>6 DEF CycleCommit, queueVars
    <2>2. batch \subseteq DOMAIN task
        BY DEF QueueInv, RunnersOK
    <2>3. Submitted \subseteq Polled
        BY DEF Submitted, Mark, Settled
    <2>4. ~stopped /\ ~cancelled => Submitted \subseteq handled \union dlq
        BY <2>1, <2>2 DEF Submitted, Mark, Settled
    <2>5. ~Abandoned => ~stopped /\ ~cancelled
        BY <2>1 DEF Abandoned, At
    <2>6. ~Abandoned' => ~Abandoned
        <3>1. Next
            BY <1>6 DEF Next, CycleStep
        <3>2. ~Exit
            BY <2>1 DEF Exit
        <3> QED BY <1>a, <2>1, <3>1, <3>2
    <2>7. MarkBehindWork'
        BY <2>1, <2>4, <2>5, <2>6 DEF Mark, MarkBehindWork
    <2> QED BY <2>1, <2>3, <2>7 DEF Mark, Settled
<1>7. CASE Stop
    <2>1. /\ stopped' = TRUE /\ UNCHANGED <<run, cancelled, batch, handled, dlq, passed>>
          /\ task' = [i \in DOMAIN task |-> IF i \in Queued THEN [task[i] EXCEPT !.done = TRUE]
                                            ELSE task[i]]
        BY <1>7, LineContents DEF Stop, Elements, lastingVars
    <2>2. DOMAIN task' = DOMAIN task /\ \A i \in DOMAIN task : task'[i].item = task[i].item
        BY <1>c, <2>1 DEF Tasks
    <2>3. ~Abandoned' => ~Abandoned
        BY <2>1 DEF Abandoned, At
    <2> QED BY <2>1, <2>2, <2>3, MarkStands
<1>8. CASE Exit
    <2>1. /\ ~stopped /\ stopped' = TRUE /\ batch' = {} /\ task' = <<>>
          /\ UNCHANGED <<cancelled, handled, dlq, passed>>
        BY <1>8 DEF Exit, lastingVars
    <2>2. ~Abandoned' => ~Abandoned
        BY <2>1 DEF Abandoned
    <2> QED BY <2>1, <2>2 DEF Mark, Settled, MarkBehindWork
<1>9. CASE UNCHANGED vars
    <2>1. UNCHANGED <<task, run, handled, dlq, passed, batch, stopped, cancelled>>
        BY <1>9 DEF vars, queueVars, lastingVars
    <2>2. ~Abandoned' => ~Abandoned
        BY <2>1 DEF Abandoned, At
    <2> QED BY <2>1, <2>2, MarkStands
<1> QED BY <1>1, <1>2, <1>3, <1>4, <1>5, <1>6, <1>7, <1>8, <1>9 DEF Next, CycleStep

(* Theorem: as long as dead letters can be written and nobody replays what  *)
(* the cycle is polling, a released handle means that its item was          *)
(* processed or kept, unless work was abandoned.                            *)
THEOREM ReleasedMeansSettled ==
    ASSUME StoreFails = FALSE, Polled \intersect LeftOver = {}
    PROVE  Spec => []IInv
<1>1. Init => Mark
    <2> SUFFICES ASSUME Init PROVE Mark
        OBVIOUS
    <2>1. task = <<>> /\ batch = {} /\ passed = {}
        BY DEF Init
    <2> QED BY <2>1 DEF Mark, Settled, MarkBehindWork
<1>2. QueueInv /\ Mark /\ [Next]_vars => Mark'
    BY NextMark
<1>3. QueueInv /\ Mark => IInv
    BY DEF Mark, IInv
<1> QED BY <1>1, <1>2, <1>3, WorkQueueInvariant, PTL DEF Spec

(* Theorem: on the same conditions the watermark never passes an item that  *)
(* is neither processed nor kept, wherever the process ends and however     *)
(* webhooks, retries and workers interleave with the cycle.                 *)
THEOREM MarkStaysBehind ==
    ASSUME StoreFails = FALSE, Polled \intersect LeftOver = {}
    PROVE  Spec => []MarkBehindWork
<1>1. IInv => MarkBehindWork
    BY DEF IInv
<1> QED BY <1>1, ReleasedMeansSettled, PTL
=============================================================================
