------------------------ MODULE IdentityIndexProofs ------------------------
(***************************************************************************)
(* Proofs about the key index of internal/identity/identity.go: for any     *)
(* records, keys and calls, an indexed record is found, and a key finds     *)
(* nothing else, provided that one goroutine indexes at a time or that      *)
(* records have no key in common.                                           *)
(***************************************************************************)
EXTENDS IdentityIndex, TLAPS

-----------------------------------------------------------------------------
(* The store.                                                               *)

(* Lemma: rows of different kinds, keys and records are different rows.     *)
LEMMA RowsDiffer ==
    /\ \A k \in Keys : KeyRow(k) \in IndexRows
    /\ \A r \in Recs : OwnerRow(r) \in IndexRows
    /\ \A k, l : KeyRow(k) = KeyRow(l) => k = l
    /\ \A r, q : OwnerRow(r) = OwnerRow(q) => r = q
    /\ \A k, r : KeyRow(k) # OwnerRow(r)
BY DEF KeyRow, OwnerRow, IndexRows

(* Lemma: Put and Delete change the row they are given and no other, in a   *)
(* dry run as well, and a dry run leaves the real store alone.              *)
LEMMA RowWritten ==
    ASSUME StoreOK, NEW row \in IndexRows, NEW v \in (SUBSET Recs) \union (SUBSET Keys),
           (v # {} /\ Put(row, v)) \/ (v = {} /\ Delete(row))
    PROVE  /\ StoreOK' /\ dry' = dry /\ (dry => base' = base)
           /\ View'[row] = v
           /\ \A o \in IndexRows \ {row} : View'[o] = View[o]
<1>1. dry' = dry /\ (dry => base' = base)
    BY DEF Put, Delete
<1>2. StoreOK'
    <2>1. {} \in (SUBSET Recs) \union (SUBSET Keys)
        OBVIOUS
    <2> QED BY <2>1 DEF StoreOK, Put, Delete, Empty
<1>3. \A o \in IndexRows : View[o] = Get(o) /\ View'[o] = Get(o)'
    BY DEF View
<1>4. CASE dry
    BY <1>1, <1>3, <1>4 DEF StoreOK, Put, Delete, Get, OverlayGet
<1>5. CASE ~dry
    BY <1>1, <1>3, <1>5 DEF StoreOK, Put, Delete, Get, OverlayGet
<1> QED BY <1>1, <1>2, <1>4, <1>5

(* Lemma: outside a dry run a caller sees the real store.                   *)
LEMMA ViewIsBase ==
    ASSUME StoreOK, ~dry
    PROVE  View = base
BY DEF StoreOK, View, Get

(* Lemma: what is seen depends on the store alone.                          *)
LEMMA ViewSame ==
    ASSUME StoreOK, UNCHANGED storeVars
    PROVE  View' = View /\ StoreOK'
<1>1. \A row \in IndexRows : Get(row)' = Get(row)
    BY DEF storeVars, Get, OverlayGet
<1> QED BY <1>1 DEF storeVars, View, StoreOK, Empty

-----------------------------------------------------------------------------
(* The calls.                                                               *)

(* Lemma: two goroutines that work on one key work on one record.           *)
LEMMA KeyIsOwn ==
    ASSUME Unshared(setting), NEW c \in setting.callers, NEW d \in setting.callers, c # d,
           job[c].rec \in Recs, job[d].rec \in Recs,
           NEW k, k \in KeysOf(job[c].rec), k \in KeysOf(job[d].rec)
    PROVE  job[c].rec = job[d].rec
<1>1. \A r, q \in Recs :
        r # q => (UNION setting.bodies[r]) \intersect (UNION setting.bodies[q]) = {}
    BY DEF Unshared
<1>2. ASSUME job[c].rec # job[d].rec
      PROVE  (UNION setting.bodies[job[c].rec]) \intersect (UNION setting.bodies[job[d].rec]) = {}
    BY <1>1, <1>2
<1>3. k \in (UNION setting.bodies[job[c].rec]) \intersect (UNION setting.bodies[job[d].rec])
    BY DEF KeysOf
<1> QED BY <1>2, <1>3

(* Lemma: the keys a record may have are keys.                              *)
LEMMA KeysOfType ==
    ASSUME setting \in Settings, NEW r \in Recs
    PROVE  KeysOf(r) \subseteq Keys
BY SettingsAssumption DEF KeysOf

(* Lemma: the calls after a step of one of them.                            *)
LEMMA OneCall ==
    ASSUME CallsOK, UNCHANGED setting, NEW c \in setting.callers,
           NEW j \in Calls, CallOK(j), job' = [job EXCEPT ![c] = j]
    PROVE  /\ CallsOK'
           /\ job'[c] = j
           /\ \A d \in setting.callers \ {c} : job'[d] = job[d]
<1>1. job'[c] = j /\ \A d \in setting.callers \ {c} : job'[d] = job[d]
    BY DEF CallsOK
<1>2. job' \in [setting.callers -> Calls]
    BY DEF CallsOK
<1>3. \A d \in setting.callers : CallOK(job[d])' <=> CallOK(job'[d])
    BY DEF CallOK, KeysOf, Resting
<1>4. \A d \in setting.callers : CallOK(job'[d])
    BY <1>1 DEF CallsOK
<1> QED BY <1>1, <1>2, <1>3, <1>4 DEF CallsOK

(* Lemma: a step that is not the start or the end of a dry run leaves the   *)
(* real store, and what was indexed in it, as they were.                    *)
LEMMA BaseStays ==
    ASSUME BaseSettled, UNCHANGED <<setting, dry, kept>>, dry => base' = base
    PROVE  BaseSettled'
<1>1. CASE ~dry
    BY <1>1 DEF BaseSettled
<1>2. CASE dry
    BY <1>2 DEF BaseSettled, RowsOK, HoldersOf, KeysOf, Placed, Exact
<1> QED BY <1>1, <1>2

(* Lemma: a call that has returned is at rest.                              *)
LEMMA RestingCall == Resting \in Calls /\ CallOK(Resting)
BY DEF Resting, Calls, CallOK

(* Lemma: a call that starts is known to the others on its record, and a    *)
(* record in the index is in its owner row or about to be.                  *)
LEMMA CallIInv ==
    ASSUME IInv, \A s \in Settings : Unshared(s),
           NEW c \in setting.callers, NEW r \in Recs, NEW ks \in SUBSET Keys, Call(c, r, ks)
    PROVE  IInv'
<1> DEFINE j == [Resting EXCEPT !.pc = "owner", !.rec = r, !.holds = ks]
<1>1. /\ job[c].pc = "idle" /\ ks \in setting.bodies[r] \union {{}}
      /\ setting.stale \/ \A d \in setting.callers : job[d].rec = r => job[d].holds = ks
      /\ job' = [job EXCEPT ![c] = j]
      /\ UNCHANGED <<storeVars, setting, held, torn, kept>>
    BY DEF Call
<1>2. /\ j.pc = "owner" /\ j.rec = r /\ j.holds = ks /\ j.todo = {} /\ j.key = NoRec /\ j.entry = {}
      /\ j \in Calls
    BY DEF Resting, Calls
<1>3. CallOK(j)
    BY <1>1, <1>2 DEF CallOK, KeysOf
<1> HIDE DEF j
<1>4. CallsOK' /\ job'[c] = j /\ \A d \in setting.callers \ {c} : job'[d] = job[d]
    BY <1>1, <1>2, <1>3, OneCall DEF IInv
<1>5. View' = View /\ StoreOK'
    BY <1>1, ViewSame DEF IInv
<1>6. BaseSettled'
    BY <1>1, BaseStays DEF IInv, storeVars
<1>7. RowsOK(View)'
    BY <1>1, <1>5 DEF IInv, RowsOK, HoldersOf, KeysOf
<1>8. \A d \in setting.callers : job[d].rec = r => job[d].holds = ks
    BY <1>1 DEF IInv, CallsOK, Unshared
<1>9. SameBody'
    BY <1>1, <1>2, <1>4, <1>8 DEF IInv, SameBody
<1>10. EntryStands'
    BY <1>1, <1>2, <1>4, <1>5 DEF IInv, EntryStands
<1>11. \A d \in setting.callers : \A k : WillAdd(d, k) => d # c /\ WillAdd(d, k)'
    BY <1>1, <1>4 DEF WillAdd
<1>12. \A k : WillAdd(c, k)'
    BY <1>2, <1>4 DEF WillAdd
<1>13. Promised'
    BY <1>1, <1>2, <1>4, <1>5, <1>11, <1>12 DEF IInv, Promised
<1>14. Indexing \ {NoRec} \subseteq Indexing' /\ r \in Indexing'
    <2>1. job[c].rec = NoRec
        BY <1>1 DEF IInv, CallsOK, CallOK, Resting
    <2> QED BY <1>1, <1>2, <1>4, <2>1 DEF Indexing
<1>15. Settled'
    BY <1>1, <1>5, <1>14, NoRecAssumption DEF IInv, Settled, Placed, Exact
<1>16. ASSUME ~torn PROVE Releasing'
    <2>1. ASSUME NEW k \in Keys, r \in View[KeyRow(k)]
          PROVE  k \in ks \union View[OwnerRow(r)]
        <3>1. CASE r \in Indexing
            <4>1. PICK d \in setting.callers : job[d].rec = r
                BY <3>1 DEF Indexing
            <4>2. job[d].pc # "idle"
                BY <4>1, NoRecAssumption DEF IInv, CallsOK, CallOK, Resting
            <4> QED BY <1>8, <1>16, <2>1, <4>1, <4>2 DEF IInv, Releasing
        <3>2. CASE r \notin Indexing
            BY <1>16, <2>1, <3>2 DEF IInv, Settled, Exact
        <3> QED BY <3>1, <3>2
    <2>2. ToRelease(c)' = Keys
        BY <1>2, <1>4 DEF ToRelease
    <2>3. \A d \in setting.callers \ {c} : ToRelease(d)' = ToRelease(d)
        BY <1>4 DEF ToRelease
    <2> QED BY <1>1, <1>2, <1>4, <1>5, <1>16, <2>1, <2>2, <2>3 DEF IInv, Releasing
<1> QED BY <1>1, <1>4, <1>5, <1>6, <1>7, <1>9, <1>10, <1>13, <1>15, <1>16 DEF IInv

(* Lemma: reading a key row, what was read of it stands.                    *)
LEMMA LoadKeyIInv ==
    ASSUME IInv, NEW c \in setting.callers, NEW k \in Keys, LoadKey(c, k)
    PROVE  IInv'
<1> DEFINE entry == View[KeyRow(k)]
           there == job[c].pc = "add" /\ job[c].rec \in entry
           j == Loaded(job[c], k, entry)
<1>1. Get(KeyRow(k)) = entry
    BY RowsDiffer DEF View
<1>2. /\ job[c].pc \in {"drop", "add"} /\ k \in job[c].todo
      /\ job' = [job EXCEPT ![c] = j]
      /\ UNCHANGED <<storeVars, setting, held, torn, kept>>
    BY <1>1 DEF LoadKey
<1>3. job[c] \in Calls /\ job[c].rec \in Recs /\ CallOK(job[c]) /\ setting \in Settings
    BY <1>2 DEF IInv, CallsOK, CallOK
<1>4. entry \subseteq Recs
    BY DEF IInv, RowsOK, HoldersOf
<1>5. /\ j.rec = job[c].rec /\ j.holds = job[c].holds /\ j.todo = job[c].todo \ {k}
      /\ there => j.pc = "add"
      /\ ~there => j.pc = (IF job[c].pc = "drop" THEN "dropping" ELSE "adding")
                   /\ j.key = k /\ j.entry = entry
    BY <1>3 DEF Loaded, Calls
<1>6. j \in Calls
    <2> HIDE DEF entry
    <2> QED BY <1>2, <1>3, <1>4 DEF Loaded, Calls
<1> HIDE DEF j
<1>7. CallOK(j)
    BY <1>2, <1>3, <1>5 DEF CallOK
<1>8. CallsOK' /\ job'[c] = j /\ \A d \in setting.callers \ {c} : job'[d] = job[d]
    BY <1>2, <1>6, <1>7, OneCall DEF IInv
<1>9. View' = View /\ StoreOK'
    BY <1>2, ViewSame DEF IInv
<1>10. BaseSettled' /\ RowsOK(View)'
    BY <1>2, <1>9, BaseStays DEF IInv, storeVars, RowsOK, HoldersOf, KeysOf
<1>11. SameBody'
    BY <1>2, <1>5, <1>8 DEF IInv, SameBody
<1>12. EntryStands'
    BY <1>2, <1>5, <1>8, <1>9 DEF IInv, EntryStands
<1>13. Promised'
    <2>1. \A d \in setting.callers : \A l : WillAdd(d, l) =>
            WillAdd(d, l)' \/ (d = c /\ l = k /\ job[c].rec \in View[KeyRow(k)])
        BY <1>2, <1>5, <1>8 DEF WillAdd
    <2>2. \A d \in setting.callers : /\ job'[d].rec = job[d].rec /\ job'[d].holds = job[d].holds
                                     /\ job'[d].pc # "idle" => job[d].pc # "idle"
        BY <1>2, <1>5, <1>8
    <2> QED BY <1>2, <1>9, <2>1, <2>2 DEF IInv, Promised
<1>14. Settled'
    <2>1. Indexing' = Indexing
        BY <1>2, <1>5, <1>8 DEF Indexing
    <2> QED BY <1>2, <1>9, <2>1 DEF IInv, Settled, Placed, Exact
<1>15. ASSUME ~torn PROVE Releasing'
    <2>1. ToRelease(c)' = ToRelease(c)
        BY <1>2, <1>5, <1>8 DEF ToRelease
    <2>2. \A d \in setting.callers \ {c} : ToRelease(d)' = ToRelease(d)
        BY <1>8 DEF ToRelease
    <2> QED BY <1>2, <1>5, <1>8, <1>9, <1>15, <2>1, <2>2 DEF IInv, Releasing
<1> QED BY <1>2, <1>8, <1>9, <1>10, <1>11, <1>12, <1>13, <1>14, <1>15 DEF IInv

(* Lemma: writing a key row moves the record of the call and no other.      *)
LEMMA SaveKeyIInv ==
    ASSUME IInv, \A s \in Settings : Unshared(s), NEW c \in setting.callers, SaveKey(c)
    PROVE  IInv'
<1> DEFINE r == job[c].rec
           k == job[c].key
           new == IF job[c].pc = "adding" THEN job[c].entry \union {r} ELSE job[c].entry \ {r}
           j == [job[c] EXCEPT !.pc = IF @ = "dropping" THEN "drop" ELSE "add",
                               !.key = NoRec, !.entry = {}]
<1>1. /\ job[c].pc \in {"dropping", "adding"}
      /\ Save(k, new)
      /\ job' = [job EXCEPT ![c] = j]
      /\ UNCHANGED <<setting, held, torn, kept>>
    <2>1. job' = [job EXCEPT ![c] = j] /\ UNCHANGED <<setting, held, torn, kept>>
        BY DEF SaveKey
    <2>2. \/ job[c].pc = "dropping" /\ Save(k, job[c].entry \ {r})
          \/ job[c].pc = "adding" /\ Save(k, job[c].entry \union {r})
        BY DEF SaveKey, Added
    <2> QED BY <2>1, <2>2
<1>2. /\ job[c] \in Calls /\ CallOK(job[c]) /\ setting \in Settings
      /\ r \in Recs /\ k \in KeysOf(r) /\ k \in Keys
    BY <1>1, KeysOfType DEF IInv, CallsOK, CallOK
<1>3. /\ new \subseteq HoldersOf(k) /\ new \subseteq Recs
      /\ new \ {r} = View[KeyRow(k)] \ {r}
      /\ r \in new <=> job[c].pc = "adding"
    <2>1. job[c].entry \ {r} = View[KeyRow(k)] \ {r}
        BY <1>1 DEF IInv, EntryStands
    <2>2. View[KeyRow(k)] \subseteq HoldersOf(k) /\ r \in HoldersOf(k)
        BY <1>2 DEF IInv, RowsOK, HoldersOf
    <2> QED BY <2>1, <2>2 DEF HoldersOf
<1>4. /\ j.rec = r /\ j.holds = job[c].holds /\ j.todo = job[c].todo
      /\ j.pc = (IF job[c].pc = "dropping" THEN "drop" ELSE "add")
    BY <1>2 DEF Calls
<1>5. j \in Calls
    BY <1>1, <1>2 DEF Calls
<1> HIDE DEF j, new
<1>6. CallOK(j)
    BY <1>1, <1>2, <1>4 DEF CallOK
<1>7. CallsOK' /\ job'[c] = j /\ \A d \in setting.callers \ {c} : job'[d] = job[d]
    BY <1>1, <1>5, <1>6, OneCall DEF IInv
<1>8. /\ StoreOK' /\ dry' = dry /\ (dry => base' = base)
      /\ View'[KeyRow(k)] = new
      /\ \A o \in IndexRows \ {KeyRow(k)} : View'[o] = View[o]
    <2>1. KeyRow(k) \in IndexRows
        BY <1>2, RowsDiffer
    <2>2. new \in (SUBSET Recs) \union (SUBSET Keys)
        BY <1>3
    <2>3. (new # {} /\ Put(KeyRow(k), new)) \/ (new = {} /\ Delete(KeyRow(k)))
        BY <1>1 DEF Save
    <2> HIDE DEF k
    <2> QED BY <2>1, <2>2, <2>3, RowWritten DEF IInv
<1>9. /\ \A q \in Recs : View'[OwnerRow(q)] = View[OwnerRow(q)]
      /\ \A l \in Keys : l # k => View'[KeyRow(l)] = View[KeyRow(l)]
      /\ View'[KeyRow(k)] = new
    BY <1>8, RowsDiffer
<1>10. \A q, l : l \in Keys /\ (q # r \/ l # k) => (q \in View'[KeyRow(l)] <=> q \in View[KeyRow(l)])
    BY <1>3, <1>9
<1>11. BaseSettled'
    BY <1>1, <1>8, BaseStays DEF IInv
<1>12. RowsOK(View)'
    <2>1. \A l \in Keys : View'[KeyRow(l)] \subseteq HoldersOf(l)
        BY <1>3, <1>9 DEF IInv, RowsOK
    <2>2. \A q \in Recs : View'[OwnerRow(q)] \subseteq KeysOf(q)
        BY <1>9 DEF IInv, RowsOK
    <2> QED BY <1>1, <2>1, <2>2 DEF RowsOK, HoldersOf, KeysOf
<1>13. SameBody'
    BY <1>1, <1>4, <1>7 DEF IInv, SameBody
<1>14. EntryStands'
    <2> SUFFICES ASSUME NEW d \in setting.callers, job'[d].pc \in {"dropping", "adding"}
                 PROVE  job'[d].entry \ {job'[d].rec} = View'[KeyRow(job'[d].key)] \ {job'[d].rec}
        BY <1>1 DEF EntryStands
    <2>1. d # c /\ job'[d] = job[d]
        BY <1>1, <1>4, <1>7
    <2>2. job[d].rec \in Recs /\ job[d].key \in KeysOf(job[d].rec) /\ job[d].key \in Keys
        BY <1>2, <2>1, KeysOfType DEF IInv, CallsOK, CallOK
    <2>3. job[d].entry \ {job[d].rec} = View[KeyRow(job[d].key)] \ {job[d].rec}
        BY <2>1 DEF IInv, EntryStands
    <2>4. CASE job[d].key = k
        <3>1. job[d].rec = r
            BY <1>2, <2>1, <2>2, <2>4, KeyIsOwn
        <3> QED BY <1>3, <1>9, <2>1, <2>3, <2>4, <3>1
    <2>5. CASE job[d].key # k
        BY <1>9, <2>1, <2>2, <2>3, <2>5
    <2> QED BY <2>4, <2>5
<1>15. Promised'
    <2> SUFFICES ASSUME NEW d \in setting.callers, job'[d].pc # "idle", NEW l \in job'[d].holds,
                        job'[d].rec \notin View'[KeyRow(l)]
                 PROVE  \E e \in setting.callers : job'[e].rec = job'[d].rec /\ WillAdd(e, l)'
        BY <1>1 DEF Promised
    <2>1. /\ job'[d].rec = job[d].rec /\ job'[d].holds = job[d].holds /\ job[d].pc # "idle"
          /\ l \in Keys
        BY <1>1, <1>4, <1>7 DEF IInv, CallsOK, Calls
    <2>2. CASE job[d].rec \in View[KeyRow(l)]
        <3>1. job[d].rec = r /\ l = k /\ job[c].pc = "dropping"
            BY <1>1, <1>3, <1>9, <1>10, <2>1, <2>2
        <3> QED BY <1>4, <1>7, <2>1, <3>1 DEF WillAdd
    <2>3. CASE job[d].rec \notin View[KeyRow(l)]
        <3>1. PICK e \in setting.callers : job[e].rec = job[d].rec /\ WillAdd(e, l)
            BY <2>1, <2>3 DEF IInv, Promised
        <3>2. CASE e # c
            BY <1>7, <2>1, <3>1, <3>2 DEF WillAdd
        <3>3. CASE e = c
            <4>1. ~(job[c].pc = "adding" /\ l = k)
                BY <1>3, <1>9, <2>1, <3>1, <3>3
            <4> QED BY <1>1, <1>4, <1>7, <2>1, <3>1, <3>3, <4>1 DEF WillAdd
        <3> QED BY <3>2, <3>3
    <2> QED BY <2>2, <2>3
<1>16. Settled'
    <2>1. Indexing' = Indexing /\ r \in Indexing
        BY <1>1, <1>4, <1>7 DEF Indexing
    <2>2. \A q \in Recs \ Indexing : \A l \in Keys : q \in View'[KeyRow(l)] <=> q \in View[KeyRow(l)]
        BY <1>10, <2>1
    <2>3. \A q \in Recs : held[q] \subseteq Keys
        BY DEF IInv
    <2> QED BY <1>1, <1>9, <2>1, <2>2, <2>3 DEF IInv, Settled, Placed, Exact
<1>17. ASSUME ~torn PROVE Releasing'
    <2> SUFFICES ASSUME NEW d \in setting.callers, job'[d].pc # "idle", NEW l \in Keys,
                        job'[d].rec \in View'[KeyRow(l)]
                 PROVE  l \in job'[d].holds
                          \union (View'[OwnerRow(job'[d].rec)] \intersect ToRelease(d)')
        BY <1>1 DEF Releasing
    <2>1. /\ job'[d].rec = job[d].rec /\ job'[d].holds = job[d].holds /\ job[d].pc # "idle"
          /\ job[d].rec \in Recs
        BY <1>1, <1>4, <1>7 DEF IInv, CallsOK, CallOK
    <2>2. CASE job[d].rec = r /\ l = k
        <3>1. job[c].pc = "adding"
            BY <1>3, <1>9, <2>1, <2>2
        <3>2. k \in job[c].holds /\ job[c].holds = job[d].holds
            BY <1>2, <2>2, <3>1 DEF IInv, SameBody, CallOK
        <3> QED BY <2>1, <2>2, <3>2
    <2>3. CASE job[d].rec # r \/ l # k
        <3>1. job[d].rec \in View[KeyRow(l)]
            BY <1>10, <2>1, <2>3
        <3>2. l \in job[d].holds \union (View[OwnerRow(job[d].rec)] \intersect ToRelease(d))
            BY <1>17, <2>1, <3>1 DEF IInv, Releasing
        <3>3. l \in ToRelease(d) => l \in ToRelease(d)'
            <4>1. CASE d = c
                <5>1. l # k
                    BY <2>3, <4>1
                <5> QED BY <1>1, <1>4, <1>7, <4>1, <5>1 DEF ToRelease
            <4>2. CASE d # c
                BY <1>7, <4>2 DEF ToRelease
            <4> QED BY <4>1, <4>2
        <3> QED BY <1>9, <2>1, <3>2, <3>3
    <2> QED BY <2>2, <2>3
<1> QED BY <1>1, <1>7, <1>8, <1>11, <1>12, <1>13, <1>14, <1>15, <1>16, <1>17 DEF IInv

\* IInv without the parts that are about the store alone.
CallsInv ==
    /\ CallsOK /\ held \in [Recs -> SUBSET Keys] /\ torn \in BOOLEAN
    /\ SameBody /\ RowsOK(View) /\ EntryStands /\ Promised
    /\ ~torn => Releasing
    /\ Settled

\* Caller c has released what it had to, and its owner row becomes keys.
OwnerSet(c, keys) ==
    /\ \A k \in Keys : View'[KeyRow(k)] = View[KeyRow(k)]
    /\ \A q \in Recs \ {job[c].rec} : View'[OwnerRow(q)] = View[OwnerRow(q)]
    /\ View'[OwnerRow(job[c].rec)] = keys
    /\ ~torn => \A k \in Keys : job[c].rec \in View[KeyRow(k)] => k \in job[c].holds

(* Lemma: the last call on a record to return leaves it where it was told.  *)
LEMMA ReturnIInv ==
    ASSUME IInv, NEW c \in setting.callers, job[c].pc # "idle", OwnerSet(c, job[c].holds),
           \A k \in job[c].holds : ~WillAdd(c, k), Return(c), UNCHANGED <<setting, torn>>
    PROVE  CallsInv'
<1> DEFINE r == job[c].rec
<1>1. /\ job' = [job EXCEPT ![c] = Resting]
      /\ held' = [held EXCEPT ![r] = job[c].holds]
      /\ setting' = setting /\ torn' = torn
    BY DEF Return
<1>2. /\ r \in Recs /\ job[c].holds \subseteq KeysOf(r) /\ job[c].holds \subseteq Keys
      /\ setting \in Settings
    BY KeysOfType DEF IInv, CallsOK, CallOK
<1>3. /\ Resting.pc = "idle" /\ Resting.rec = NoRec /\ Resting.holds = {}
      /\ NoRec \notin Recs
    BY NoRecAssumption DEF Resting
<1>4. CallsOK' /\ job'[c] = Resting /\ \A d \in setting.callers \ {c} : job'[d] = job[d]
    BY <1>1, RestingCall, OneCall DEF IInv
<1>5. /\ held' \in [Recs -> SUBSET Keys] /\ held'[r] = job[c].holds
      /\ \A q \in Recs \ {r} : held'[q] = held[q]
    BY <1>1, <1>2 DEF IInv
<1>6. \A d \in setting.callers : job[d].rec = NoRec => job[d].holds = {}
    BY <1>3 DEF IInv, CallsOK, CallOK
<1>7. SameBody'
    <2>1. \A d \in setting.callers :
            \/ job'[d].rec = NoRec /\ job'[d].holds = {}
            \/ job'[d].rec = job[d].rec /\ job'[d].holds = job[d].holds
        BY <1>3, <1>4
    <2>2. SameBody
        BY DEF IInv
    <2> SUFFICES ASSUME NEW d \in setting.callers, NEW e \in setting.callers,
                        job'[d].rec = job'[e].rec
                 PROVE  job'[d].holds = job'[e].holds
        BY <1>1 DEF SameBody
    <2>3. CASE job'[d].rec = NoRec
        <3>1. job'[d].holds = {} /\ job'[e].holds = {}
            BY <1>6, <2>1, <2>3
        <3> QED BY <3>1
    <2>4. CASE job'[d].rec # NoRec
        <3>1. /\ job[d].rec = job[e].rec
              /\ job'[d].holds = job[d].holds /\ job'[e].holds = job[e].holds
            BY <2>1, <2>4
        <3>2. job[d].holds = job[e].holds
            BY <2>2, <3>1 DEF SameBody
        <3> QED BY <3>1, <3>2
    <2> QED BY <2>3, <2>4
<1>8. RowsOK(View)'
    <2>1. \A l \in Keys : View'[KeyRow(l)] \subseteq HoldersOf(l)
        BY DEF IInv, RowsOK, OwnerSet
    <2>2. \A q \in Recs : View'[OwnerRow(q)] \subseteq KeysOf(q)
        BY <1>2 DEF IInv, RowsOK, OwnerSet
    <2> QED BY <1>1, <2>1, <2>2 DEF RowsOK, HoldersOf, KeysOf
<1>9. EntryStands'
    <2> SUFFICES ASSUME NEW d \in setting.callers, job'[d].pc \in {"dropping", "adding"}
                 PROVE  job'[d].entry \ {job'[d].rec} = View'[KeyRow(job'[d].key)] \ {job'[d].rec}
        BY <1>1 DEF EntryStands
    <2>1. job'[d] = job[d]
        BY <1>3, <1>4
    <2>2. job[d].key \in Keys
        BY <1>2, <2>1, KeysOfType DEF IInv, CallsOK, CallOK
    <2> QED BY <2>1, <2>2 DEF IInv, EntryStands, OwnerSet
<1>10. Promised'
    <2> SUFFICES ASSUME NEW d \in setting.callers, job'[d].pc # "idle", NEW l \in job'[d].holds,
                        job'[d].rec \notin View'[KeyRow(l)]
                 PROVE  \E e \in setting.callers : job'[e].rec = job'[d].rec /\ WillAdd(e, l)'
        BY <1>1 DEF Promised
    <2>1. d # c /\ job'[d] = job[d] /\ l \in Keys
        BY <1>3, <1>4 DEF IInv, CallsOK, Calls
    <2>2. PICK e \in setting.callers : job[e].rec = job[d].rec /\ WillAdd(e, l)
        BY <2>1 DEF IInv, Promised, OwnerSet
    <2>3. e # c
        BY <2>1, <2>2 DEF IInv, SameBody
    <2> QED BY <1>4, <2>1, <2>2, <2>3 DEF WillAdd
<1>11. Settled'
    <2> SUFFICES ASSUME NEW q \in Recs, q \notin Indexing'
                 PROVE  Placed(q, View, held[q])' /\ (~torn => Exact(q, View, held[q])')
        BY <1>1 DEF Settled
    <2>1. \A d \in setting.callers \ {c} : job[d].rec # q
        BY <1>1, <1>4 DEF Indexing
    <2>2. CASE q = r
        <3>1. ASSUME NEW k \in job[c].holds PROVE r \in View'[KeyRow(k)]
            <4>1. \A d \in setting.callers : job[d].rec = r => ~WillAdd(d, k)
                BY <2>1, <2>2, <3>1
            <4> QED BY <1>2, <4>1 DEF IInv, Promised, OwnerSet
        <3> QED BY <1>5, <2>2, <3>1 DEF Placed, Exact, OwnerSet
    <2>3. CASE q # r
        <3>1. q \notin Indexing
            BY <2>1, <2>3 DEF Indexing
        <3>2. held[q] \subseteq Keys /\ held'[q] = held[q]
            BY <1>5, <2>3 DEF IInv
        <3> QED BY <2>3, <3>1, <3>2 DEF IInv, Settled, Placed, Exact, OwnerSet
    <2> QED BY <2>2, <2>3
<1>12. ASSUME ~torn PROVE Releasing'
    <2> SUFFICES ASSUME NEW d \in setting.callers, job'[d].pc # "idle", NEW l \in Keys,
                        job'[d].rec \in View'[KeyRow(l)]
                 PROVE  l \in job'[d].holds
                          \union (View'[OwnerRow(job'[d].rec)] \intersect ToRelease(d)')
        BY <1>1 DEF Releasing
    <2>1. job'[d] = job[d] /\ job[d].rec \in Recs
        BY <1>3, <1>4 DEF IInv, CallsOK, CallOK
    <2>2. job[d].rec \in View[KeyRow(l)]
        BY <2>1 DEF OwnerSet
    <2>3. CASE job[d].rec = r
        BY <1>12, <2>1, <2>2, <2>3 DEF IInv, SameBody, OwnerSet
    <2>4. CASE job[d].rec # r
        <3>1. ToRelease(d)' = ToRelease(d)
            BY <2>1 DEF ToRelease
        <3> QED BY <1>12, <2>1, <2>2, <2>4, <3>1 DEF IInv, Releasing, OwnerSet
    <2> QED BY <2>3, <2>4
<1> QED BY <1>1, <1>4, <1>5, <1>7, <1>8, <1>9, <1>10, <1>11, <1>12 DEF IInv, CallsInv

(* Lemma: a call that has released the old keys promises the new ones.      *)
LEMMA AddIInv ==
    ASSUME IInv, NEW c \in setting.callers, job[c].pc \in {"owner", "drop"}, job[c].holds # {},
           OwnerSet(c, {}),
           job' = [job EXCEPT ![c].pc = "add", ![c].todo = job[c].holds],
           UNCHANGED <<setting, held, torn>>
    PROVE  CallsInv'
<1> DEFINE r == job[c].rec
           j == [job[c] EXCEPT !.pc = "add", !.todo = job[c].holds]
<1>1. job[c] \in Calls /\ CallOK(job[c]) /\ r \in Recs /\ setting \in Settings
    BY DEF IInv, CallsOK, CallOK
<1>2. /\ j \in Calls /\ j.pc = "add" /\ j.rec = r
      /\ j.holds = job[c].holds /\ j.todo = job[c].holds
    BY <1>1 DEF Calls
<1>3. job' = [job EXCEPT ![c] = j]
    BY DEF IInv, CallsOK
<1> HIDE DEF j
<1>4. CallOK(j)
    BY <1>1, <1>2 DEF CallOK
<1>5. CallsOK' /\ job'[c] = j /\ \A d \in setting.callers \ {c} : job'[d] = job[d]
    BY <1>2, <1>3, <1>4, OneCall DEF IInv
<1>6. SameBody'
    <2>1. \A d \in setting.callers : job'[d].rec = job[d].rec /\ job'[d].holds = job[d].holds
        BY <1>2, <1>5
    <2>2. SameBody
        BY DEF IInv
    <2> SUFFICES ASSUME NEW d \in setting.callers, NEW e \in setting.callers,
                        job'[d].rec = job'[e].rec
                 PROVE  job'[d].holds = job'[e].holds
        BY DEF SameBody
    <2>3. job[d].rec = job[e].rec
        BY <2>1
    <2>4. job[d].holds = job[e].holds
        BY <2>2, <2>3 DEF SameBody
    <2> QED BY <2>1, <2>4
<1>7. RowsOK(View)'
    <2>1. \A l \in Keys : View'[KeyRow(l)] \subseteq HoldersOf(l)
        BY DEF IInv, RowsOK, OwnerSet
    <2>2. \A q \in Recs : View'[OwnerRow(q)] \subseteq KeysOf(q)
        BY DEF IInv, RowsOK, OwnerSet
    <2> QED BY <2>1, <2>2 DEF RowsOK, HoldersOf, KeysOf
<1>8. EntryStands'
    <2> SUFFICES ASSUME NEW d \in setting.callers, job'[d].pc \in {"dropping", "adding"}
                 PROVE  job'[d].entry \ {job'[d].rec} = View'[KeyRow(job'[d].key)] \ {job'[d].rec}
        BY DEF EntryStands
    <2>1. job'[d] = job[d]
        BY <1>2, <1>5
    <2>2. job[d].key \in Keys
        BY <1>1, <2>1, KeysOfType DEF IInv, CallsOK, CallOK
    <2> QED BY <2>1, <2>2 DEF IInv, EntryStands, OwnerSet
<1>9. \A d \in setting.callers : /\ job'[d].rec = job[d].rec /\ job'[d].holds = job[d].holds
                                 /\ job'[d].pc # "idle" => job[d].pc # "idle"
    BY <1>2, <1>5
<1>10. Promised'
    <2> SUFFICES ASSUME NEW d \in setting.callers, job'[d].pc # "idle", NEW l \in job'[d].holds,
                        job'[d].rec \notin View'[KeyRow(l)]
                 PROVE  \E e \in setting.callers : job'[e].rec = job'[d].rec /\ WillAdd(e, l)'
        BY DEF Promised
    <2>1. l \in job[d].holds /\ job[d].pc # "idle" /\ l \in Keys
        BY <1>9 DEF IInv, CallsOK, Calls
    <2>2. PICK e \in setting.callers : job[e].rec = job[d].rec /\ WillAdd(e, l)
        BY <1>9, <2>1 DEF IInv, Promised, OwnerSet
    <2>3. CASE e = c
        <3>1. l \in job[c].holds
            BY <2>1, <2>2, <2>3 DEF IInv, SameBody
        <3> QED BY <1>2, <1>5, <1>9, <2>2, <2>3, <3>1 DEF WillAdd
    <2>4. CASE e # c
        BY <1>5, <1>9, <2>2, <2>4 DEF WillAdd
    <2> QED BY <2>3, <2>4
<1>11. Settled'
    <2>1. Indexing' = Indexing /\ r \in Indexing
        <3>1. \A d \in setting.callers : job'[d].rec = job[d].rec
            BY <1>9
        <3>2. Indexing' = {job'[d].rec : d \in setting.callers}
            BY DEF Indexing
        <3>3. {job'[d].rec : d \in setting.callers} = {job[d].rec : d \in setting.callers}
            BY <3>1
        <3>4. Indexing' = Indexing
            BY Zenon, <3>2, <3>3 DEF Indexing
        <3>5. r \in Indexing
            BY DEF Indexing
        <3> QED BY <3>4, <3>5
    <2>2. \A q \in Recs : held[q] \subseteq Keys
        BY DEF IInv
    <2> QED BY <2>1, <2>2 DEF IInv, Settled, Placed, Exact, OwnerSet
<1>12. ASSUME ~torn PROVE Releasing'
    <2> SUFFICES ASSUME NEW d \in setting.callers, job'[d].pc # "idle", NEW l \in Keys,
                        job'[d].rec \in View'[KeyRow(l)]
                 PROVE  l \in job'[d].holds
                          \union (View'[OwnerRow(job'[d].rec)] \intersect ToRelease(d)')
        BY DEF Releasing
    <2>1. job[d].rec \in View[KeyRow(l)] /\ job[d].pc # "idle" /\ job[d].rec \in Recs
        BY <1>9 DEF IInv, CallsOK, CallOK, OwnerSet
    <2>2. CASE job[d].rec = r
        BY <1>9, <1>12, <2>1, <2>2 DEF IInv, SameBody, OwnerSet
    <2>3. CASE job[d].rec # r
        <3>1. job'[d] = job[d] /\ ToRelease(d)' = ToRelease(d)
            BY <1>5, <2>3 DEF ToRelease
        <3> QED BY <1>12, <2>1, <2>3, <3>1 DEF IInv, Releasing, OwnerSet
    <2> QED BY <2>2, <2>3
<1> QED BY <1>5, <1>6, <1>7, <1>8, <1>10, <1>11, <1>12 DEF IInv, CallsInv

(* Lemma: IInv from the calls' part and the store's.                        *)
LEMMA CallsAndStore ==
    ASSUME CallsInv', StoreOK', BaseSettled'
    PROVE  IInv'
BY DEF CallsInv, IInv

(* Lemma: reading the owner row tells all that has to be released.          *)
LEMMA ReadOwnerIInv ==
    ASSUME IInv, NEW c \in setting.callers, ReadOwner(c)
    PROVE  IInv'
<1> DEFINE r == job[c].rec
           keys == View[OwnerRow(r)]
<1>1. /\ job[c].pc = "owner"
      /\ job[c] \in Calls /\ CallOK(job[c]) /\ r \in Recs /\ setting \in Settings
    BY DEF ReadOwner, IInv, CallsOK, CallOK
<1>2. Get(OwnerRow(r)) = keys
    BY <1>1, RowsDiffer DEF View
<1>3. UNCHANGED <<storeVars, setting, torn, kept>>
    BY DEF ReadOwner
<1>4. View' = View /\ StoreOK'
    BY <1>3, ViewSame DEF IInv
<1>5. BaseSettled'
    BY <1>3, BaseStays DEF IInv, storeVars
<1>6. ~torn => \A k \in Keys : r \in View[KeyRow(k)] => k \in job[c].holds \union keys
    BY <1>1 DEF IInv, Releasing
<1>7. CASE keys = {}
    <2>1. Released(c)
        BY <1>2, <1>7 DEF ReadOwner
    <2>2. OwnerSet(c, {})
        BY <1>4, <1>6, <1>7 DEF OwnerSet
    <2>3. CASE job[c].holds = {}
        <3>1. Return(c)
            BY <2>1, <2>3 DEF Released
        <3>2. OwnerSet(c, job[c].holds) /\ \A k \in job[c].holds : ~WillAdd(c, k)
            BY <2>2, <2>3
        <3>3. CallsInv'
            BY <1>1, <1>3, <3>1, <3>2, ReturnIInv
        <3> QED BY <1>4, <1>5, <3>3, CallsAndStore
    <2>4. CASE job[c].holds # {}
        <3>1. job' = [job EXCEPT ![c].pc = "add", ![c].todo = job[c].holds] /\ held' = held
            BY <2>1, <2>4 DEF Released
        <3>2. CallsInv'
            BY <1>1, <1>3, <2>2, <2>4, <3>1, AddIInv
        <3> QED BY <1>4, <1>5, <3>2, CallsAndStore
    <2> QED BY <2>3, <2>4
<1>8. CASE keys # {}
    <2> DEFINE j == [job[c] EXCEPT !.pc = "drop", !.todo = keys]
    <2>1. job' = [job EXCEPT ![c].pc = "drop", ![c].todo = keys] /\ held' = held
        BY <1>2, <1>8 DEF ReadOwner
    <2>2. keys \subseteq KeysOf(r) /\ keys \subseteq Keys
        BY <1>1, KeysOfType DEF IInv, RowsOK
    <2>3. job' = [job EXCEPT ![c] = j]
        BY <2>1 DEF IInv, CallsOK
    <2> HIDE DEF keys
    <2>4. /\ j \in Calls /\ j.pc = "drop" /\ j.rec = r /\ j.holds = job[c].holds /\ j.todo = keys
        BY <1>1, <2>2 DEF Calls
    <2> HIDE DEF j
    <2>5. CallOK(j)
        BY <1>1, <2>2, <2>4 DEF CallOK
    <2>6. CallsOK' /\ job'[c] = j /\ \A d \in setting.callers \ {c} : job'[d] = job[d]
        BY <1>3, <2>3, <2>4, <2>5, OneCall DEF IInv
    <2>7. \A d \in setting.callers : /\ job'[d].rec = job[d].rec /\ job'[d].holds = job[d].holds
                                     /\ job'[d].pc # "idle" => job[d].pc # "idle"
        BY <1>1, <2>4, <2>6
    <2>8. SameBody' /\ EntryStands' /\ RowsOK(View)'
        <3>1. SameBody'
            BY <1>3, <2>7 DEF IInv, SameBody
        <3>2. EntryStands'
            BY <1>3, <1>4, <2>4, <2>6 DEF IInv, EntryStands
        <3>3. RowsOK(View)'
            BY <1>3, <1>4 DEF IInv, RowsOK, HoldersOf, KeysOf
        <3> QED BY <3>1, <3>2, <3>3
    <2>9. Promised'
        <3>1. \A d \in setting.callers : \A l : WillAdd(d, l) => WillAdd(d, l)'
            BY <2>4, <2>6 DEF WillAdd
        <3> QED BY <1>3, <1>4, <2>7, <3>1 DEF IInv, Promised
    <2>10. Settled'
        <3>1. Indexing' = Indexing
            BY <1>3, <2>7 DEF Indexing
        <3> QED BY <1>3, <1>4, <2>1, <3>1 DEF IInv, Settled, Placed, Exact
    <2>11. ASSUME ~torn PROVE Releasing'
        <3>1. ToRelease(c)' = keys
            BY <2>4, <2>6 DEF ToRelease
        <3>2. \A d \in setting.callers \ {c} : ToRelease(d)' = ToRelease(d)
            BY <2>6 DEF ToRelease
        <3>3. \A k \in Keys : r \in View[KeyRow(k)] => k \in job[c].holds \union keys
            BY <1>6, <2>11
        <3>4. keys = View[OwnerRow(r)]
            BY DEF keys
        <3> QED BY <1>3, <1>4, <2>4, <2>6, <2>11, <3>1, <3>2, <3>3, <3>4 DEF IInv, Releasing
    <2>12. held' \in [Recs -> SUBSET Keys] /\ torn' \in BOOLEAN /\ (~torn' => ~torn)
        BY <1>3, <2>1 DEF IInv
    <2> QED BY <1>4, <1>5, <2>6, <2>8, <2>9, <2>10, <2>11, <2>12 DEF IInv
<1> QED BY <1>7, <1>8

(* Lemma: the owner row goes when nothing of it is left to release.         *)
LEMMA DropOwnerIInv ==
    ASSUME IInv, NEW c \in setting.callers, DropOwner(c)
    PROVE  IInv'
<1> DEFINE r == job[c].rec
<1>1. /\ job[c].pc = "drop" /\ job[c].todo = {} /\ Delete(OwnerRow(r)) /\ Released(c)
      /\ UNCHANGED <<setting, torn, kept>>
    BY DEF DropOwner
<1>2. r \in Recs /\ OwnerRow(r) \in IndexRows
    BY <1>1, RowsDiffer DEF IInv, CallsOK, CallOK
<1>3. /\ StoreOK' /\ dry' = dry /\ (dry => base' = base)
      /\ View'[OwnerRow(r)] = {}
      /\ \A o \in IndexRows \ {OwnerRow(r)} : View'[o] = View[o]
    <2>1. {} \in (SUBSET Recs) \union (SUBSET Keys) /\ StoreOK
        BY DEF IInv
    <2> HIDE DEF r
    <2> QED BY <1>1, <1>2, <2>1, RowWritten
<1>4. BaseSettled'
    BY <1>1, <1>3, BaseStays DEF IInv
<1>5. OwnerSet(c, {})
    <2>1. ToRelease(c) = {}
        BY <1>1 DEF ToRelease
    <2>2. ~torn => \A k \in Keys : r \in View[KeyRow(k)] => k \in job[c].holds
        BY <1>1, <2>1 DEF IInv, Releasing
    <2> QED BY <1>2, <1>3, <2>2, RowsDiffer DEF OwnerSet
<1>6. CASE job[c].holds = {}
    <2>1. Return(c)
        BY <1>1, <1>6 DEF Released
    <2>2. OwnerSet(c, job[c].holds) /\ \A k \in job[c].holds : ~WillAdd(c, k)
        BY <1>5, <1>6
    <2>3. CallsInv'
        BY <1>1, <2>1, <2>2, ReturnIInv
    <2> QED BY <1>3, <1>4, <2>3, CallsAndStore
<1>7. CASE job[c].holds # {}
    <2>1. job' = [job EXCEPT ![c].pc = "add", ![c].todo = job[c].holds] /\ held' = held
        BY <1>1, <1>7 DEF Released
    <2>2. CallsInv'
        BY <1>1, <1>5, <1>7, <2>1, AddIInv
    <2> QED BY <1>3, <1>4, <2>2, CallsAndStore
<1> QED BY <1>6, <1>7

(* Lemma: the owner row is written when every key is in place.              *)
LEMMA PutOwnerIInv ==
    ASSUME IInv, NEW c \in setting.callers, PutOwner(c)
    PROVE  IInv'
<1> DEFINE r == job[c].rec
           keys == job[c].holds
<1>1. /\ job[c].pc = "add" /\ job[c].todo = {} /\ Put(OwnerRow(r), keys) /\ Return(c)
      /\ UNCHANGED <<setting, torn, kept>>
    BY DEF PutOwner
<1>2. r \in Recs /\ OwnerRow(r) \in IndexRows /\ keys # {} /\ keys \subseteq Keys
    BY <1>1, RowsDiffer DEF IInv, CallsOK, CallOK, Calls
<1>3. /\ StoreOK' /\ dry' = dry /\ (dry => base' = base)
      /\ View'[OwnerRow(r)] = keys
      /\ \A o \in IndexRows \ {OwnerRow(r)} : View'[o] = View[o]
    <2>1. keys \in (SUBSET Recs) \union (SUBSET Keys) /\ StoreOK
        BY <1>2 DEF IInv
    <2> HIDE DEF r, keys
    <2> QED BY <1>1, <1>2, <2>1, RowWritten
<1>4. BaseSettled'
    BY <1>1, <1>3, BaseStays DEF IInv
<1>5. OwnerSet(c, keys)
    <2>1. ToRelease(c) = {}
        BY <1>1 DEF ToRelease
    <2>2. ~torn => \A k \in Keys : r \in View[KeyRow(k)] => k \in keys
        BY <1>1, <2>1 DEF IInv, Releasing
    <2> QED BY <1>2, <1>3, <2>2, RowsDiffer DEF OwnerSet
<1>6. \A k \in keys : ~WillAdd(c, k)
    BY <1>1 DEF WillAdd
<1>7. CallsInv'
    BY <1>1, <1>5, <1>6, ReturnIInv
<1> QED BY <1>3, <1>4, <1>7, CallsAndStore

\* No call is under way.
AllResting == setting \in Settings /\ job = [c \in setting.callers |-> Resting]

(* Lemma: with every call at rest the parts about calls hold.               *)
LEMMA RestIsFine ==
    AllResting => /\ CallsOK /\ SameBody /\ EntryStands /\ Promised /\ Releasing
                  /\ Indexing \subseteq {NoRec}
<1> SUFFICES ASSUME AllResting
             PROVE  /\ CallsOK /\ SameBody /\ EntryStands /\ Promised /\ Releasing
                    /\ Indexing \subseteq {NoRec}
    OBVIOUS
<1>1. setting \in Settings /\ \A c \in setting.callers : job[c] = Resting
    BY DEF AllResting
<1>2. Resting.pc = "idle" /\ Resting.rec = NoRec
    BY DEF Resting
<1>3. CallsOK
    BY <1>1, RestingCall DEF AllResting, CallsOK
<1> QED BY <1>1, <1>2, <1>3 DEF SameBody, EntryStands, Promised, Releasing, Indexing

(* Lemma: at rest every call is Resting, and no record is being indexed.    *)
LEMMA AtRestIs ==
    ASSUME IInv, AtRest
    PROVE  AllResting /\ Indexing \subseteq {NoRec}
<1>1. job \in [setting.callers -> Calls] /\ \A c \in setting.callers : job[c] = Resting
    BY DEF IInv, AtRest, CallsOK, CallOK
<1>2. AllResting
    BY <1>1 DEF IInv, CallsOK, AllResting
<1> QED BY <1>2, RestIsFine

(* Lemma: calls that are cut short leave the other records as they were.    *)
LEMMA AbortIInv ==
    ASSUME IInv, Abort
    PROVE  IInv'
<1>1. /\ job' = [c \in setting.callers |-> Resting]
      /\ held' = [r \in Recs |-> IF r \in Indexing THEN {} ELSE held[r]]
      /\ torn' = TRUE /\ setting' = setting
      /\ UNCHANGED <<storeVars, setting, kept>>
    BY DEF Abort
<1>2. View' = View /\ StoreOK'
    BY <1>1, ViewSame DEF IInv
<1>3. BaseSettled'
    BY <1>1, BaseStays DEF IInv, storeVars
<1>4. AllResting'
    BY <1>1 DEF IInv, CallsOK, AllResting
<1>5. CallsOK' /\ SameBody' /\ EntryStands' /\ Promised'
    BY <1>4, RestIsFine, PTL
<1>6. RowsOK(View)'
    BY <1>1, <1>2 DEF IInv, RowsOK, HoldersOf, KeysOf
<1>7. held' \in [Recs -> SUBSET Keys]
    BY <1>1 DEF IInv
<1>8. Settled'
    <2>1. \A r \in Recs : r \notin Indexing => Placed(r, View, held[r])
        BY DEF IInv, Settled
    <2>2. \A r \in Recs : Placed(r, View, held[r])'
        BY <1>1, <1>2, <2>1 DEF Placed
    <2> QED BY <1>1, <2>2 DEF Settled
<1>9. torn' \in BOOLEAN /\ (~torn' => FALSE)
    BY Zenon, <1>1
<1> QED BY <1>2, <1>3, <1>5, <1>6, <1>7, <1>8, <1>9 DEF IInv

(* Lemma: a dry run starts from what the store holds.                       *)
LEMMA StartPlanIInv ==
    ASSUME IInv, StartPlan
    PROVE  IInv'
<1>1. /\ AtRest /\ ~dry /\ dry' = TRUE /\ base' = base /\ over' = over /\ deleted' = deleted
      /\ kept' = [held |-> held, torn |-> torn]
      /\ setting' = setting /\ job' = job /\ held' = held /\ torn' = torn
    BY DEF StartPlan, Cover
<1>2. StoreOK'
    BY <1>1 DEF IInv, StoreOK
<1>3. View = base
    BY <1>1, ViewIsBase DEF IInv
<1>4. View' = base
    <2>1. over' = [row \in IndexRows |-> {}] /\ deleted' = {} /\ base \in [IndexRows -> (SUBSET Recs) \union (SUBSET Keys)]
        BY <1>1 DEF IInv, StoreOK, Empty
    <2>2. \A row \in IndexRows : Get(row)' = base[row]
        BY <1>1, <2>1 DEF Get, OverlayGet
    <2> QED BY <2>1, <2>2 DEF View
<1>5. AllResting /\ Indexing \subseteq {NoRec}
    BY <1>1, AtRestIs
<1>6. AllResting'
    BY <1>1, <1>5 DEF AllResting
<1>7. CallsOK' /\ SameBody' /\ EntryStands' /\ Promised' /\ Releasing'
    BY <1>6, RestIsFine, PTL
<1>8. RowsOK(View)' /\ RowsOK(base)'
    BY <1>1, <1>3, <1>4 DEF IInv, RowsOK, HoldersOf, KeysOf
<1>9. \A r \in Recs : Placed(r, base, held[r]) /\ (~torn => Exact(r, base, held[r]))
    BY <1>3, <1>5, NoRecAssumption DEF IInv, Settled
<1>10. Settled'
    BY <1>1, <1>4, <1>9 DEF Settled, Placed, Exact
<1>11. kept'.held = held /\ kept'.torn = torn
    BY <1>1
<1>12. BaseSettled'
    BY <1>1, <1>8, <1>9, <1>11 DEF IInv, BaseSettled, Placed, Exact
<1>13. held' \in [Recs -> SUBSET Keys] /\ torn' \in BOOLEAN
    BY <1>1 DEF IInv
<1> QED BY <1>2, <1>7, <1>8, <1>10, <1>12, <1>13 DEF IInv

(* Lemma: a dry run that ends leaves what the store held before.            *)
LEMMA EndPlanIInv ==
    ASSUME IInv, EndPlan
    PROVE  IInv'
<1>1. /\ AtRest /\ dry /\ dry' = FALSE /\ base' = base /\ over' = Empty /\ deleted' = {}
      /\ held' = kept.held /\ torn' = kept.torn
      /\ setting' = setting /\ job' = job
    BY DEF EndPlan, Discard
<1>2. StoreOK'
    BY <1>1 DEF IInv, StoreOK, Empty
<1>3. View' = base
    BY <1>1, <1>2 DEF View, Get, StoreOK
<1>4. AllResting'
    BY <1>1, AtRestIs DEF AllResting
<1>5. CallsOK' /\ SameBody' /\ EntryStands' /\ Promised' /\ Releasing'
    BY <1>4, RestIsFine, PTL
<1>6. RowsOK(View)'
    BY <1>1, <1>3 DEF IInv, BaseSettled, RowsOK, HoldersOf, KeysOf
<1>7. \A r \in Recs : /\ Placed(r, base, kept.held[r])
                      /\ ~kept.torn => Exact(r, base, kept.held[r])
    BY <1>1 DEF IInv, BaseSettled
<1>8. Settled'
    BY <1>1, <1>3, <1>7 DEF Settled, Placed, Exact
<1>9. BaseSettled'
    BY <1>1 DEF BaseSettled
<1>10. held' \in [Recs -> SUBSET Keys] /\ torn' \in BOOLEAN
    BY <1>1 DEF IInv, BaseSettled
<1> QED BY <1>2, <1>5, <1>6, <1>8, <1>9, <1>10 DEF IInv

-----------------------------------------------------------------------------
(* Lemma: the index starts empty, with every call at rest.                  *)
LEMMA InitIInv == Init => IInv
<1> SUFFICES ASSUME Init PROVE IInv
    OBVIOUS
<1>1. /\ base = Empty /\ over = Empty /\ deleted = {} /\ dry = FALSE
      /\ setting \in Settings /\ job = [c \in setting.callers |-> Resting]
      /\ held = [r \in Recs |-> {}] /\ torn = FALSE
    BY DEF Init, EmptyStore
<1>2. StoreOK
    <2>1. Empty \in [IndexRows -> (SUBSET Recs) \union (SUBSET Keys)]
        BY DEF Empty
    <2>2. dry \in BOOLEAN
        BY Zenon, <1>1
    <2> QED BY <1>1, <2>1, <2>2 DEF StoreOK
<1>3. \A row \in IndexRows : View[row] = {}
    <2>1. View = base
        BY <1>1, <1>2, ViewIsBase
    <2> QED BY <1>1, <2>1 DEF Empty
<1>4. CallsOK /\ SameBody /\ EntryStands /\ Promised /\ Releasing
    BY <1>1, RestIsFine DEF AllResting
<1>5. RowsOK(View)
    BY <1>3, RowsDiffer DEF RowsOK
<1>6. Settled
    BY <1>1, <1>3, RowsDiffer DEF Settled, Placed, Exact
<1>7. BaseSettled /\ held \in [Recs -> SUBSET Keys]
    BY <1>1 DEF BaseSettled
<1>8. torn \in BOOLEAN
    BY Zenon, <1>1
<1> QED BY <1>2, <1>4, <1>5, <1>6, <1>7, <1>8 DEF IInv

(* Lemma: every step preserves the invariant.                               *)
LEMMA NextIInv ==
    ASSUME \A s \in Settings : Unshared(s), IInv, [Next]_vars
    PROVE  IInv'
<1>1. ASSUME NEW c \in setting.callers, NEW r \in Recs, NEW ks \in SUBSET Keys, Call(c, r, ks)
      PROVE  IInv'
    BY <1>1, CallIInv
<1>2. ASSUME NEW c \in setting.callers, NEW k \in Keys, LoadKey(c, k)
      PROVE  IInv'
    BY <1>2, LoadKeyIInv
<1>3. ASSUME NEW c \in setting.callers,
             ReadOwner(c) \/ DropOwner(c) \/ SaveKey(c) \/ PutOwner(c)
      PROVE  IInv'
    BY <1>3, ReadOwnerIInv, DropOwnerIInv, SaveKeyIInv, PutOwnerIInv
<1>4. CASE Abort \/ StartPlan \/ EndPlan
    BY <1>4, AbortIInv, StartPlanIInv, EndPlanIInv
<1>5. CASE UNCHANGED vars
    <2>1. /\ UNCHANGED storeVars /\ setting' = setting /\ job' = job /\ held' = held
          /\ torn' = torn /\ kept' = kept
        BY <1>5 DEF vars
    <2>2. View' = View /\ StoreOK'
        BY <2>1, ViewSame DEF IInv
    <2>3. BaseSettled'
        BY <2>1, BaseStays DEF IInv, storeVars
    <2>4. CallsOK' /\ SameBody' /\ RowsOK(View)' /\ EntryStands'
        BY <2>1, <2>2 DEF IInv, CallsOK, CallOK, Resting, SameBody, RowsOK, HoldersOf, KeysOf,
                          EntryStands
    <2>5. Promised' /\ (~torn => Releasing')
        BY <2>1, <2>2 DEF IInv, Promised, WillAdd, Releasing, ToRelease
    <2>6. Settled'
        BY <2>1, <2>2 DEF IInv, Settled, Indexing, Placed, Exact
    <2> QED BY <2>1, <2>2, <2>3, <2>4, <2>5, <2>6 DEF IInv
<1> QED BY <1>1, <1>2, <1>3, <1>4, <1>5 DEF Next

(* Theorem: the invariant of the index holds throughout, for any records,   *)
(* keys, bodies and calls cut short, real and dry, when one goroutine       *)
(* indexes at a time or records have no key in common                       *)
(* (identity.go:128-231).                                                   *)
THEOREM IndexInvariant ==
    ASSUME \A s \in Settings : Unshared(s)
    PROVE  Spec => []IInv
<1>1. IInv /\ [Next]_vars => IInv'
    BY NextIInv
<1> QED BY <1>1, InitIInv, PTL DEF Spec

(* Theorem: a record is found under every key it was last indexed with,     *)
(* whichever calls on other records were cut short (poll.go:32-36).         *)
THEOREM IndexedIsFound ==
    ASSUME \A s \in Settings : Unshared(s)
    PROVE  Spec => []Findable
<1>1. IInv => Findable
    <2> SUFFICES ASSUME IInv, NEW r \in Recs \ Indexing, NEW k \in held[r]
                 PROVE  r \in Get(KeyRow(k))
        BY DEF Findable
    <2>1. k \in Keys /\ r \in View[KeyRow(k)]
        BY DEF IInv, Settled, Placed
    <2> QED BY <2>1, RowsDiffer DEF View
<1> QED BY <1>1, IndexInvariant, PTL

(* Theorem: at rest a key finds the records that hold it and no others, in  *)
(* a dry run and after it as well (identity.go:128-131, overlay.go:12-20).  *)
THEOREM IndexFindsNothingElse ==
    ASSUME \A s \in Settings : Unshared(s)
    PROVE  Spec => []IndexExact
<1>1. IInv => IndexExact
    <2> SUFFICES ASSUME IInv, AtRest, ~torn, NEW k \in Keys
                 PROVE  Get(KeyRow(k)) = {r \in Recs : k \in held[r]}
        BY DEF IndexExact
    <2>1. Get(KeyRow(k)) = View[KeyRow(k)]
        BY RowsDiffer DEF View
    <2>2. View[KeyRow(k)] \subseteq Recs
        BY DEF IInv, RowsOK, HoldersOf
    <2>3. \A r \in Recs : r \in View[KeyRow(k)] <=> k \in held[r]
        BY AtRestIs, NoRecAssumption DEF IInv, Settled, Placed, Exact
    <2> QED BY <2>1, <2>2, <2>3
<1> QED BY <1>1, IndexInvariant, PTL
=============================================================================
