----------------------------- MODULE SyncProofs -----------------------------
(***************************************************************************)
(* Proofs about PairSync and Pipeline, which both apply Resolve, for any    *)
(* fields, values, resolvers, mappings, people, faults and workers.         *)
(*                                                                          *)
(* First what Resolve decides, case by case, for a view of two records and  *)
(* what both were at the last sync; the steps of the pair only apply the    *)
(* decision.  Then the pass: what it has in hand at every cut (PipeInv),    *)
(* how a step moves it, and from that its lock, what is written where, and  *)
(* that a create is not repeated.                                           *)
(***************************************************************************)
EXTENDS PairSync, Pipeline, SequenceTheorems, FiniteSetTheorems, TLAPS

\* What a peer can hold under a field, and what can be written to a peer.
Plain == Values \union {Null}
Writes == UNION {[F -> Plain] : F \in SUBSET Fields}

\* A side that returned c, last synced as b.
View(c, b, t) ==
    [fields |-> c, hash |-> c, base |-> IF b = NoDigest THEN NoRecord ELSE b,
     syncedHash |-> b, at |-> t]

-----------------------------------------------------------------------------
(* Lemma: whatever the sides are, what is decided for each is a set of      *)
(* mapped fields with values a peer can hold.                               *)
LEMMA OutcomeWrites ==
    ASSUME NEW l, NEW r, l.fields \in Canonical, r.fields \in Canonical,
           NEW toLeft \in SUBSET Fields, NEW toRight \in SUBSET Fields
    PROVE  /\ Outcome(l, r, toLeft, toRight).left \in Writes
           /\ Outcome(l, r, toLeft, toRight).right \in Writes
<1>1. NoWrites \in Writes
    <2>1. NoWrites \in [{} -> Plain]
        BY DEF NoWrites
    <2> QED BY <2>1 DEF Writes
<1>2. ASSUME NEW s, s.fields \in Canonical, NEW F \in SUBSET Fields
      PROVE  ValuesOf(s, F) \in Writes
    <2>1. ASSUME NEW f \in F PROVE Looked(s.fields[f]) \in Plain
        BY <1>2 DEF Looked, Canonical, Plain
    <2>2. ValuesOf(s, F) \in [F -> Plain]
        BY <2>1 DEF ValuesOf
    <2> QED BY <2>2 DEF Writes
<1>3. ValuesOf(r, toLeft) \in Writes /\ ValuesOf(l, toRight) \in Writes
    BY <1>2
<1>4. CASE toLeft # {} /\ toRight # {}
    BY <1>3, <1>4 DEF Outcome
<1>5. CASE toLeft = {} /\ toRight # {}
    BY <1>1, <1>3, <1>5 DEF Outcome, WriteRight
<1>6. CASE toLeft # {} /\ toRight = {}
    BY <1>1, <1>3, <1>6 DEF Outcome, WriteLeft
<1>7. CASE toLeft = {} /\ toRight = {}
    BY <1>1, <1>7 DEF Outcome, Nothing
<1> QED BY <1>4, <1>5, <1>6, <1>7

LEMMA ResolveWrites ==
    ASSUME NEW r, NEW l, NEW rr, l.fields \in Canonical, rr.fields \in Canonical
    PROVE  Resolve(r, l, rr).left \in Writes /\ Resolve(r, l, rr).right \in Writes
<1> DEFINE Fine(res) == res.left \in Writes /\ res.right \in Writes
<1>1. NoWrites \in Writes
    <2>1. NoWrites \in [{} -> Plain]
        BY DEF NoWrites
    <2> QED BY <2>1 DEF Writes
<1>2. ASSUME NEW s, s.fields \in Canonical
      PROVE  Pick(s) \in Writes
    <2> DEFINE F == {g \in Fields : s.fields[g] # Absent}
    <2>1. \A f \in F : s.fields[f] \in Plain
        BY <1>2 DEF Canonical, Plain
    <2>2. Pick(s) \in [F -> Plain]
        BY <2>1 DEF Pick
    <2> QED BY <2>2 DEF Writes
<1>3. Fine(Nothing) /\ Fine(Escalate)
    BY <1>1 DEF Nothing, Escalate
<1>4. Fine(WriteRight(Pick(l))) /\ Fine(WriteLeft(Pick(rr)))
    BY <1>1, <1>2 DEF WriteRight, WriteLeft
<1>5. Diff(l, rr) \subseteq Fields /\ Diff(rr, l) \subseteq Fields
    BY DEF Diff
<1>6. Fine(Merge(l, rr))
    <2>1. OnlyEdited(rr, l) \in SUBSET Fields /\ OnlyEdited(l, rr) \in SUBSET Fields
        BY <1>5 DEF OnlyEdited
    <2>2. Fine(Outcome(l, rr, OnlyEdited(rr, l), OnlyEdited(l, rr)))
        BY <2>1, OutcomeWrites
    <2> QED BY <1>3, <2>2 DEF Merge
<1>7. Fine(ResolvePerField(r, l, rr))
    <2> DEFINE won(side) == {f \in Diff(l, rr) : FieldWinner(r, l, rr, f) = side}
    <2>1. won("right") \in SUBSET Fields /\ won("left") \in SUBSET Fields
        BY <1>5
    <2>2. Fine(Outcome(l, rr, won("right"), won("left")))
        BY <2>1, OutcomeWrites
    <2> QED BY <1>3, <2>2 DEF ResolvePerField
<1>8. Fine(Newest(r, l, rr))
    BY <1>3, <1>4 DEF Newest
<1>9. Fine(ResolveConflict(r, l, rr))
    BY <1>3, <1>4, <1>6, <1>7, <1>8 DEF ResolveConflict
<1>10. Fine(Resolve(r, l, rr))
    BY <1>3, <1>4, <1>9 DEF Resolve
<1> QED BY <1>10

(* Lemma: writes laid over what a peer holds are again something it can     *)
(* hold, and over what was read a record.                                   *)
LEMMA OverlaidType ==
    ASSUME NEW w \in Writes
    PROVE  /\ \A v \in [Fields -> Plain] : Overlaid(v, w) \in [Fields -> Plain]
           /\ \A c \in Canonical : Overlaid(c, w) \in Canonical
<1>1. PICK F \in SUBSET Fields : w \in [F -> Plain]
    BY DEF Writes
<1>2. DOMAIN w = F /\ \A f \in F : w[f] \in Plain
    BY <1>1
<1> QED BY <1>2 DEF Overlaid, Canonical, Plain

(* Lemma: when each disagreed field goes to one of the sides, both end up   *)
(* with the same record.                                                    *)
LEMMA OutcomeSettles ==
    ASSUME NEW l, NEW r, l.fields \in [Fields -> Plain], r.fields \in [Fields -> Plain],
           NEW toLeft, NEW toRight,
           toLeft \union toRight = Diff(l, r), toLeft \intersect toRight = {}
    PROVE  Overlaid(l.fields, Outcome(l, r, toLeft, toRight).left)
             = Overlaid(r.fields, Outcome(l, r, toLeft, toRight).right)
<1> DEFINE res == Outcome(l, r, toLeft, toRight)
<1>1. /\ DOMAIN res.left = toLeft /\ DOMAIN res.right = toRight
      /\ \A f \in toLeft : res.left[f] = Looked(r.fields[f])
      /\ \A f \in toRight : res.right[f] = Looked(l.fields[f])
    <2>0. /\ DOMAIN NoWrites = {}
          /\ DOMAIN ValuesOf(r, toLeft) = toLeft /\ DOMAIN ValuesOf(l, toRight) = toRight
          /\ \A f \in toLeft : ValuesOf(r, toLeft)[f] = Looked(r.fields[f])
          /\ \A f \in toRight : ValuesOf(l, toRight)[f] = Looked(l.fields[f])
        BY DEF NoWrites, ValuesOf
    <2>1. CASE toLeft # {} /\ toRight # {}
        BY <2>0, <2>1 DEF Outcome
    <2>2. CASE toLeft = {} /\ toRight # {}
        BY <2>0, <2>2 DEF Outcome, WriteRight
    <2>3. CASE toLeft # {} /\ toRight = {}
        BY <2>0, <2>3 DEF Outcome, WriteLeft
    <2>4. CASE toLeft = {} /\ toRight = {}
        BY <2>0, <2>4 DEF Outcome, Nothing
    <2> QED BY <2>1, <2>2, <2>3, <2>4
<1>2. \A f \in Fields : Looked(l.fields[f]) = l.fields[f] /\ Looked(r.fields[f]) = r.fields[f]
    BY ValuesAssumption DEF Looked, Plain
<1>3. ASSUME NEW f \in Fields
      PROVE  Overlaid(l.fields, res.left)[f] = Overlaid(r.fields, res.right)[f]
    <2> HIDE DEF res
    <2>1. Overlaid(l.fields, res.left)[f] = IF f \in toLeft THEN r.fields[f] ELSE l.fields[f]
        BY <1>1, <1>2 DEF Overlaid
    <2>2. Overlaid(r.fields, res.right)[f] = IF f \in toRight THEN l.fields[f] ELSE r.fields[f]
        BY <1>1, <1>2 DEF Overlaid
    <2>3. f \in toLeft \union toRight <=> l.fields[f] # r.fields[f]
        BY DEF Diff
    <2> QED BY <2>1, <2>2, <2>3
<1>4. DOMAIN Overlaid(l.fields, res.left) = Fields /\ DOMAIN Overlaid(r.fields, res.right) = Fields
    BY DEF Overlaid
<1>5. \A x, y : DOMAIN Overlaid(x, y) = Fields /\ Overlaid(x, y) = [f \in Fields |-> Overlaid(x, y)[f]]
    BY DEF Overlaid
<1> QED BY <1>3, <1>5

(* Lemma: sides that were last synced as the same record and are read in    *)
(* full hold the same record after any decision that is not left to a       *)
(* person.                                                                  *)
LEMMA ResolveSettles ==
    ASSUME NEW r, NEW v \in [Fields -> Plain], NEW w \in [Fields -> Plain], NEW b, NEW t, NEW u,
           Resolve(r, View(v, b, t), View(w, b, u)).action # "escalate"
    PROVE  Overlaid(v, Resolve(r, View(v, b, t), View(w, b, u)).left)
             = Overlaid(w, Resolve(r, View(v, b, t), View(w, b, u)).right)
<1> DEFINE l == View(v, b, t)
           rr == View(w, b, u)
           Agree(res) == res.action # "escalate" => Overlaid(v, res.left) = Overlaid(w, res.right)
<1>1. /\ l.fields = v /\ l.hash = v /\ l.syncedHash = b
      /\ rr.fields = w /\ rr.hash = w /\ rr.syncedHash = b
      /\ l.base = rr.base
    BY DEF View
<1> HIDE DEF l, rr
<1>e. Agree(Escalate)
    BY DEF Escalate
<1>2. ASSUME NEW x \in [Fields -> Plain], NEW y \in [Fields -> Plain]
      PROVE  /\ Overlaid(x, NoWrites) = x
             /\ \A s : s.fields = y => Overlaid(x, Pick(s)) = y
    <2>1. \A f \in Fields : y[f] # Absent
        BY ValuesAssumption DEF Plain
    <2>2. \A s : s.fields = y => {g \in Fields : s.fields[g] # Absent} = Fields
        BY <2>1
    <2>3. \A s : s.fields = y => DOMAIN Pick(s) = Fields /\ \A f \in Fields : Pick(s)[f] = y[f]
        BY <2>2 DEF Pick
    <2> QED BY <2>3 DEF Overlaid, NoWrites
<1>3. Agree(WriteRight(Pick(l))) /\ Agree(WriteLeft(Pick(rr)))
    BY <1>1, <1>2 DEF WriteRight, WriteLeft
<1>4. Diff(l, rr) = {} => Agree(Nothing)
    <2> SUFFICES ASSUME Diff(l, rr) = {} PROVE v = w
        BY <1>2 DEF Nothing
    <2>1. \A f \in Fields : v[f] = w[f]
        BY <1>1 DEF Diff
    <2> QED BY <2>1
<1>5. ~Changed(l) /\ ~Changed(rr) => Agree(Nothing)
    BY <1>1, <1>2 DEF Changed, Nothing
<1>6. \A f \in Diff(l, rr) : FieldChanged(l, f) \/ FieldChanged(rr, f)
    BY <1>1 DEF Diff, FieldChanged
<1>7. ASSUME NEW toLeft, NEW toRight,
             toLeft \union toRight = Diff(l, rr), toLeft \intersect toRight = {}
      PROVE  Agree(Outcome(l, rr, toLeft, toRight))
    BY <1>1, <1>7, OutcomeSettles
<1>8. Agree(Merge(l, rr))
    <2> DEFINE toLeft == OnlyEdited(rr, l)
               toRight == OnlyEdited(l, rr)
    <2>0. Diff(rr, l) = Diff(l, rr)
        BY DEF Diff
    <2>1. CASE ~HasBase(l) \/ ~HasBase(rr) \/ Contested(l, rr) # {}
        BY <1>e, <2>1 DEF Merge
    <2>2. CASE ~(~HasBase(l) \/ ~HasBase(rr) \/ Contested(l, rr) # {})
        <3>1. \A f \in Diff(l, rr) : ~(FieldChanged(l, f) /\ FieldChanged(rr, f))
            BY <2>2 DEF Contested
        <3>2. toLeft \union toRight = Diff(l, rr) /\ toLeft \intersect toRight = {}
            BY <1>6, <2>0, <3>1 DEF OnlyEdited
        <3>3. Agree(Outcome(l, rr, toLeft, toRight))
            BY <1>7, <3>2
        <3> QED BY <2>2, <3>3 DEF Merge
    <2> QED BY <2>1, <2>2
<1>9. Agree(ResolvePerField(r, l, rr))
    <2> DEFINE won(side) == {f \in Diff(l, rr) : FieldWinner(r, l, rr, f) = side}
    <2>1. CASE won("none") # {}
        BY <1>e, <2>1 DEF ResolvePerField
    <2>2. CASE won("none") = {}
        <3>1. ASSUME NEW f \in Diff(l, rr)
              PROVE  FieldWinner(r, l, rr, f) \in {"left", "right", "none"}
            BY <1>6 DEF FieldWinner, ClockWinner
        <3>2. won("right") \union won("left") = Diff(l, rr) /\ won("right") \intersect won("left") = {}
            BY <2>2, <3>1
        <3>3. Agree(Outcome(l, rr, won("right"), won("left")))
            BY <1>7, <3>2
        <3> QED BY <2>2, <3>3 DEF ResolvePerField
    <2> QED BY <2>1, <2>2
<1>10. Agree(Newest(r, l, rr))
    BY <1>e, <1>3 DEF Newest
<1>11. Agree(ResolveConflict(r, l, rr))
    BY <1>e, <1>3, <1>8, <1>9, <1>10 DEF ResolveConflict
<1>12. Agree(Resolve(r, l, rr))
    BY <1>3, <1>4, <1>5, <1>11 DEF Resolve
<1> QED BY <1>12 DEF l, rr

(* Lemma: under field_level and review a decision writes no field that its  *)
(* side was edited in since the last sync.                                  *)
LEMMA ResolveLosesNothing ==
    ASSUME NEW r, Lossless(r), NEW f \in Fields,
           NEW v, NEW w, NEW b, NEW c, NEW t, NEW u
    PROVE  LET res == Resolve(r, View(v, b, t), View(w, c, u)) IN
           /\ b # NoDigest /\ v[f] # b[f] => f \notin DOMAIN res.left
           /\ c # NoDigest /\ w[f] # c[f] => f \notin DOMAIN res.right
<1> DEFINE l == View(v, b, t)
           rr == View(w, c, u)
           EditedLeft == b # NoDigest /\ v[f] # b[f]
           EditedRight == c # NoDigest /\ w[f] # c[f]
           Spares(res) == /\ EditedLeft => f \notin DOMAIN res.left
                          /\ EditedRight => f \notin DOMAIN res.right
<1>1. /\ l.hash = v /\ l.syncedHash = b /\ rr.hash = w /\ rr.syncedHash = c
      /\ l.fields = v /\ rr.fields = w
      /\ b # NoDigest => l.base = b
      /\ c # NoDigest => rr.base = c
    BY DEF View
<1>2. /\ EditedLeft => Changed(l) /\ FieldChanged(l, f)
      /\ EditedRight => Changed(rr) /\ FieldChanged(rr, f)
    BY <1>1 DEF Changed, FieldChanged
<1> HIDE DEF l, rr, EditedLeft, EditedRight
<1>3. DOMAIN NoWrites = {}
    BY DEF NoWrites
<1>4. Spares(Nothing) /\ Spares(Escalate)
    BY <1>3 DEF Nothing, Escalate
<1>5. /\ ~Changed(rr) => Spares(WriteRight(Pick(l)))
      /\ ~Changed(l) => Spares(WriteLeft(Pick(rr)))
    BY <1>2, <1>3 DEF WriteRight, WriteLeft
<1>6. ASSUME NEW toLeft, NEW toRight,
             EditedLeft => f \notin toLeft, EditedRight => f \notin toRight
      PROVE  Spares(Outcome(l, rr, toLeft, toRight))
    <2>1. DOMAIN ValuesOf(rr, toLeft) = toLeft /\ DOMAIN ValuesOf(l, toRight) = toRight
        BY DEF ValuesOf
    <2>2. CASE toLeft # {} /\ toRight # {}
        BY <1>6, <2>1, <2>2 DEF Outcome
    <2>3. CASE toLeft = {} /\ toRight # {}
        BY <1>3, <1>6, <2>1, <2>3 DEF Outcome, WriteRight
    <2>4. CASE toLeft # {} /\ toRight = {}
        BY <1>3, <1>6, <2>1, <2>4 DEF Outcome, WriteLeft
    <2>5. CASE toLeft = {} /\ toRight = {}
        BY <1>4, <2>5 DEF Outcome
    <2> QED BY <2>2, <2>3, <2>4, <2>5
<1>7. Spares(Merge(l, rr))
    <2>1. Spares(Outcome(l, rr, OnlyEdited(rr, l), OnlyEdited(l, rr)))
        BY <1>2, <1>6 DEF OnlyEdited
    <2> QED BY <1>4, <2>1 DEF Merge
<1>8. Spares(ResolvePerField(r, l, rr))
    <2> DEFINE won(side) == {g \in Diff(l, rr) : FieldWinner(r, l, rr, g) = side}
    <2>1. PolicyFor(r, f) \in {"field_level", "review"}
        BY DEF Lossless
    <2>2. /\ EditedLeft => f \notin won("right")
          /\ EditedRight => f \notin won("left")
        BY <1>2, <2>1 DEF FieldWinner, Contested
    <2>3. Spares(Outcome(l, rr, won("right"), won("left")))
        BY <1>6, <2>2
    <2> QED BY <1>4, <2>3 DEF ResolvePerField
<1>9. Spares(ResolveConflict(r, l, rr))
    <2>1. CASE DOMAIN r.perField # {}
        BY <1>8, <2>1 DEF ResolveConflict
    <2>2. CASE DOMAIN r.perField = {}
        <3>1. r.default \in {"field_level", "review"}
            BY <2>2 DEF Lossless, PolicyFor
        <3> QED BY <1>4, <1>7, <2>2, <3>1 DEF ResolveConflict
    <2> QED BY <2>1, <2>2
<1>10. Spares(Resolve(r, l, rr))
    BY <1>4, <1>5, <1>9 DEF Resolve
<1> QED BY <1>10 DEF l, rr, EditedLeft, EditedRight

-----------------------------------------------------------------------------
(* Lemma: a read is a record, and one that lacks nothing is what the peer   *)
(* holds.                                                                   *)
LEMMA Reads ==
    ASSUME PairTypeOK, NEW s \in Sides
    PROVE  /\ \A drop : Read(s, drop) \in Canonical
           /\ Read(s, {}) = value[s] /\ value[s] \in [Fields -> Plain]
           /\ ReadState(s, {}) = View(value[s], synced[s], at[s])
<1>1. value[s] \in [Fields -> Plain]
    BY DEF PairTypeOK, Plain
<1>2. \A drop : Read(s, drop) \in Canonical
    BY <1>1 DEF Read, Canonical, Plain
<1>3. Read(s, {}) = value[s]
    BY <1>1 DEF Read
<1> QED BY <1>1, <1>2, <1>3 DEF ReadState, View

(* Theorem: every variable keeps its type, also when reads come back        *)
(* without some fields: nothing but values and Null is written to a peer,   *)
(* and a snapshot is a record of exactly the mapped fields.                 *)
THEOREM PairSyncTypes == PairSpec => []PairTypeOK
<1>1. PairInit => PairTypeOK
    <2> SUFFICES ASSUME PairInit PROVE PairTypeOK
        OBVIOUS
    <2>1. review \in BOOLEAN
        BY Zenon DEF PairInit
    <2>2. now \in Nat /\ at \in [Sides -> Nat] /\ synced \in [Sides -> Canonical \union {NoDigest}]
        BY DEF PairInit
    <2> QED BY <2>1, <2>2 DEF PairInit, PairTypeOK
<1>2. PairTypeOK /\ [PairNext]_pairVars => PairTypeOK'
    <2> SUFFICES ASSUME PairTypeOK, [PairNext]_pairVars PROVE PairTypeOK'
        OBVIOUS
    <2>1. ASSUME NEW s \in Sides, NEW f \in Fields, NEW v \in Values \union {Null}, Edit(s, f, v)
          PROVE  PairTypeOK'
        BY <2>1 DEF Edit, PairTypeOK
    <2>2. ASSUME NEW drop \in [Sides -> Drops], Pass(drop) PROVE PairTypeOK'
        <3> DEFINE res == Decision(drop)
        <3>1. ASSUME NEW s \in Sides PROVE res[s] \in Writes
            <4>1. ReadState("left", drop["left"]).fields \in Canonical
                BY Reads DEF ReadState, Sides
            <4>2. ReadState("right", drop["right"]).fields \in Canonical
                BY Reads DEF ReadState, Sides
            <4>3. res.left \in Writes /\ res.right \in Writes
                BY <4>1, <4>2, ResolveWrites DEF Decision
            <4> QED BY <4>3 DEF Sides
        <3> HIDE DEF res
        <3>2. value' \in [Sides -> [Fields -> Values \union {Null}]]
            <4>1. \A s \in Sides : Overlaid(value[s], res[s]) \in [Fields -> Plain]
                BY <3>1, Reads, OverlaidType
            <4>2. value' = [s \in Sides |-> Overlaid(value[s], res[s])]
                BY <2>2 DEF Pass, res
            <4> QED BY <4>1, <4>2 DEF Plain
        <3>3. synced' \in [Sides -> Canonical \union {NoDigest}]
            <4>1. \A s \in Sides : Overlaid(Read(s, drop[s]), res[s]) \in Canonical
                BY <3>1, Reads, OverlaidType
            <4>2. synced' = [s \in Sides |-> Overlaid(Read(s, drop[s]), res[s])]
                BY <2>2 DEF Pass, Final, res
            <4> QED BY <4>1, <4>2
        <3>4. at' \in [Sides -> Nat]
            BY <2>2 DEF Pass, PairTypeOK
        <3> QED BY <2>2, <3>2, <3>3, <3>4 DEF Pass, PairTypeOK
    <2>3. ASSUME NEW drop \in [Sides -> Drops], Ask(drop) PROVE PairTypeOK'
        BY <2>3 DEF Ask, PairTypeOK
    <2>4. CASE UNCHANGED pairVars
        BY <2>4 DEF pairVars, PairTypeOK
    <2> QED BY <2>1, <2>2, <2>3, <2>4 DEF PairNext
<1> QED BY <1>1, <1>2, PTL DEF PairSpec

(* Lemma: with full reads a pass decides on what the sides hold, and        *)
(* records what it leaves there.                                            *)
LEMMA FullPass ==
    ASSUME PairTypeOK, FullReads, NEW drop \in [Sides -> Drops]
    PROVE  LET res == Resolve(resolver, View(value["left"], synced["left"], at["left"]),
                                        View(value["right"], synced["right"], at["right"]))
           IN  /\ Decision(drop) = res
               /\ Pass(drop) => /\ res.action # "escalate"
                                /\ value' = [s \in Sides |-> Overlaid(value[s], res[s])]
                                /\ synced' = value'
<1>1. drop["left"] = {} /\ drop["right"] = {}
    BY DEF FullReads, Sides
<1>2. "left" \in Sides /\ "right" \in Sides /\ \A s \in Sides : drop[s] = {}
    BY <1>1 DEF Sides
<1>3. Decision(drop) = Resolve(resolver, View(value["left"], synced["left"], at["left"]),
                                         View(value["right"], synced["right"], at["right"]))
    BY <1>1, <1>2, Reads DEF Decision
<1>4. ASSUME Pass(drop) PROVE synced' = value'
    BY <1>2, <1>4, Reads DEF Pass, Final
<1> QED BY <1>3, <1>4 DEF Pass

(* Theorem: when reads return every field, both sides are recorded in the   *)
(* same state after every pass, whatever the policies, so the engine never  *)
(* takes its own leftovers for an edit.                                     *)
THEOREM BothSidesRecorded == PairSpec => []SnapshotsAgree
<1>1. PairInit => SnapshotsAgree
    BY DEF PairInit, SnapshotsAgree, Sides
<1>2. PairTypeOK /\ SnapshotsAgree /\ [PairNext]_pairVars => SnapshotsAgree'
    <2> SUFFICES ASSUME PairTypeOK, synced["left"] = synced["right"], FullReads, [PairNext]_pairVars
                 PROVE  synced'["left"] = synced'["right"]
        BY DEF SnapshotsAgree, FullReads
    <2>1. ASSUME NEW drop \in [Sides -> Drops], Pass(drop)
          PROVE  synced'["left"] = synced'["right"]
        <3> DEFINE v == value["left"]
                   w == value["right"]
                   b == synced["left"]
                   res == Resolve(resolver, View(v, b, at["left"]), View(w, b, at["right"]))
        <3>1. v \in [Fields -> Plain] /\ w \in [Fields -> Plain]
            BY Reads DEF Sides
        <3>2. /\ res.action # "escalate"
              /\ synced' = [s \in Sides |-> Overlaid(value[s], res[s])]
            BY <2>1, FullPass
        <3>3. Overlaid(v, res.left) = Overlaid(w, res.right)
            BY <3>1, <3>2, ResolveSettles
        <3>4. synced'["left"] = Overlaid(v, res.left) /\ synced'["right"] = Overlaid(w, res.right)
            BY <3>2 DEF Sides
        <3> QED BY <3>3, <3>4
    <2>2. ASSUME NEW s \in Sides, NEW f \in Fields, NEW v \in Values \union {Null}, Edit(s, f, v)
          PROVE  UNCHANGED synced
        BY <2>2 DEF Edit
    <2>3. ASSUME NEW drop \in [Sides -> Drops], Ask(drop) PROVE UNCHANGED synced
        BY <2>3 DEF Ask
    <2>4. CASE UNCHANGED pairVars
        BY <2>4 DEF pairVars
    <2> QED BY <2>1, <2>2, <2>3, <2>4 DEF PairNext
<1> QED BY <1>1, <1>2, PairSyncTypes, PTL DEF PairSpec

(* Theorem: when reads return every field, field_level and review never     *)
(* let a pass overwrite what somebody edited since the last sync, however   *)
(* edits on the two sides and passes follow one another.                    *)
THEOREM EditsSurvive ==
    ASSUME FullReads
    PROVE  PairSpec => NoEditOverwritten
<1> DEFINE Survives(s, f) == Lossless(resolver) /\ now' = now /\ Edited(s, f)
                                => value'[s][f] = value[s][f]
<1>1. PairTypeOK /\ [PairNext]_pairVars => [\A s \in Sides, f \in Fields : Survives(s, f)]_pairVars
    <2> SUFFICES ASSUME PairTypeOK, PairNext, NEW s \in Sides, NEW f \in Fields,
                        Lossless(resolver), now' = now, Edited(s, f)
                 PROVE  value'[s][f] = value[s][f]
        BY DEF pairVars
    <2>1. ASSUME NEW side \in Sides, NEW g \in Fields, NEW v \in Values \union {Null},
                 Edit(side, g, v)
          PROVE  FALSE
        BY <2>1 DEF Edit, PairTypeOK
    <2>2. ASSUME NEW drop \in [Sides -> Drops], Pass(drop)
          PROVE  value'[s][f] = value[s][f]
        <3> DEFINE res == Resolve(resolver, View(value["left"], synced["left"], at["left"]),
                                            View(value["right"], synced["right"], at["right"]))
        <3>1. /\ Edited("left", f) => f \notin DOMAIN res.left
              /\ Edited("right", f) => f \notin DOMAIN res.right
            BY ResolveLosesNothing DEF Edited
        <3>2. value' = [x \in Sides |-> Overlaid(value[x], res[x])]
            BY <2>2, FullPass
        <3> HIDE DEF res
        <3>3. f \notin DOMAIN res[s]
            BY <3>1 DEF Sides
        <3> QED BY <3>2, <3>3 DEF Overlaid
    <2>3. ASSUME NEW drop \in [Sides -> Drops], Ask(drop)
          PROVE  value'[s][f] = value[s][f]
        BY <2>3 DEF Ask
    <2> QED BY <2>1, <2>2, <2>3 DEF PairNext
<1> QED BY <1>1, PairSyncTypes, PTL DEF PairSpec, NoEditOverwritten
-----------------------------------------------------------------------------
(* The pass: what a worker may have in hand.                                *)

Targets == Refs \union {ToCreate(s) : s \in Sides}

WriteRecords == [to : Targets, from : Refs, values : Writes, base : Canonical]

Rows == {"link", "keys", "snap"} \X Refs

Recording == {"link", "link2", "snap", "keys", "snap2", "keys2"}

Jobs ==
    [pc : {"idle", "enter", "delete", "resolve", "write", "call", "tag", "settle",
           "drop", "delcall", "delsettle"} \union Recording,
     ev : Events \union {NoEvent}, body : Canonical, lock : LockKeys \union {NoRef},
     far : Targets \union {NoRef}, base : [Sides -> Canonical \union {NoDigest}],
     writes : Seq(WriteRecords), drop : Seq(Rows), final : [Sides -> Canonical]]

\* The records a record may be the counterpart of.
Across(r) == {q \in Refs : SideOf(q) = Other(SideOf(r))}

\* The writes of a pass: one that creates the counterpart, or some that bring
\* the two records of the pair together.
Creating(j) ==
    /\ Len(j.writes) = 1
    /\ j.writes[1].to = ToCreate(Other(SideOf(j.ev.ref))) /\ j.writes[1].from = j.ev.ref

Updating(j) ==
    /\ j.far \in Across(j.ev.ref)
    /\ \A i \in 1..Len(j.writes) : j.writes[i].to \in {j.far, j.ev.ref}

\* Where the pass is says what it has: a change, a counterpart, writes to
\* make, rows to drop.
Placed(j) ==
    /\ j.pc # "idle" => j.ev \in Events
    /\ j.pc \in {"resolve", "delcall", "delsettle"} \union Recording
         => j.far \in Across(j.ev.ref)
    /\ j.pc \in {"enter", "delete", "delcall", "delsettle"} => j.writes = <<>>
    /\ j.pc \in {"write", "call", "tag", "settle"} =>
         j.writes # <<>> /\ (Creating(j) \/ Updating(j))
    /\ j.pc \in {"tag", "settle"} => j.far \in Across(j.ev.ref)
    /\ j.pc = "drop" => j.drop # <<>> /\ (j.writes = <<>> \/ Creating(j))

\* What the configuration lets the pass do.
Allowed(j) ==
    /\ j.pc # "idle" => WritesTo(Other(SideOf(j.ev.ref)))
    /\ conf.direction # "bidirectional" =>
         \A i \in 1..Len(j.writes) : SideOf(j.writes[i].to) = Other(SideOf(j.ev.ref))
    /\ j.pc = "call" => DOMAIN Sent(Head(j.writes)) # {}

Sound(j) == j \in Jobs /\ Placed(j) /\ Allowed(j)

JobsSound == DOMAIN job = Workers /\ \A w \in Workers : Sound(job[w])

\* A link joins two sides; a stored result names a record on the side the
\* call went to.
LinksCross == \A r \in Refs : link[r] # NoRef => link[r] \in Across(r)

ResultsCross == \A x \in results : x[2] \in Refs /\ SideOf(x[2]) = SideOf(x[1][2])

PassTypeOK == pass \in [read : SUBSET Sides, found : SUBSET Events]

PipeInv == TypeOK /\ PassTypeOK /\ JobsSound /\ LinksCross /\ ResultsCross

\* Nobody deletes: every record handed out is there, and no change says that
\* one is gone.
Present(r) == r[2] <= born[SideOf(r)]

NothingGone ==
    /\ \A r \in Refs : Present(r) => rec[r] # Gone
    /\ \A e \in tasks \union pass.found : ~e.deleted /\ Present(e.ref)
    /\ \A w \in Workers : job[w].pc # "idle" =>
         /\ job[w].pc \notin {"delete", "delcall", "delsettle"}
         /\ ~job[w].ev.deleted /\ Present(job[w].ev.ref)

NoDeletes == env.deletes = {} => NothingGone

-----------------------------------------------------------------------------
(* Lemmas about sides, refs, keys and sequences of writes.                  *)

LEMMA SideFacts ==
    /\ \A s \in Sides : Other(s) \in Sides /\ Other(s) # s /\ Other(Other(s)) = s
    /\ \A s, t \in Sides : s # t => t = Other(s)
    /\ "left" \in Sides /\ "right" \in Sides
    /\ Other("left") = "right" /\ Other("right") = "left"
BY DEF Sides, Other

LEMMA RefFacts ==
    ASSUME NEW r \in Refs
    PROVE  /\ SideOf(r) \in Sides /\ r[2] \in 1..MaxRecs /\ r = <<SideOf(r), r[2]>>
           /\ \A s : r # ToCreate(s)
           /\ \A q \in Across(r) : q \in Refs /\ r \in Across(q) /\ SideOf(q) = Other(SideOf(r))
BY SideFacts, BoundsAssumption DEF Refs, SideOf, ToCreate, Across

LEMMA ToCreateFacts ==
    ASSUME NEW s \in Sides
    PROVE  SideOf(ToCreate(s)) = s /\ ToCreate(s) \in Targets
BY DEF SideOf, ToCreate, Targets

(* Lemma: a record has keys of the type the index is made of.               *)
LEMMA KeysType ==
    ASSUME NEW c \in Canonical
    PROVE  KeysOf(c) \in SUBSET (KeyFields \X Values)
BY IdentityAssumption DEF KeysOf, Canonical

LEMMA LockKeyType ==
    ASSUME NEW r \in Refs, NEW c \in Canonical
    PROVE  LockKey(r, c) \in LockKeys
<1>1. \A f \in KeyFields : c[f] \in Values \union {Null, Absent}
    BY IdentityAssumption DEF Canonical
<1>2. Fingerprint(c) \in [KeyFields -> Values \union {Null, Absent}]
    BY <1>1 DEF Fingerprint
<1> QED BY <1>2 DEF LockKey, LockKeys

LEMMA NoRecordType == NoRecord \in Canonical
BY DEF NoRecord, Canonical

(* Lemma: a whole record can be written, and leaves out what is absent.     *)
LEMMA PickWrites ==
    ASSUME NEW c \in Canonical
    PROVE  Pick([fields |-> c]) \in Writes
<1> DEFINE F == {g \in Fields : c[g] # Absent}
<1>1. \A f \in F : c[f] \in Plain
    BY DEF Canonical, Plain
<1>2. Pick([fields |-> c]) \in [F -> Plain]
    BY <1>1 DEF Pick
<1> QED BY <1>2 DEF Writes

(* Lemma: what is sent of a write can be laid over a record.                *)
LEMMA SentWrites ==
    ASSUME NEW wr, wr.values \in Writes
    PROVE  Sent(wr) \in Writes
<1>1. PICK F \in SUBSET Fields : wr.values \in [F -> Plain]
    BY DEF Writes
<1> DEFINE G == F \intersect conf.writable[SideOf(wr.to)]
<1>2. DOMAIN wr.values = F /\ \A f \in F : wr.values[f] \in Plain
    BY <1>1
<1>3. Sent(wr) \in [G -> Plain]
    BY <1>2 DEF Sent
<1> QED BY <1>3 DEF Writes

LEMMA LongSequence ==
    ASSUME NEW S, NEW s \in Seq(S), Len(s) > 1
    PROVE  s # <<>> /\ Tail(s) \in Seq(S) /\ Tail(s) # <<>>
<1>1. s # <<>> /\ Len(s) \in Nat
    BY EmptySeq, LenProperties
<1>2. Tail(s) \in Seq(S) /\ Len(Tail(s)) = Len(s) - 1
    BY <1>1, HeadTailProperties
<1>3. Len(Tail(s)) # 0
    BY <1>1, <1>2
<1> QED BY <1>1, <1>2, <1>3, EmptySeq

LEMMA IdleSound == Sound(Idle)
<1>1. NoRef \in Targets \union {NoRef} /\ NoEvent \in Events \union {NoEvent}
    OBVIOUS
<1>2. [s \in Sides |-> NoDigest] \in [Sides -> Canonical \union {NoDigest}]
    OBVIOUS
<1>3. [s \in Sides |-> NoRecord] \in [Sides -> Canonical]
    BY NoRecordType
<1>4. <<>> \in Seq(WriteRecords) /\ <<>> \in Seq(Rows)
    OBVIOUS
<1>5. Idle \in Jobs
    BY <1>1, <1>2, <1>3, <1>4, NoRecordType DEF Idle, Jobs
<1>6. Placed(Idle)
    BY DEF Placed, Idle, Recording
<1>7. Allowed(Idle)
    BY DEF Allowed, Idle
<1> QED BY <1>5, <1>6, <1>7 DEF Sound

-----------------------------------------------------------------------------
(* Lemmas: what becomes of a pass.  A worker that replaces its job by a     *)
(* sound one keeps all of them sound; the jobs a step builds are sound.     *)

LEMMA SoundKept ==
    ASSUME conf' = conf, NEW w, Sound(job'[w])
    PROVE  Sound(job[w])'
BY DEF Sound, Allowed, WritesTo, Sent

LEMMA OneJob ==
    ASSUME JobsSound, conf' = conf, NEW w \in Workers, NEW j, Sound(j),
           job' = [job EXCEPT ![w] = j]
    PROVE  JobsSound'
<1>1. DOMAIN job' = Workers
    BY DEF JobsSound
<1>2. ASSUME NEW v \in Workers PROVE Sound(job'[v])
    BY DEF JobsSound
<1>3. ASSUME NEW v \in Workers PROVE Sound(job[v])'
    BY <1>2, SoundKept
<1> QED BY <1>1, <1>3 DEF JobsSound

LEMMA SameJobs ==
    ASSUME JobsSound, conf' = conf, job' = job
    PROVE  JobsSound'
<1>1. ASSUME NEW v \in Workers PROVE Sound(job[v])'
    BY SoundKept DEF JobsSound
<1> QED BY <1>1 DEF JobsSound

LEMMA DoneSound ==
    ASSUME JobsSound, conf' = conf, NEW w \in Workers, Done(w)
    PROVE  JobsSound'
BY OneJob, IdleSound DEF Done

\* A task given back is an event, as is one given up.
LEMMA FailSound ==
    ASSUME TypeOK, JobsSound, conf' = conf, NEW w \in Workers, job[w].pc # "idle", FailTask(w)
    PROVE  JobsSound' /\ tasks' \subseteq Events /\ dlq' \subseteq Events
<1>1. job[w].ev \in Events
    BY DEF JobsSound, Sound, Placed
<1>2. JobsSound'
    BY DoneSound DEF FailTask
<1> QED BY <1>1, <1>2 DEF FailTask, TypeOK

LEMMA CreateJobSound ==
    ASSUME NEW j \in Jobs, j.ev \in Events, WritesTo(Other(SideOf(j.ev.ref)))
    PROVE  /\ Sound(CreateJob(j)) /\ Creating(CreateJob(j))
           /\ CreateJob(j).ev = j.ev /\ CreateJob(j).lock = j.lock
           /\ CreateJob(j).drop = j.drop /\ CreateJob(j).pc = "write"
<1> DEFINE r == j.ev.ref
           to == ToCreate(Other(SideOf(r)))
           wr == [to |-> to, from |-> r, values |-> Pick([fields |-> j.body]), base |-> NoRecord]
           c == CreateJob(j)
<1>1. r \in Refs /\ SideOf(r) \in Sides /\ j.body \in Canonical
    BY RefFacts DEF Events, Jobs
<1>2. to \in Targets /\ SideOf(to) = Other(SideOf(r))
    BY <1>1, SideFacts, ToCreateFacts
<1>3. wr \in WriteRecords
    BY <1>1, <1>2, PickWrites, NoRecordType DEF WriteRecords
<1>4. [s \in Sides |-> j.body] \in [Sides -> Canonical]
    BY <1>1
<1>5. /\ c.pc = "write" /\ c.ev = j.ev /\ c.lock = j.lock /\ c.drop = j.drop
      /\ c.far = to /\ c.writes = <<wr>> /\ c.final = [s \in Sides |-> j.body]
      /\ c.body = j.body /\ c.base = j.base
    BY DEF CreateJob, Jobs
<1>6. c \in Jobs
    <2>1. <<wr>> \in Seq(WriteRecords)
        BY <1>3
    <2> QED BY <1>2, <1>4, <2>1 DEF CreateJob, Jobs
<1>7. Len(c.writes) = 1 /\ c.writes[1] = wr /\ Head(c.writes) = wr
    BY <1>5
<1> HIDE DEF wr, c, to
<1>8. wr.to = to /\ wr.from = r
    BY DEF wr
<1>9. Creating(c)
    BY <1>5, <1>7, <1>8 DEF Creating, to
<1>10. Placed(c)
    BY <1>5, <1>7, <1>9 DEF Placed, Recording
<1>11. Allowed(c)
    BY <1>2, <1>5, <1>7, <1>8 DEF Allowed
<1> QED BY <1>5, <1>6, <1>9, <1>10, <1>11 DEF Sound, c

LEMMA DropLinkSound ==
    ASSUME TypeOK, NEW j, Sound(j), j.pc # "idle", NEW r \in Refs, NEW q \in Refs,
           j.writes = <<>> \/ Creating(j)
    PROVE  Sound(DropLink(j, r, q)) /\ DropLink(j, r, q).lock = j.lock
<1> DEFINE d == DropLink(j, r, q)
           rows == LinkRows(r) \o DerivedRows(r, q)
<1>1. j \in Jobs /\ Placed(j) /\ Allowed(j)
    BY DEF Sound
<1>2. LinkRows(r) \in Seq(Rows)
    <2>1. CASE link[r] = NoRef
        <3>1. LinkRows(r) = <<>>
            BY <2>1 DEF LinkRows
        <3> QED BY <3>1, EmptySeq
    <2>2. CASE link[r] # NoRef
        <3>1. <<"link", r>> \in Rows /\ <<"link", link[r]>> \in Rows
            BY <2>2 DEF Rows, TypeOK
        <3> QED BY <2>2, <3>1 DEF LinkRows
    <2> QED BY <2>1, <2>2
<1>3. DerivedRows(r, q) \in Seq(Rows) /\ DerivedRows(r, q) # <<>>
    <2>1. \A x \in {r, q} : <<"keys", x>> \in Rows /\ <<"snap", x>> \in Rows
        BY DEF Rows
    <2> QED BY <2>1 DEF DerivedRows
<1>4. rows \in Seq(Rows) /\ rows # <<>>
    <2>1. /\ rows \in Seq(Rows)
          /\ Len(rows) = Len(LinkRows(r)) + Len(DerivedRows(r, q))
        BY <1>2, <1>3, ConcatProperties
    <2>2. Len(LinkRows(r)) \in Nat /\ Len(DerivedRows(r, q)) \in Nat /\ Len(DerivedRows(r, q)) # 0
        BY <1>2, <1>3, EmptySeq, LenProperties
    <2>3. Len(rows) # 0
        BY <2>1, <2>2
    <2> QED BY <2>1, <2>3, EmptySeq
<1> HIDE DEF rows
<1>5. d = [j EXCEPT !.pc = "drop", !.drop = rows]
    BY DEF DropLink, rows
<1>6. d \in Jobs
    BY <1>1, <1>4, <1>5 DEF Jobs
<1>7. /\ d.pc = "drop" /\ d.drop = rows /\ d.ev = j.ev /\ d.writes = j.writes
      /\ d.lock = j.lock /\ d.far = j.far
    BY <1>1, <1>5 DEF Jobs
<1> HIDE DEF d
<1>8. Placed(d)
    BY <1>1, <1>4, <1>7 DEF Placed, Creating, Recording
<1>9. Allowed(d)
    BY <1>1, <1>7 DEF Allowed
<1> QED BY <1>6, <1>7, <1>8, <1>9 DEF Sound, d

(* Lemma: once a row is dropped, the rest is; then the pass goes on.        *)
LEMMA NextRowSound ==
    ASSUME NEW j, Sound(j), j.pc = "drop"
    PROVE  /\ Len(j.drop) > 1 => Sound([j EXCEPT !.drop = Tail(j.drop)])
           /\ Sound(AfterDrop(j))
<1>1. j \in Jobs /\ Placed(j) /\ Allowed(j) /\ j.ev \in Events /\ j.drop \in Seq(Rows)
    BY DEF Sound, Placed, Jobs
<1>2. ASSUME Len(j.drop) > 1 PROVE Sound([j EXCEPT !.drop = Tail(j.drop)])
    <2> DEFINE d == [j EXCEPT !.drop = Tail(j.drop)]
    <2>1. Tail(j.drop) \in Seq(Rows) /\ Tail(j.drop) # <<>>
        BY <1>1, <1>2, LongSequence
    <2>2. d \in Jobs
        BY <1>1, <2>1 DEF Jobs
    <2>3. /\ d.pc = "drop" /\ d.drop = Tail(j.drop) /\ d.ev = j.ev /\ d.writes = j.writes
          /\ d.far = j.far
        BY <1>1 DEF Jobs
    <2> HIDE DEF d
    <2>4. Placed(d)
        BY <1>1, <2>1, <2>3 DEF Placed, Creating, Recording
    <2>5. Allowed(d)
        BY <1>1, <2>3 DEF Allowed
    <2> QED BY <2>2, <2>4, <2>5 DEF Sound, d
<1>3. CASE j.writes # <<>>
    <2> DEFINE d == [j EXCEPT !.pc = "write", !.drop = <<>>]
    <2>1. d \in Jobs
        BY <1>1, EmptySeq DEF Jobs
    <2>2. d.pc = "write" /\ d.ev = j.ev /\ d.writes = j.writes /\ d.far = j.far
        BY <1>1 DEF Jobs
    <2>3. AfterDrop(j) = d
        BY <1>3 DEF AfterDrop
    <2> HIDE DEF d
    <2>4. Placed(d)
        BY <1>1, <1>3, <2>2 DEF Placed, Creating, Recording
    <2>5. Allowed(d)
        BY <1>1, <2>2 DEF Allowed
    <2> QED BY <1>2, <2>1, <2>3, <2>4, <2>5 DEF Sound
<1>4. CASE j.writes = <<>>
    BY <1>2, <1>4, IdleSound DEF AfterDrop
<1> QED BY <1>3, <1>4

(* Lemma: of the first write, what is written where.                        *)
LEMMA FirstWrite ==
    ASSUME NEW j, Sound(j), j.pc \in {"write", "call", "tag", "settle"}
    PROVE  /\ Head(j.writes) = j.writes[1] /\ j.writes[1] \in WriteRecords
           /\ SideOf(Head(j.writes).to) \in Sides
           /\ IsCreate(Head(j.writes)) =>
                /\ Creating(j)
                /\ SideOf(Head(j.writes).to) = Other(SideOf(j.ev.ref))
           /\ ~IsCreate(Head(j.writes)) =>
                Updating(j) /\ Head(j.writes).to \in Refs
<1>1. j \in Jobs /\ Placed(j) /\ j.ev \in Events /\ j.writes \in Seq(WriteRecords) /\ j.writes # <<>>
    BY DEF Sound, Placed, Jobs
<1>2. Len(j.writes) \in Nat /\ Len(j.writes) >= 1 /\ Head(j.writes) = j.writes[1]
    BY <1>1, EmptySeq
<1>3. j.writes[1] \in WriteRecords /\ j.writes[1].to \in Targets
    <2>1. j.writes[1] \in WriteRecords
        BY <1>1, <1>2, HeadTailProperties
    <2> QED BY <2>1 DEF WriteRecords
<1>4. j.ev.ref \in Refs /\ SideOf(j.ev.ref) \in Sides
    BY <1>1, RefFacts DEF Events
<1>5. SideOf(j.writes[1].to) \in Sides
    BY <1>3, RefFacts, ToCreateFacts DEF Targets
<1>6. CASE Creating(j)
    <2>1. j.writes[1].to = ToCreate(Other(SideOf(j.ev.ref)))
        BY <1>6 DEF Creating
    <2>2. SideOf(j.writes[1].to) = Other(SideOf(j.ev.ref))
        BY <1>4, <2>1, SideFacts, ToCreateFacts
    <2>3. IsCreate(j.writes[1])
        BY <2>1, <2>2 DEF IsCreate
    <2> QED BY <1>2, <1>3, <1>5, <1>6, <2>2, <2>3
<1>7. CASE Updating(j)
    <2>1. j.writes[1].to \in {j.far, j.ev.ref} /\ j.far \in Refs
        BY <1>2, <1>7 DEF Updating, Across
    <2>2. j.writes[1].to \in Refs
        BY <1>4, <2>1
    <2>3. ~IsCreate(j.writes[1])
        BY <2>2, RefFacts DEF IsCreate
    <2> QED BY <1>2, <1>3, <1>5, <1>7, <2>2, <2>3
<1> QED BY <1>1, <1>6, <1>7 DEF Placed

LEMMA AfterWriteSound ==
    ASSUME NEW j, Sound(j), j.pc \in {"write", "settle"}, NEW ref \in Refs,
           IsCreate(Head(j.writes)) => SideOf(ref) = SideOf(Head(j.writes).to)
    PROVE  Sound(AfterWrite(j, ref)) /\ AfterWrite(j, ref).lock = j.lock
<1> DEFINE a == AfterWrite(j, ref)
           ws == j.writes
           far == IF IsCreate(Head(ws)) THEN ref ELSE j.far
           pc == IF Len(ws) > 1 THEN "write" ELSE "link"
<1>1. j \in Jobs /\ Placed(j) /\ Allowed(j) /\ j.ev \in Events /\ ws \in Seq(WriteRecords) /\ ws # <<>>
    BY DEF Sound, Placed, Jobs
<1>2. /\ Tail(ws) \in Seq(WriteRecords) /\ Len(Tail(ws)) = Len(ws) - 1 /\ Len(ws) \in Nat
      /\ \A i \in 1..Len(Tail(ws)) : i + 1 \in 1..Len(ws) /\ Tail(ws)[i] = ws[i + 1]
    BY <1>1, HeadTailProperties
<1>3. far \in Across(j.ev.ref)
    <2>1. CASE IsCreate(Head(ws))
        BY <2>1, FirstWrite DEF Across
    <2>2. CASE ~IsCreate(Head(ws))
        BY <2>2, FirstWrite DEF Updating
    <2> QED BY <2>1, <2>2
<1>4. far \in Targets
    BY <1>3 DEF Across, Targets
<1> HIDE DEF far
<1>5. a = [j EXCEPT !.writes = Tail(ws), !.far = far, !.pc = pc]
    BY DEF AfterWrite, far
<1>6. a \in Jobs
    BY <1>1, <1>2, <1>4, <1>5 DEF Jobs, Recording
<1>7. a.pc = pc /\ a.ev = j.ev /\ a.writes = Tail(ws) /\ a.far = far /\ a.lock = j.lock
    BY <1>1, <1>5 DEF Jobs
<1> HIDE DEF a
<1>8. Placed(a)
    <2>1. CASE Len(ws) > 1
        <3>1. Tail(ws) # <<>>
            BY <1>1, <2>1, LongSequence
        <3>2. ~Creating(j)
            <4>1. SUFFICES ASSUME Len(ws) = 1 PROVE FALSE
                BY DEF Creating
            <4>2. ~(1 > 1)
                OBVIOUS
            <4> QED BY <2>1, <4>1, <4>2
        <3>3. Updating(j) /\ ~IsCreate(Head(ws))
            BY <3>2, FirstWrite
        <3>4. a.far = j.far
            BY <1>7, <3>3 DEF far
        <3>5. Updating(a)
            BY <1>2, <1>3, <1>7, <3>3, <3>4 DEF Updating
        <3> QED BY <1>1, <1>7, <2>1, <3>1, <3>5 DEF Placed, Recording
    <2>2. CASE ~(Len(ws) > 1)
        BY <1>1, <1>3, <1>7, <2>2 DEF Placed, Recording
    <2> QED BY <2>1, <2>2
<1>9. Allowed(a)
    <2>1. ASSUME conf.direction # "bidirectional", NEW i \in 1..Len(a.writes)
          PROVE  SideOf(a.writes[i].to) = Other(SideOf(j.ev.ref))
        BY <1>1, <1>2, <1>7, <2>1 DEF Allowed
    <2>2. WritesTo(Other(SideOf(j.ev.ref))) /\ a.pc # "call"
        BY <1>1, <1>7 DEF Allowed
    <2> QED BY <1>7, <2>1, <2>2 DEF Allowed
<1> QED BY <1>6, <1>7, <1>8, <1>9 DEF Sound, a

(* Lemma: a side that did not change since the last sync is the only one    *)
(* that is written.                                                         *)
LEMMA ResolveSpares ==
    ASSUME NEW r, NEW l, NEW rr
    PROVE  /\ ~Changed(l) => DOMAIN Resolve(r, l, rr).right = {}
           /\ ~Changed(rr) => DOMAIN Resolve(r, l, rr).left = {}
<1>1. DOMAIN NoWrites = {}
    BY DEF NoWrites
<1>2. CASE Diff(l, rr) = {}
    BY <1>1, <1>2 DEF Resolve, Nothing
<1>3. CASE Diff(l, rr) # {}
    <2>1. CASE ~Changed(l) /\ ~Changed(rr)
        BY <1>1, <1>3, <2>1 DEF Resolve, Nothing
    <2>2. CASE Changed(l) /\ ~Changed(rr)
        BY <1>1, <1>3, <2>2 DEF Resolve, WriteRight
    <2>3. CASE ~Changed(l) /\ Changed(rr)
        BY <1>1, <1>3, <2>3 DEF Resolve, WriteLeft
    <2> QED BY <2>1, <2>2, <2>3
<1> QED BY <1>2, <1>3

LEMMA WriteListSound ==
    ASSUME NEW j, Sound(j), j.pc = "resolve", NEW res, NEW state,
           \A s \in Sides : res[s] \in Writes /\ state[s].fields \in Canonical
    PROVE  /\ WriteList(j, res, state) \in Seq(WriteRecords)
           /\ \A i \in 1..Len(WriteList(j, res, state)) :
                \E s \in Sides :
                    /\ DOMAIN res[s] # {}
                    /\ WriteList(j, res, state)[i].to = (IF s = SideOf(j.far) THEN j.far ELSE j.ev.ref)
<1> DEFINE refOf == [s \in Sides |-> IF s = SideOf(j.far) THEN j.far ELSE j.ev.ref]
           row(s) == [to |-> refOf[s], from |-> refOf[Other(s)], values |-> res[s],
                      base |-> state[s].fields]
           write(s) == IF DOMAIN res[s] # {} THEN <<row(s)>> ELSE <<>>
           l == write("left")
           r == write("right")
<1>1. j.far \in Refs /\ j.ev.ref \in Refs
    BY DEF Sound, Placed, Events, Across
<1>2. \A s \in Sides : refOf[s] \in Refs /\ refOf[Other(s)] \in Refs
    BY <1>1, SideFacts
<1>3. ASSUME NEW s \in Sides
      PROVE  write(s) \in Seq(WriteRecords)
             /\ \A i \in 1..Len(write(s)) : DOMAIN res[s] # {} /\ write(s)[i].to = refOf[s]
    <2>1. row(s) \in WriteRecords
        BY <1>2 DEF WriteRecords, Targets
    <2>2. row(s).to = refOf[s]
        OBVIOUS
    <2> HIDE DEF row, refOf
    <2>3. CASE DOMAIN res[s] # {}
        <3>1. write(s) = <<row(s)>>
            BY <2>3
        <3>2. <<row(s)>> \in Seq(WriteRecords) /\ Len(<<row(s)>>) = 1 /\ <<row(s)>>[1] = row(s)
            BY <2>1
        <3> QED BY <2>2, <2>3, <3>1, <3>2
    <2>4. CASE DOMAIN res[s] = {}
        <3>1. write(s) = <<>>
            BY <2>4
        <3>2. 1..Len(<<>>) = {}
            BY EmptySeq
        <3> QED BY <3>1, <3>2, EmptySeq
    <2> QED BY <2>3, <2>4
<1>4. WriteList(j, res, state) = l \o r
    BY DEF WriteList
<1>5. \A s \in Sides : refOf[s] = IF s = SideOf(j.far) THEN j.far ELSE j.ev.ref
    OBVIOUS
<1> HIDE DEF write, refOf
<1>6. l \in Seq(WriteRecords) /\ r \in Seq(WriteRecords)
    BY <1>3, SideFacts
<1>7. /\ l \o r \in Seq(WriteRecords) /\ Len(l \o r) = Len(l) + Len(r)
      /\ \A i \in 1..Len(l) + Len(r) : (l \o r)[i] = IF i <= Len(l) THEN l[i] ELSE r[i - Len(l)]
    BY <1>6, ConcatProperties
<1>8. ASSUME NEW i \in 1..Len(l \o r)
      PROVE  \E s \in Sides : DOMAIN res[s] # {} /\ (l \o r)[i].to = refOf[s]
    <2>0. Len(l) \in Nat /\ Len(r) \in Nat /\ i \in 1..Len(l) + Len(r)
        BY <1>6, <1>7, LenProperties
    <2>1. CASE i <= Len(l)
        <3>1. i \in 1..Len(l) /\ (l \o r)[i] = l[i]
            BY <1>7, <2>0, <2>1
        <3> QED BY <1>3, <3>1, SideFacts
    <2>2. CASE ~(i <= Len(l))
        <3>1. i - Len(l) \in 1..Len(r) /\ (l \o r)[i] = r[i - Len(l)]
            BY <1>7, <2>0, <2>2
        <3> QED BY <1>3, <3>1, SideFacts
    <2> QED BY <2>1, <2>2
<1> QED BY <1>4, <1>5, <1>7, <1>8

-----------------------------------------------------------------------------
(* The steps keep PipeInv.  First people, polls and webhooks.               *)

LEMMA SightingType ==
    ASSUME TypeOK, NEW r \in Refs, NEW how
    PROVE  Sighting(r, how) \in Events
<1>1. CASE rec[r] = Gone
    <2>1. Sighting(r, how) = [ref |-> r, body |-> Thin, deleted |-> TRUE]
        BY <1>1 DEF Sighting
    <2> QED BY <2>1 DEF Events
<1>2. CASE rec[r] # Gone
    <2>1. rec[r] \in Canonical
        BY <1>2 DEF TypeOK
    <2> DEFINE body == IF how = "thin" THEN Thin ELSE rec[r]
    <2>2. body \in Canonical \union {Thin}
        BY <2>1
    <2>3. Sighting(r, how) = [ref |-> r, body |-> body, deleted |-> FALSE]
        BY <1>2 DEF Sighting
    <2> HIDE DEF body
    <2> QED BY <2>2, <2>3 DEF Events
<1> QED BY <1>1, <1>2

LEMMA PipeInit == Init => PipeInv
<1> SUFFICES ASSUME Init PROVE PipeInv
    OBVIOUS
<1>1. env.held \in [Sides -> Canonical \union {Gone}]
    BY EnvironmentsAssumption DEF Init
<1>2. rec \in [Refs -> Canonical \union {Gone}]
    BY <1>1, RefFacts DEF Init
<1>3. born \in [Sides -> 0..MaxRecs]
    BY BoundsAssumption DEF Init
<1>4. /\ link \in [Refs -> Refs \union {NoRef}] /\ snap \in [Refs -> Canonical \union {NoDigest}]
      /\ index \in [Refs -> SUBSET (KeyFields \X Values)]
    BY DEF Init
<1>5. pass \in [read : SUBSET Sides, found : SUBSET Events]
    BY DEF Init, NoPass
<1>6. TypeOK
    BY <1>2, <1>3, <1>4, <1>5, BoundsAssumption DEF Init, TypeOK
<1>7. JobsSound
    BY IdleSound DEF Init, JobsSound
<1>8. LinksCross /\ ResultsCross
    BY DEF Init, LinksCross, ResultsCross
<1> QED BY <1>5, <1>6, <1>7, <1>8 DEF PipeInv, PassTypeOK

LEMMA PeoplePipe ==
    ASSUME PipeInv, People
    PROVE  PipeInv'
<1>1. /\ conf' = conf /\ env' = env /\ pass' = pass /\ tasks' = tasks /\ dlq' = dlq /\ job' = job
      /\ link' = link /\ snap' = snap /\ tags' = tags /\ index' = index /\ results' = results
    BY DEF People, UserCreate, UserEdit, UserDelete, engineVars
<1>2. JobsSound' /\ LinksCross' /\ ResultsCross' /\ PassTypeOK'
    BY <1>1, SameJobs DEF PipeInv, LinksCross, ResultsCross, PassTypeOK
<1>3. userSteps' \in 0..MaxUserSteps
    <2>1. userSteps < MaxUserSteps /\ userSteps' = userSteps + 1
        BY DEF People, UserCreate, UserEdit, UserDelete
    <2>2. userSteps \in 0..MaxUserSteps /\ MaxUserSteps \in Nat
        BY BoundsAssumption DEF PipeInv, TypeOK
    <2> QED BY <2>1, <2>2
<1> DEFINE PeersTyped ==
        /\ rec' \in [Refs -> Canonical \union {Gone}] /\ born' \in [Sides -> 0..MaxRecs]
        /\ unseen' \subseteq Refs
<1>4. PeersTyped
    <2>0. /\ rec \in [Refs -> Canonical \union {Gone}] /\ born \in [Sides -> 0..MaxRecs]
          /\ unseen \subseteq Refs
        BY DEF PipeInv, TypeOK
    <2>1. ASSUME NEW s \in Sides, NEW c \in NewRecords[s], UserCreate(s, c)
          PROVE  PeersTyped
        <3>1. born[s] + 1 \in 1..MaxRecs /\ <<s, born[s] + 1>> \in Refs
            BY <2>0, <2>1, BoundsAssumption DEF UserCreate, Refs
        <3>2. c \in Canonical
            BY PeopleAssumption
        <3> QED BY <2>0, <2>1, <3>1, <3>2 DEF UserCreate
    <2>2. ASSUME NEW r \in Refs, UserDelete(r)
          PROVE  PeersTyped
        BY <2>0, <2>2 DEF UserDelete
    <2>3. ASSUME NEW r \in Refs, NEW f \in EditFields, NEW v \in Values, UserEdit(r, f, v)
          PROVE  PeersTyped
        <3>1. rec[r] \in Canonical
            BY <2>0, <2>3 DEF UserEdit
        <3>2. [rec[r] EXCEPT ![f] = v] \in Canonical
            BY <3>1 DEF Canonical
        <3>3. rec' = [rec EXCEPT ![r] = [rec[r] EXCEPT ![f] = v]]
            BY <2>3 DEF UserEdit
        <3>4. rec' \in [Refs -> Canonical \union {Gone}]
            BY <2>0, <3>2, <3>3
        <3> QED BY <2>0, <2>3, <3>4 DEF UserEdit
    <2> QED BY <2>1, <2>2, <2>3 DEF People
<1>5. TypeOK'
    BY <1>1, <1>3, <1>4 DEF PipeInv, TypeOK
<1> QED BY <1>2, <1>5 DEF PipeInv

LEMMA IndexedType ==
    ASSUME TypeOK
    PROVE  /\ \A r \in Refs : rec[r] # Gone => KeysOf(rec[r]) \in SUBSET (KeyFields \X Values)
           /\ \A s : IndexedOnSight(s) \in [Refs -> SUBSET (KeyFields \X Values)]
<1>1. ASSUME NEW r \in Refs, rec[r] # Gone
      PROVE  KeysOf(rec[r]) \in SUBSET (KeyFields \X Values)
    BY <1>1, KeysType DEF TypeOK
<1> QED BY <1>1 DEF IndexedOnSight, TypeOK

LEMMA SightPipe ==
    ASSUME PipeInv, NEW r \in Refs, NEW how, Sight(r, how)
    PROVE  PipeInv'
<1>1. /\ conf' = conf /\ env' = env /\ rec' = rec /\ born' = born /\ userSteps' = userSteps
      /\ pass' = pass /\ dlq' = dlq /\ job' = job
      /\ link' = link /\ snap' = snap /\ tags' = tags /\ results' = results
    BY DEF Sight, outerVars
<1>2. JobsSound' /\ LinksCross' /\ ResultsCross' /\ PassTypeOK'
    BY <1>1, SameJobs DEF PipeInv, LinksCross, ResultsCross, PassTypeOK
<1>3. tasks' \subseteq Events /\ unseen' \subseteq Refs
    BY SightingType DEF Sight, PipeInv, TypeOK
<1>4. index' \in [Refs -> SUBSET (KeyFields \X Values)]
    BY IndexedType DEF Sight, PipeInv, TypeOK
<1>5. TypeOK'
    BY <1>1, <1>3, <1>4 DEF PipeInv, TypeOK
<1> QED BY <1>2, <1>5 DEF PipeInv

LEMMA PollPipe ==
    ASSUME PipeInv, NEW s \in Sides, ReadPeer(s) \/ ReadPeerFails(s) \/ SubmitAll
    PROVE  PipeInv'
<1>1. /\ conf' = conf /\ env' = env /\ rec' = rec /\ born' = born /\ userSteps' = userSteps
      /\ dlq' = dlq /\ job' = job
      /\ link' = link /\ snap' = snap /\ tags' = tags /\ results' = results
    BY DEF ReadPeer, ReadPeerFails, SubmitAll, engineVars
<1>2. JobsSound' /\ LinksCross' /\ ResultsCross'
    BY <1>1, SameJobs DEF PipeInv, LinksCross, ResultsCross
<1>3. PassTypeOK'
    <2>1. {Sighting(r, "poll") : r \in OnSide(s)} \subseteq Events
        BY SightingType DEF OnSide, PipeInv
    <2>2. pass \in [read : SUBSET Sides, found : SUBSET Events]
        BY DEF PipeInv, PassTypeOK
    <2>3. pass' \in [read : SUBSET Sides, found : SUBSET Events]
        BY <2>1, <2>2 DEF ReadPeer, ReadPeerFails, SubmitAll, NoPass
    <2> QED BY <2>3 DEF PassTypeOK
<1>4. tasks' \subseteq Events /\ unseen' \subseteq Refs
    BY DEF ReadPeer, ReadPeerFails, SubmitAll, PipeInv, TypeOK
<1>5. index' \in [Refs -> SUBSET (KeyFields \X Values)]
    <2>1. index' \in {index, IndexedOnSight(s)}
        BY DEF ReadPeer, ReadPeerFails, SubmitAll, engineVars
    <2> QED BY <2>1, IndexedType DEF PipeInv, TypeOK
<1>6. pass'.found \subseteq Events
    BY <1>3 DEF PassTypeOK
<1>7. TypeOK'
    BY <1>1, <1>4, <1>5, <1>6 DEF PipeInv, TypeOK
<1> QED BY <1>2, <1>3, <1>7 DEF PipeInv

-----------------------------------------------------------------------------
(* A worker's steps up to its first write.                                  *)

LEMMA StartPipe ==
    ASSUME PipeInv, NEW w \in Workers, NEW e \in tasks, Start(w, e)
    PROVE  PipeInv'
<1> DEFINE gated == ~WritesTo(Other(SideOf(e.ref)))
           body == IF e.body = Thin THEN rec[e.ref] ELSE e.body
           del == [Idle EXCEPT !.pc = "delete", !.ev = e]
           ent == [Idle EXCEPT !.pc = "enter", !.ev = e, !.body = body]
           j == CASE gated -> Idle
                  [] ~gated /\ (e.deleted \/ body = Gone) -> del
                  [] OTHER -> ent
<1>1. /\ conf' = conf /\ env' = env /\ rec' = rec /\ born' = born /\ userSteps' = userSteps
      /\ pass' = pass /\ unseen' = unseen /\ dlq' = dlq /\ tasks' \subseteq tasks
      /\ link' = link /\ snap' = snap /\ tags' = tags /\ index' = index /\ results' = results
    BY DEF Start, outerVars, engineVars
<1>2. job' = [job EXCEPT ![w] = j]
    BY DEF Start
<1>3. e \in Events /\ e.ref \in Refs
    BY DEF PipeInv, TypeOK, Events
<1>4. body = Gone \/ body \in Canonical
    BY <1>3 DEF Events, PipeInv, TypeOK
<1>5. Idle \in Jobs /\ Idle.writes = <<>>
    BY IdleSound DEF Sound, Idle
<1> HIDE DEF body
<1>6. ASSUME ~gated PROVE Sound(del)
    <2>1. del \in Jobs
        BY <1>3, <1>5 DEF Jobs
    <2>2. del.pc = "delete" /\ del.ev = e /\ del.writes = <<>>
        BY <1>5 DEF Jobs
    <2> HIDE DEF del
    <2>3. Placed(del)
        BY <1>3, <2>2 DEF Placed, Recording
    <2>4. Allowed(del)
        BY <1>6, <2>2 DEF Allowed
    <2> QED BY <2>1, <2>3, <2>4 DEF Sound
<1>7. ASSUME ~gated, body # Gone PROVE Sound(ent)
    <2>1. ent \in Jobs
        BY <1>3, <1>4, <1>5, <1>7 DEF Jobs
    <2>2. ent.pc = "enter" /\ ent.ev = e /\ ent.writes = <<>>
        BY <1>5 DEF Jobs
    <2> HIDE DEF ent
    <2>3. Placed(ent)
        BY <1>3, <2>2 DEF Placed, Recording
    <2>4. Allowed(ent)
        BY <1>7, <2>2 DEF Allowed
    <2> QED BY <2>1, <2>3, <2>4 DEF Sound
<1> HIDE DEF del, ent
<1>8. Sound(j)
    BY <1>6, <1>7, IdleSound
<1> HIDE DEF j
<1>9. JobsSound'
    BY <1>1, <1>2, <1>8, OneJob DEF PipeInv
<1>10. LinksCross' /\ ResultsCross' /\ PassTypeOK' /\ TypeOK'
    BY <1>1 DEF PipeInv, LinksCross, ResultsCross, PassTypeOK, TypeOK
<1> QED BY <1>9, <1>10 DEF PipeInv

LEMMA CounterpartsCross ==
    ASSUME PipeInv, NEW r \in Refs, NEW c
    PROVE  Counterparts(r, c) \subseteq Across(r)
BY DEF PipeInv, LinksCross, Counterparts, Across

LEMMA ReconcilingSound ==
    ASSUME TypeOK, NEW j, Sound(j), j.pc = "enter", NEW q \in Across(j.ev.ref)
    PROVE  Sound(Reconciling(j, q)) /\ Reconciling(j, q).lock = j.lock
<1> DEFINE base == [s \in Sides |-> snap[IF s = SideOf(q) THEN q ELSE j.ev.ref]]
           c == Reconciling(j, q)
<1>1. j \in Jobs /\ Placed(j) /\ Allowed(j) /\ j.ev \in Events /\ j.ev.ref \in Refs /\ q \in Refs
    BY DEF Sound, Placed, Events, Across
<1>2. base \in [Sides -> Canonical \union {NoDigest}]
    BY <1>1 DEF TypeOK
<1> HIDE DEF base
<1>3. c = [j EXCEPT !.pc = "resolve", !.far = q, !.base = base]
    BY DEF Reconciling, base
<1>4. c \in Jobs
    BY <1>1, <1>2, <1>3 DEF Jobs, Targets
<1>5. c.pc = "resolve" /\ c.far = q /\ c.ev = j.ev /\ c.writes = j.writes /\ c.lock = j.lock
    BY <1>1, <1>3 DEF Jobs
<1> HIDE DEF c
<1>6. Placed(c)
    BY <1>1, <1>5 DEF Placed, Recording
<1>7. Allowed(c)
    BY <1>1, <1>5 DEF Allowed
<1> QED BY <1>4, <1>5, <1>6, <1>7 DEF Sound, c

(* Lemma: what a pass makes of its job under the lock.                      *)
LEMMA EnterJob ==
    ASSUME PipeInv, NEW w \in Workers, Enter(w)
    PROVE  \E j : /\ Sound(j) /\ job' = [job EXCEPT ![w] = j]
                  /\ \/ j = Idle
                     \/ /\ j.pc \in {"resolve", "write"} /\ j.ev = job[w].ev
                        /\ j.lock = LockKey(job[w].ev.ref, job[w].body)
<1> DEFINE j == job[w]
           r == j.ev.ref
           k == LockKey(r, j.body)
           locked == [j EXCEPT !.lock = k]
           found == Counterparts(r, j.body)
           q == CHOOSE x \in found : TRUE
<1>1. Sound(j) /\ j \in Jobs /\ Placed(j) /\ Allowed(j) /\ j.pc = "enter"
    BY DEF PipeInv, JobsSound, Sound, Enter
<1>2. j.ev \in Events /\ r \in Refs /\ j.body \in Canonical
    BY <1>1 DEF Placed, Events, Jobs
<1>3. k \in LockKeys
    BY <1>2, LockKeyType
<1> HIDE DEF k
<1>4. Sound(locked) /\ locked.pc = "enter" /\ locked.ev = j.ev /\ locked.lock = k
    <2>1. locked \in Jobs
        BY <1>1, <1>3 DEF Jobs
    <2>2. /\ locked.pc = "enter" /\ locked.ev = j.ev /\ locked.writes = j.writes
          /\ locked.lock = k /\ locked.far = j.far
        BY <1>1 DEF Jobs
    <2> HIDE DEF locked
    <2>3. Placed(locked)
        BY <1>1, <2>2 DEF Placed, Recording
    <2>4. Allowed(locked)
        BY <1>1, <2>2 DEF Allowed
    <2> QED BY <2>1, <2>2, <2>3, <2>4 DEF Sound
<1>5. CASE IsEcho(r, j.body)
    <2>1. job' = [job EXCEPT ![w] = Idle]
        BY <1>5 DEF Enter, Done
    <2> QED BY <2>1, IdleSound
<1>6. CASE ~IsEcho(r, j.body)
    <2>1. job' = [job EXCEPT ![w] =
                 CASE Identified(found) = "pair" -> Reconciling(locked, q)
                   [] Identified(found) = "create" -> CreateJob(locked)
                   [] OTHER -> Idle]
        BY <1>6 DEF Enter, k
    <2> HIDE DEF locked
    <2>2. CASE Identified(found) = "pair"
        <3>1. job' = [job EXCEPT ![w] = Reconciling(locked, q)]
            BY <2>1, <2>2
        <3>2. found # {}
            <4>1. Cardinality({}) = 0
                BY FS_EmptySet
            <4> QED BY <2>2, <4>1, IdentityAssumption DEF Identified
        <3>3. q \in found
            BY <3>2
        <3>4. q \in Across(locked.ev.ref)
            BY <1>2, <1>4, <3>3, CounterpartsCross
        <3> HIDE DEF q
        <3>5. Sound(Reconciling(locked, q)) /\ Reconciling(locked, q).lock = k
            BY <1>4, <3>4, ReconcilingSound DEF PipeInv
        <3>6. Reconciling(locked, q).ev = j.ev /\ Reconciling(locked, q).pc = "resolve"
            BY <1>4 DEF Reconciling, Sound, Jobs
        <3> QED BY <3>1, <3>5, <3>6 DEF k
    <2>3. CASE Identified(found) = "create"
        <3>1. job' = [job EXCEPT ![w] = CreateJob(locked)]
            BY <2>1, <2>3
        <3>2. /\ locked \in Jobs /\ locked.ev \in Events
              /\ WritesTo(Other(SideOf(locked.ev.ref)))
            BY <1>4 DEF Sound, Placed, Allowed
        <3>3. /\ Sound(CreateJob(locked)) /\ CreateJob(locked).ev = j.ev
              /\ CreateJob(locked).lock = k /\ CreateJob(locked).pc = "write"
            BY <1>4, <3>2, CreateJobSound
        <3> QED BY <3>1, <3>3 DEF k
    <2>4. CASE Identified(found) \notin {"pair", "create"}
        <3>1. job' = [job EXCEPT ![w] = Idle]
            BY <2>1, <2>4
        <3> QED BY <3>1, IdleSound
    <2> QED BY <2>2, <2>3, <2>4
<1> QED BY <1>5, <1>6

LEMMA EnterPipe ==
    ASSUME PipeInv, NEW w \in Workers, Enter(w)
    PROVE  PipeInv'
<1>1. /\ conf' = conf /\ env' = env /\ rec' = rec /\ born' = born /\ userSteps' = userSteps
      /\ pass' = pass /\ unseen' = unseen /\ dlq' = dlq /\ tasks' = tasks
      /\ link' = link /\ snap' = snap /\ results' = results
    BY DEF Enter, outerVars
<1>2. JobsSound'
    BY <1>1, EnterJob, OneJob DEF PipeInv
<1>3. tags' \subseteq tags
    BY DEF Enter
<1>4. job[w].body \in Canonical
    BY DEF PipeInv, JobsSound, Sound, Jobs
<1>5. index' \in [Refs -> SUBSET (KeyFields \X Values)]
    BY <1>4, KeysType DEF Enter, PipeInv, TypeOK
<1>6. LinksCross' /\ ResultsCross' /\ PassTypeOK' /\ TypeOK'
    BY <1>1, <1>3, <1>5 DEF PipeInv, LinksCross, ResultsCross, PassTypeOK, TypeOK
<1> QED BY <1>2, <1>6 DEF PipeInv

LEMMA RecreatePipe ==
    ASSUME PipeInv, NEW w \in Workers, Recreate(w)
    PROVE  PipeInv'
<1> DEFINE c == CreateJob(job[w])
<1>1. /\ conf' = conf /\ env' = env /\ rec' = rec /\ born' = born /\ userSteps' = userSteps
      /\ pass' = pass /\ unseen' = unseen /\ dlq' = dlq /\ tasks' = tasks
      /\ link' = link /\ snap' = snap /\ tags' = tags /\ index' = index /\ results' = results
    BY DEF Recreate, outerVars, engineVars
<1>2. Sound(job[w]) /\ job[w].pc = "resolve"
    BY DEF PipeInv, JobsSound, Recreate
<1>3. /\ job[w] \in Jobs /\ job[w].ev \in Events /\ WritesTo(Other(SideOf(job[w].ev.ref)))
      /\ job[w].far \in Refs /\ job[w].ev.ref \in Refs
    BY <1>2 DEF Sound, Placed, Allowed, Across, Events
<1>4. Sound(c) /\ Creating(c) /\ c.pc = "write"
    BY <1>3, CreateJobSound
<1> HIDE DEF c
<1>5. Sound(DropLink(c, job[w].ev.ref, job[w].far))
    BY <1>3, <1>4, DropLinkSound DEF PipeInv
<1>6. job' = [job EXCEPT ![w] = DropLink(c, job[w].ev.ref, job[w].far)]
    BY DEF Recreate, c
<1>7. JobsSound'
    BY <1>1, <1>5, <1>6, OneJob DEF PipeInv
<1>8. LinksCross' /\ ResultsCross' /\ PassTypeOK' /\ TypeOK'
    BY <1>1 DEF PipeInv, LinksCross, ResultsCross, PassTypeOK, TypeOK
<1> QED BY <1>7, <1>8 DEF PipeInv

LEMMA ReconcilePipe ==
    ASSUME PipeInv, NEW w \in Workers, Reconcile(w)
    PROVE  PipeInv' /\ (job'[w].lock = job[w].lock \/ job'[w] = Idle)
<1> DEFINE j == job[w]
           near == SideOf(j.ev.ref)
           state == States(j)
           res == Resolution(state)
           writes == WriteList(j, res, state)
           final == [s \in Sides |-> Overlaid(state[s].fields, res[s])]
           pc == IF writes = <<>> THEN "link" ELSE "write"
           n == [j EXCEPT !.pc = pc, !.writes = writes, !.final = final]
<1>1. /\ conf' = conf /\ env' = env /\ rec' = rec /\ born' = born /\ userSteps' = userSteps
      /\ pass' = pass /\ unseen' = unseen /\ dlq' = dlq /\ tasks' = tasks
      /\ link' = link /\ snap' = snap /\ tags' = tags /\ index' = index /\ results' = results
    BY DEF Reconcile, outerVars
<1>2. LinksCross' /\ ResultsCross' /\ PassTypeOK' /\ TypeOK'
    BY <1>1 DEF PipeInv, LinksCross, ResultsCross, PassTypeOK, TypeOK
<1>3. /\ Sound(j) /\ j \in Jobs /\ Placed(j) /\ Allowed(j) /\ j.pc = "resolve"
      /\ w \in DOMAIN job
    BY DEF PipeInv, JobsSound, Sound, Reconcile
<1>4. /\ j.ev.ref \in Refs /\ j.far \in Refs /\ near \in Sides /\ SideOf(j.far) = Other(near)
      /\ SideOf(j.far) \in Sides /\ j.body \in Canonical
      /\ j.base[SideOf(j.far)] \in Canonical \union {NoDigest}
    <2>1. j.ev.ref \in Refs /\ j.far \in Across(j.ev.ref) /\ j.ev \in Events
        BY <1>3 DEF Placed, Events
    <2>2. near \in Sides /\ j.far \in Refs /\ SideOf(j.far) = Other(near) /\ SideOf(j.far) \in Sides
        BY <2>1, RefFacts, SideFacts
    <2> QED BY <1>3, <2>1, <2>2 DEF Jobs
<1>5. FarState(j).fields \in Canonical
    <2>1. CASE conf.direction = "bidirectional"
        <3>1. rec[j.far] \in Canonical
            BY <1>4, <2>1 DEF Reconcile, FarGone, PipeInv, TypeOK
        <3> QED BY <2>1, <3>1 DEF FarState, StateOf
    <2>2. CASE conf.direction # "bidirectional"
        BY <1>4, <2>2, NoRecordType DEF FarState, StateOf
    <2> QED BY <2>1, <2>2
<1>6. \A s \in Sides : state[s].fields \in Canonical
    <2>1. StateOf(j.body, j.body, j.base[near]).fields \in Canonical
        BY <1>4 DEF StateOf
    <2> QED BY <1>5, <2>1 DEF States
<1>s. /\ state[Other(near)] = FarState(j)
      /\ near = "left" \/ near = "right"
    BY <1>4, SideFacts DEF States, Sides
<1> HIDE DEF state
<1>7. res.left \in Writes /\ res.right \in Writes
    BY <1>6, SideFacts, ResolveWrites DEF Resolution
<1>8. conf.direction # "bidirectional" => DOMAIN res[near] = {}
    <2> SUFFICES ASSUME conf.direction # "bidirectional" PROVE DOMAIN res[near] = {}
        OBVIOUS
    <2>1. ~Changed(FarState(j))
        BY DEF FarState, StateOf, Changed
    <2>2. /\ near = "left" => ~Changed(state["right"])
          /\ near = "right" => ~Changed(state["left"])
        BY <1>s, <2>1, SideFacts
    <2> QED BY <1>s, <2>2, ResolveSpares DEF Resolution
<1> HIDE DEF res
<1>9. \A s \in Sides : res[s] \in Writes
    BY <1>7 DEF Sides
<1>10. /\ writes \in Seq(WriteRecords)
       /\ \A i \in 1..Len(writes) :
            \E s \in Sides :
                /\ DOMAIN res[s] # {}
                /\ writes[i].to = (IF s = SideOf(j.far) THEN j.far ELSE j.ev.ref)
    BY <1>3, <1>6, <1>9, WriteListSound
<1>11. final \in [Sides -> Canonical]
    BY <1>6, <1>9, OverlaidType
<1>12. CASE res.action = "escalate"
    <2>1. job' = [job EXCEPT ![w] = Idle]
        BY <1>12 DEF Reconcile, Done, res, state
    <2>2. JobsSound'
        BY <1>1, <2>1, IdleSound, OneJob DEF PipeInv
    <2> QED BY <1>2, <1>3, <2>1, <2>2 DEF PipeInv
<1>13. CASE res.action # "escalate"
    <2>1. job' = [job EXCEPT ![w] = n]
        BY <1>13 DEF Reconcile, res, state
    <2> HIDE DEF writes, final
    <2>2. n \in Jobs
        BY <1>3, <1>10, <1>11 DEF Jobs, Recording
    <2>3. n.pc = pc /\ n.writes = writes /\ n.ev = j.ev /\ n.far = j.far /\ n.lock = j.lock
        BY <1>3 DEF Jobs
    <2> HIDE DEF n
    <2>4. j.far \in Across(j.ev.ref)
        BY <1>3 DEF Placed
    <2>5. Updating(n)
        <3>1. \A i \in 1..Len(writes) : writes[i].to \in {j.far, j.ev.ref}
            BY <1>10
        <3> QED BY <2>3, <2>4, <3>1 DEF Updating
    <2>6. Placed(n)
        BY <1>3, <2>3, <2>4, <2>5 DEF Placed, Recording
    <2>7. ASSUME conf.direction # "bidirectional", NEW i \in 1..Len(writes)
          PROVE  SideOf(writes[i].to) = Other(near)
        <3>1. PICK s \in Sides : DOMAIN res[s] # {}
                    /\ writes[i].to = (IF s = SideOf(j.far) THEN j.far ELSE j.ev.ref)
            BY <1>10
        <3>2. s # near
            BY <1>8, <2>7, <3>1
        <3>3. s = SideOf(j.far)
            BY <1>4, <3>2, SideFacts
        <3> QED BY <1>4, <3>1, <3>3
    <2>8. Allowed(n)
        BY <1>3, <2>3, <2>7 DEF Allowed
    <2>9. JobsSound'
        BY <1>1, <2>1, <2>2, <2>6, <2>8, OneJob DEF PipeInv, Sound
    <2>10. job'[w].lock = job[w].lock
        BY <1>3, <2>1, <2>3
    <2> QED BY <1>2, <2>9, <2>10 DEF PipeInv
<1> QED BY <1>12, <1>13

LEMMA DropRowPipe ==
    ASSUME PipeInv, NEW w \in Workers, DropRow(w)
    PROVE  PipeInv'
<1> DEFINE j == job[w]
           row == Head(j.drop)
<1>1. /\ conf' = conf /\ env' = env /\ rec' = rec /\ born' = born /\ userSteps' = userSteps
      /\ pass' = pass /\ unseen' = unseen /\ dlq' = dlq /\ tasks' = tasks
      /\ tags' = tags /\ results' = results
    BY DEF DropRow, outerVars
<1>2. Sound(j) /\ j.pc = "drop"
    BY DEF PipeInv, JobsSound, DropRow
<1>3. job' = [job EXCEPT ![w] = IF Len(j.drop) > 1 THEN [j EXCEPT !.drop = Tail(j.drop)]
                                ELSE AfterDrop(j)]
    BY DEF DropRow
<1>4. Sound(IF Len(j.drop) > 1 THEN [j EXCEPT !.drop = Tail(j.drop)] ELSE AfterDrop(j))
    BY <1>2, NextRowSound
<1>5. JobsSound'
    BY <1>1, <1>3, <1>4, OneJob DEF PipeInv
<1>6. /\ link \in [Refs -> Refs \union {NoRef}] /\ snap \in [Refs -> Canonical \union {NoDigest}]
      /\ index \in [Refs -> SUBSET (KeyFields \X Values)]
    BY DEF PipeInv, TypeOK
<1>7. /\ \/ link' = [link EXCEPT ![row[2]] = NoRef]
         \/ link' = link
      /\ \/ snap' = [snap EXCEPT ![row[2]] = NoDigest]
         \/ snap' = snap
      /\ \/ index' = [index EXCEPT ![row[2]] = {}]
         \/ index' = index
    BY DEF DropRow
<1>8. link' \in [Refs -> Refs \union {NoRef}] /\ \A r \in Refs : link'[r] \in {link[r], NoRef}
    BY <1>6, <1>7
<1>9. snap' \in [Refs -> Canonical \union {NoDigest}] /\ index' \in [Refs -> SUBSET (KeyFields \X Values)]
    BY <1>6, <1>7
<1>10. LinksCross'
    BY <1>8 DEF PipeInv, LinksCross
<1>11. ResultsCross' /\ PassTypeOK' /\ TypeOK'
    BY <1>1, <1>8, <1>9 DEF PipeInv, ResultsCross, PassTypeOK, TypeOK
<1> QED BY <1>5, <1>10, <1>11 DEF PipeInv

(* Lemma: a worker that gives its task back, with the store and the peers   *)
(* as they were.                                                            *)
LEMMA FailPipe ==
    ASSUME PipeInv, NEW w \in Workers, ReadFails(w) \/ UpsertDropped(w)
    PROVE  PipeInv'
<1>1. /\ conf' = conf /\ env' = env /\ rec' = rec /\ born' = born /\ userSteps' = userSteps
      /\ pass' = pass /\ unseen' = unseen
      /\ link' = link /\ snap' = snap /\ tags' = tags /\ index' = index /\ results' = results
    BY DEF ReadFails, UpsertDropped, outerVars, engineVars
<1>2. job[w].pc # "idle" /\ FailTask(w)
    BY DEF ReadFails, UpsertDropped
<1>3. JobsSound' /\ tasks' \subseteq Events /\ dlq' \subseteq Events
    BY <1>1, <1>2, FailSound DEF PipeInv
<1>4. LinksCross' /\ ResultsCross' /\ PassTypeOK' /\ TypeOK'
    BY <1>1, <1>3 DEF PipeInv, LinksCross, ResultsCross, PassTypeOK, TypeOK
<1> QED BY <1>3, <1>4 DEF PipeInv

-----------------------------------------------------------------------------
(* The calls.                                                               *)

LEMMA PredictedType ==
    ASSUME NEW wr \in WriteRecords
    PROVE  Predicted(wr) \in Canonical
<1>1. wr.base \in Canonical /\ wr.values \in Writes
    BY DEF WriteRecords
<1> QED BY <1>1, OverlaidType DEF Predicted

(* Lemma: a step that moves a pass on to its call.                          *)
LEMMA CallSound ==
    ASSUME NEW j, Sound(j), j.pc = "write", DOMAIN Sent(Head(j.writes)) # {}
    PROVE  Sound([j EXCEPT !.pc = "call"])
<1> DEFINE c == [j EXCEPT !.pc = "call"]
<1>1. j \in Jobs /\ Placed(j) /\ Allowed(j)
    BY DEF Sound
<1>2. c \in Jobs
    BY <1>1 DEF Jobs
<1>3. c.pc = "call" /\ c.ev = j.ev /\ c.writes = j.writes /\ c.far = j.far
    BY <1>1 DEF Jobs
<1> HIDE DEF c
<1>4. Placed(c)
    BY <1>1, <1>3 DEF Placed, Creating, Updating, Recording
<1>5. Allowed(c)
    BY <1>1, <1>3 DEF Allowed
<1> QED BY <1>2, <1>4, <1>5 DEF Sound, c

LEMMA BeginWritePipe ==
    ASSUME PipeInv, NEW w \in Workers, BeginWrite(w)
    PROVE  PipeInv'
<1> DEFINE j == job[w]
           wr == Head(j.writes)
<1>1. /\ conf' = conf /\ env' = env /\ rec' = rec /\ born' = born /\ userSteps' = userSteps
      /\ pass' = pass /\ unseen' = unseen
      /\ link' = link /\ snap' = snap /\ index' = index /\ results' = results
    BY DEF BeginWrite, outerVars
<1>2. LinksCross' /\ ResultsCross' /\ PassTypeOK'
    BY <1>1 DEF PipeInv, LinksCross, ResultsCross, PassTypeOK
<1>3. Sound(j) /\ j \in Jobs /\ Placed(j) /\ Allowed(j) /\ j.pc = "write" /\ w \in DOMAIN job
    BY DEF PipeInv, JobsSound, Sound, BeginWrite
<1>4. /\ wr \in WriteRecords
      /\ ~IsCreate(wr) => wr.to \in Refs
    BY <1>3, FirstWrite
<1> HIDE DEF wr
<1>5. tags' \subseteq Refs \X Canonical
    <2>1. tags' = tags \/ (~IsCreate(wr) /\ tags' = tags \union {<<wr.to, Predicted(wr)>>})
        BY DEF BeginWrite, wr
    <2> QED BY <1>4, <2>1, PredictedType DEF PipeInv, TypeOK
<1>6. JobsSound' /\ tasks' \subseteq Events /\ dlq' \subseteq Events
    <2>0. tasks \subseteq Events /\ dlq \subseteq Events
        BY DEF PipeInv, TypeOK
    <2>1. CASE DOMAIN Sent(wr) = {} /\ IsCreate(wr)
        <3>1. Done(w) /\ tasks' = tasks /\ dlq' = dlq
            BY <2>1 DEF BeginWrite, wr
        <3> QED BY <1>1, <2>0, <3>1, DoneSound DEF PipeInv
    <2>2. CASE DOMAIN Sent(wr) = {} /\ ~IsCreate(wr)
        <3>1. job' = [job EXCEPT ![w] = AfterWrite(j, wr.to)] /\ tasks' = tasks /\ dlq' = dlq
            BY <2>2 DEF BeginWrite, wr
        <3>2. Sound(AfterWrite(j, wr.to))
            BY <1>3, <1>4, <2>2, AfterWriteSound DEF wr
        <3> QED BY <1>1, <2>0, <3>1, <3>2, OneJob DEF PipeInv
    <2>3. ASSUME NEW x \in Answer(IdemKey(wr)), job' = [job EXCEPT ![w] = AfterWrite(j, x[2])],
                 tasks' = tasks, dlq' = dlq
          PROVE  JobsSound' /\ tasks' \subseteq Events /\ dlq' \subseteq Events
        <3>1. x \in results /\ x[1] = <<wr.from, wr.to, Predicted(wr)>>
            BY DEF Answer, IdemKey
        <3>2. x[2] \in Refs /\ SideOf(x[2]) = SideOf(wr.to)
            BY <3>1 DEF PipeInv, ResultsCross
        <3>3. Sound(AfterWrite(j, x[2]))
            BY <1>3, <3>2, AfterWriteSound DEF wr
        <3> QED BY <1>1, <2>0, <2>3, <3>3, OneJob DEF PipeInv
    <2>4. CASE FailTask(w)
        BY <1>1, <1>3, <2>4, FailSound DEF PipeInv
    <2>5. CASE DOMAIN Sent(wr) # {} /\ job' = [job EXCEPT ![w].pc = "call"]
               /\ tasks' = tasks /\ dlq' = dlq
        <3>1. job' = [job EXCEPT ![w] = [j EXCEPT !.pc = "call"]]
            BY <2>5
        <3>2. Sound([j EXCEPT !.pc = "call"])
            BY <1>3, <2>5, CallSound DEF wr
        <3> QED BY <1>1, <2>0, <2>5, <3>1, <3>2, OneJob DEF PipeInv
    <2> QED BY <2>1, <2>2, <2>3, <2>4, <2>5 DEF BeginWrite, wr
<1>7. TypeOK'
    BY <1>1, <1>5, <1>6 DEF PipeInv, TypeOK
<1> QED BY <1>2, <1>6, <1>7 DEF PipeInv

(* Lemma: where a write lands, and that it leaves records of mapped fields. *)
LEMMA LandsType ==
    ASSUME PipeInv, NEW w \in Workers, job[w].pc = "call", Lands(Head(job[w].writes))
    PROVE  /\ Landed(Head(job[w].writes)) \in Across(job[w].ev.ref) \union {job[w].ev.ref}
           /\ IsCreate(Head(job[w].writes)) =>
                Landed(Head(job[w].writes)) \in Across(job[w].ev.ref)
           /\ rec' \in [Refs -> Canonical \union {Gone}] /\ born' \in [Sides -> 0..MaxRecs]
           /\ unseen' \subseteq Refs
           /\ rec'[Landed(Head(job[w].writes))] # Gone
           /\ \A q \in Refs : q # Landed(Head(job[w].writes)) => rec'[q] = rec[q]
<1> DEFINE j == job[w]
           wr == Head(j.writes)
           r == Landed(wr)
<1>1. Sound(j)
    BY DEF PipeInv, JobsSound
<1>2. /\ wr \in WriteRecords /\ SideOf(wr.to) \in Sides
      /\ IsCreate(wr) => SideOf(wr.to) = Other(SideOf(j.ev.ref))
      /\ ~IsCreate(wr) => wr.to \in Refs /\ Updating(j)
    BY <1>1, FirstWrite
<1>3. j.ev.ref \in Refs /\ wr = j.writes[1] /\ j.writes # <<>> /\ j.writes \in Seq(WriteRecords)
    BY <1>1, FirstWrite DEF Sound, Placed, Events, Jobs
<1> HIDE DEF wr
<1>4. /\ rec \in [Refs -> Canonical \union {Gone}] /\ born \in [Sides -> 0..MaxRecs]
      /\ unseen \subseteq Refs
    BY DEF PipeInv, TypeOK
<1>5. ASSUME IsCreate(wr)
      PROVE  r \in Across(j.ev.ref) /\ born[SideOf(wr.to)] + 1 \in 0..MaxRecs
    <2>1. r = <<SideOf(wr.to), born[SideOf(wr.to)] + 1>>
        BY <1>5 DEF Landed
    <2>2. born[SideOf(wr.to)] \in 0..MaxRecs /\ born[SideOf(wr.to)] < MaxRecs
        BY <1>2, <1>4, <1>5 DEF Lands, wr
    <2>3. born[SideOf(wr.to)] + 1 \in 1..MaxRecs
        BY <2>2, BoundsAssumption
    <2>4. r \in Refs /\ SideOf(r) = SideOf(wr.to)
        BY <1>2, <2>1, <2>3 DEF Refs, SideOf
    <2>5. born[SideOf(wr.to)] + 1 \in 0..MaxRecs
        BY <2>3, BoundsAssumption
    <2> QED BY <1>2, <1>5, <2>4, <2>5 DEF Across
<1>6. ASSUME ~IsCreate(wr)
      PROVE  r \in Across(j.ev.ref) \union {j.ev.ref}
    <2>1. 1 \in 1..Len(j.writes)
        BY <1>3, EmptySeq
    <2>2. wr.to \in {j.far, j.ev.ref} /\ j.far \in Across(j.ev.ref)
        BY <1>2, <1>3, <1>6, <2>1 DEF Updating
    <2> QED BY <1>6, <2>2 DEF Landed
<1>7. r \in Refs
    BY <1>3, <1>5, <1>6 DEF Across
<1> HIDE DEF r
<1>8. /\ rec' \in [Refs -> Canonical \union {Gone}]
      /\ rec'[r] # Gone /\ \A q \in Refs : q # r => rec'[q] = rec[q]
    <2>1. Sent(wr) \in Writes
        BY <1>2, SentWrites DEF WriteRecords
    <2>2. (IF rec[r] = Gone THEN NoRecord ELSE rec[r]) \in Canonical
        BY <1>4, <1>7, NoRecordType
    <2>3. Overlaid(IF rec[r] = Gone THEN NoRecord ELSE rec[r], Sent(wr)) \in Canonical
        BY <2>1, <2>2, OverlaidType
    <2>4. rec' = [rec EXCEPT ![r] =
                    Overlaid(IF rec[r] = Gone THEN NoRecord ELSE rec[r], Sent(wr))]
        BY DEF Lands, r, wr
    <2> QED BY <1>4, <1>7, <2>3, <2>4, MarkersAssumption
<1>9. born' \in [Sides -> 0..MaxRecs]
    <2>1. CASE IsCreate(wr)
        <3>1. born' = [born EXCEPT ![SideOf(wr.to)] = born[SideOf(wr.to)] + 1]
            BY <2>1 DEF Lands, wr
        <3> QED BY <1>2, <1>4, <1>5, <2>1, <3>1
    <2>2. CASE ~IsCreate(wr)
        BY <1>4, <2>2 DEF Lands, wr
    <2> QED BY <2>1, <2>2
<1>10. unseen' \subseteq Refs
    BY <1>4, <1>7 DEF Lands, r, wr
<1> QED BY <1>5, <1>6, <1>8, <1>9, <1>10 DEF r, wr

LEMMA UpsertPipe ==
    ASSUME PipeInv, NEW w \in Workers, Upsert(w)
    PROVE  PipeInv' /\ job'[w].lock = job[w].lock
<1> DEFINE j == job[w]
           wr == Head(j.writes)
           far == IF IsCreate(wr) THEN Landed(wr) ELSE j.far
           pc == IF IsCreate(wr) THEN "tag" ELSE "settle"
           n == [j EXCEPT !.pc = pc, !.far = far]
<1>1. /\ conf' = conf /\ env' = env /\ userSteps' = userSteps
      /\ pass' = pass /\ tasks' = tasks /\ dlq' = dlq
      /\ link' = link /\ snap' = snap /\ tags' = tags /\ index' = index /\ results' = results
    BY DEF Upsert, engineVars
<1>2. LinksCross' /\ ResultsCross' /\ PassTypeOK'
    BY <1>1 DEF PipeInv, LinksCross, ResultsCross, PassTypeOK
<1>3. /\ Sound(j) /\ j \in Jobs /\ Placed(j) /\ Allowed(j) /\ j.pc = "call"
      /\ w \in DOMAIN job /\ Lands(wr)
    BY DEF PipeInv, JobsSound, Sound, Upsert
<1>4. /\ rec' \in [Refs -> Canonical \union {Gone}] /\ born' \in [Sides -> 0..MaxRecs]
      /\ unseen' \subseteq Refs
      /\ IsCreate(wr) => Landed(wr) \in Across(j.ev.ref)
    BY <1>3, LandsType
<1>5. TypeOK'
    BY <1>1, <1>4 DEF PipeInv, TypeOK
<1>6. ~IsCreate(wr) => Updating(j)
    BY <1>3, FirstWrite
<1>7. far \in Across(j.ev.ref)
    BY <1>4, <1>6 DEF Updating
<1>8. job' = [job EXCEPT ![w] = n]
    BY <1>3 DEF Upsert
<1>9. Creating(j) \/ (Updating(j) /\ far = j.far)
    BY <1>3, <1>6, FirstWrite
<1>e. pc \in {"tag", "settle"}
    OBVIOUS
<1> HIDE DEF far, wr, pc
<1>10. n \in Jobs
    BY <1>3, <1>7, <1>e DEF Jobs, Across, Targets
<1>11. n.pc = pc /\ n.ev = j.ev /\ n.writes = j.writes /\ n.far = far /\ n.lock = j.lock
    BY <1>3 DEF Jobs
<1> HIDE DEF n
<1>12. Creating(n) \/ Updating(n)
    BY <1>7, <1>9, <1>11 DEF Creating, Updating
<1>13. Placed(n)
    BY <1>3, <1>7, <1>11, <1>12, <1>e DEF Placed, Recording
<1>14. Allowed(n)
    BY <1>3, <1>11, <1>e DEF Allowed
<1>15. JobsSound'
    BY <1>1, <1>8, <1>10, <1>13, <1>14, OneJob DEF PipeInv, Sound
<1>16. job'[w].lock = job[w].lock
    BY <1>3, <1>8, <1>11
<1> QED BY <1>2, <1>5, <1>15, <1>16 DEF PipeInv

LEMMA UpsertFailsPipe ==
    ASSUME PipeInv, NEW w \in Workers, UpsertLost(w) \/ UpsertRejected(w)
    PROVE  PipeInv'
<1>1. /\ conf' = conf /\ env' = env /\ userSteps' = userSteps /\ pass' = pass
      /\ link' = link /\ snap' = snap /\ tags' = tags /\ index' = index /\ results' = results
      /\ job[w].pc = "call" /\ job[w].pc # "idle" /\ FailTask(w)
    BY DEF UpsertLost, UpsertRejected, engineVars, outerVars
<1>2. JobsSound' /\ tasks' \subseteq Events /\ dlq' \subseteq Events
    BY <1>1, FailSound DEF PipeInv
<1>3. /\ rec' \in [Refs -> Canonical \union {Gone}] /\ born' \in [Sides -> 0..MaxRecs]
      /\ unseen' \subseteq Refs
    <2>1. CASE UpsertLost(w)
        BY <1>1, <2>1, LandsType DEF UpsertLost
    <2>2. CASE UpsertRejected(w)
        BY <2>2 DEF UpsertRejected, outerVars, PipeInv, TypeOK
    <2> QED BY <2>1, <2>2
<1>4. LinksCross' /\ ResultsCross' /\ PassTypeOK' /\ TypeOK'
    BY <1>1, <1>2, <1>3 DEF PipeInv, LinksCross, ResultsCross, PassTypeOK, TypeOK
<1> QED BY <1>2, <1>4 DEF PipeInv

LEMMA TagPipe ==
    ASSUME PipeInv, NEW w \in Workers, Tag(w)
    PROVE  PipeInv' /\ job'[w].lock = job[w].lock
<1> DEFINE j == job[w]
           wr == Head(j.writes)
           n == [j EXCEPT !.pc = "settle"]
<1>1. /\ conf' = conf /\ env' = env /\ rec' = rec /\ born' = born /\ userSteps' = userSteps
      /\ pass' = pass /\ unseen' = unseen /\ dlq' = dlq /\ tasks' = tasks
      /\ link' = link /\ snap' = snap /\ index' = index /\ results' = results
    BY DEF Tag, outerVars
<1>2. /\ Sound(j) /\ j \in Jobs /\ Placed(j) /\ Allowed(j) /\ j.pc = "tag"
      /\ j.far \in Across(j.ev.ref) /\ w \in DOMAIN job
    BY DEF PipeInv, JobsSound, Sound, Tag, Placed
<1>3. wr \in WriteRecords
    BY <1>2, FirstWrite
<1>4. tags' = tags \union {<<j.far, Predicted(wr)>>} /\ job' = [job EXCEPT ![w] = n]
    BY DEF Tag
<1>5. tags' \subseteq Refs \X Canonical
    BY <1>2, <1>3, <1>4, PredictedType DEF Across, PipeInv, TypeOK
<1>6. n \in Jobs
    BY <1>2 DEF Jobs
<1>7. n.pc = "settle" /\ n.ev = j.ev /\ n.writes = j.writes /\ n.far = j.far /\ n.lock = j.lock
    BY <1>2 DEF Jobs
<1> HIDE DEF n
<1>8. Placed(n)
    BY <1>2, <1>7 DEF Placed, Creating, Updating, Recording
<1>9. Allowed(n)
    BY <1>2, <1>7 DEF Allowed
<1>10. JobsSound'
    BY <1>1, <1>4, <1>6, <1>8, <1>9, OneJob DEF PipeInv, Sound
<1>11. LinksCross' /\ ResultsCross' /\ PassTypeOK' /\ TypeOK'
    BY <1>1, <1>5 DEF PipeInv, LinksCross, ResultsCross, PassTypeOK, TypeOK
<1> QED BY <1>2, <1>4, <1>7, <1>10, <1>11 DEF PipeInv

LEMMA SettlePipe ==
    ASSUME PipeInv, NEW w \in Workers, Settle(w)
    PROVE  PipeInv'
<1> DEFINE j == job[w]
           wr == Head(j.writes)
           ref == IF IsCreate(wr) THEN j.far ELSE wr.to
<1>1. /\ conf' = conf /\ env' = env /\ rec' = rec /\ born' = born /\ userSteps' = userSteps
      /\ pass' = pass /\ unseen' = unseen /\ dlq' = dlq /\ tasks' = tasks
      /\ link' = link /\ snap' = snap /\ index' = index /\ tags' = tags
    BY DEF Settle, outerVars
<1>2. /\ Sound(j) /\ j \in Jobs /\ Placed(j) /\ Allowed(j) /\ j.pc = "settle"
      /\ j.far \in Across(j.ev.ref)
    BY DEF PipeInv, JobsSound, Sound, Settle, Placed
<1>3. /\ wr \in WriteRecords
      /\ IsCreate(wr) => SideOf(wr.to) = Other(SideOf(j.ev.ref))
      /\ ~IsCreate(wr) => wr.to \in Refs
    BY <1>2, FirstWrite
<1>4. ref \in Refs /\ SideOf(ref) = SideOf(wr.to)
    BY <1>2, <1>3 DEF Across
<1>5. /\ results' = (results \ Answer(IdemKey(wr))) \union {<<IdemKey(wr), ref>>}
      /\ job' = [job EXCEPT ![w] = AfterWrite(j, ref)]
    BY DEF Settle
<1>6. Sound(AfterWrite(j, ref))
    BY <1>2, <1>4, AfterWriteSound
<1>7. IdemKey(wr)[2] = wr.to
    BY DEF IdemKey
<1> HIDE DEF ref, wr
<1>8. JobsSound'
    BY <1>1, <1>5, <1>6, OneJob DEF PipeInv
<1>9. ResultsCross'
    <2> SUFFICES ASSUME NEW x \in results'
                 PROVE  x[2] \in Refs /\ SideOf(x[2]) = SideOf(x[1][2])
        BY DEF ResultsCross
    <2>1. CASE x \in results
        BY <2>1 DEF PipeInv, ResultsCross
    <2>2. CASE x = <<IdemKey(wr), ref>>
        BY <1>4, <1>7, <2>2
    <2> QED BY <1>5, <2>1, <2>2
<1>10. LinksCross' /\ PassTypeOK' /\ TypeOK'
    BY <1>1 DEF PipeInv, LinksCross, PassTypeOK, TypeOK
<1> QED BY <1>8, <1>9, <1>10 DEF PipeInv

-----------------------------------------------------------------------------
(* commitPair and processDelete.                                            *)

LEMMA PairRefSides ==
    ASSUME NEW j, Sound(j), j.far \in Across(j.ev.ref), j.pc # "idle", NEW s \in Sides
    PROVE  /\ PairRef(j, s) \in Refs /\ SideOf(PairRef(j, s)) = s
           /\ PairRef(j, Other(s)) \in Across(PairRef(j, s))
<1>1. j.ev.ref \in Refs
    BY DEF Sound, Placed, Events
<1>2. j.far \in Refs /\ SideOf(j.far) = Other(SideOf(j.ev.ref)) /\ SideOf(j.ev.ref) \in Sides
    BY <1>1, RefFacts
<1>3. \A t \in Sides : PairRef(j, t) \in Refs /\ SideOf(PairRef(j, t)) = t
    BY <1>1, <1>2, SideFacts DEF PairRef
<1> QED BY <1>3, SideFacts DEF Across

\* A pass that moves on to its next row.
LEMMA NextCommit ==
    ASSUME NEW j, Sound(j), j.pc \in Recording, NEW to \in Recording
    PROVE  Sound([j EXCEPT !.pc = to])
<1> DEFINE n == [j EXCEPT !.pc = to]
<1>1. j \in Jobs /\ Placed(j) /\ Allowed(j) /\ j.far \in Across(j.ev.ref)
    BY DEF Sound, Placed
<1>2. n \in Jobs
    BY <1>1 DEF Jobs
<1>3. n.pc = to /\ n.ev = j.ev /\ n.writes = j.writes /\ n.far = j.far
    BY <1>1 DEF Jobs
<1> HIDE DEF n
<1>4. Placed(n) /\ Allowed(n)
    BY <1>1, <1>3 DEF Placed, Allowed, Recording
<1> QED BY <1>2, <1>4 DEF Sound, n

LEMMA CommitLinkPipe ==
    ASSUME PipeInv, NEW w \in Workers, NEW s \in Sides, NEW from \in Recording,
           NEW to \in Recording, CommitLink(w, s, from, to)
    PROVE  PipeInv'
<1> DEFINE j == job[w]
           p == PairRef(j, s)
           q == PairRef(j, Other(s))
<1>1. /\ conf' = conf /\ env' = env /\ rec' = rec /\ born' = born /\ userSteps' = userSteps
      /\ pass' = pass /\ unseen' = unseen /\ dlq' = dlq /\ tasks' = tasks
      /\ snap' = snap /\ tags' = tags /\ index' = index /\ results' = results
    BY DEF CommitLink, outerVars
<1>2. Sound(j) /\ j.pc \in Recording /\ j.pc # "idle" /\ j.far \in Across(j.ev.ref)
    BY DEF PipeInv, JobsSound, Sound, Placed, CommitLink, Recording
<1>3. p \in Refs /\ q \in Refs /\ q \in Across(p)
    BY <1>2, PairRefSides, SideFacts
<1>4. link' = [link EXCEPT ![p] = q]
    BY DEF CommitLink
<1> HIDE DEF p, q
<1>5. link' \in [Refs -> Refs \union {NoRef}] /\ LinksCross'
    BY <1>3, <1>4 DEF PipeInv, TypeOK, LinksCross
<1>6. job' = [job EXCEPT ![w] = [j EXCEPT !.pc = to]]
    BY DEF CommitLink
<1>7. JobsSound'
    BY <1>1, <1>2, <1>6, NextCommit, OneJob DEF PipeInv
<1>8. ResultsCross' /\ PassTypeOK' /\ TypeOK'
    BY <1>1, <1>5 DEF PipeInv, ResultsCross, PassTypeOK, TypeOK
<1> QED BY <1>5, <1>7, <1>8 DEF PipeInv

LEMMA CommitSnapshotPipe ==
    ASSUME PipeInv, NEW w \in Workers, NEW s \in Sides, NEW from \in Recording,
           NEW to \in Recording, CommitSnapshot(w, s, from, to)
    PROVE  PipeInv'
<1> DEFINE j == job[w]
           p == PairRef(j, s)
<1>1. /\ conf' = conf /\ env' = env /\ rec' = rec /\ born' = born /\ userSteps' = userSteps
      /\ pass' = pass /\ unseen' = unseen /\ dlq' = dlq /\ tasks' = tasks
      /\ link' = link /\ tags' = tags /\ index' = index /\ results' = results
    BY DEF CommitSnapshot, outerVars
<1>2. /\ Sound(j) /\ j.pc \in Recording /\ j.pc # "idle" /\ j.far \in Across(j.ev.ref)
      /\ j.final[s] \in Canonical
    BY DEF PipeInv, JobsSound, Sound, Placed, CommitSnapshot, Recording, Jobs
<1>3. p \in Refs
    BY <1>2, PairRefSides
<1>4. snap' = [snap EXCEPT ![p] = j.final[s]] /\ job' = [job EXCEPT ![w] = [j EXCEPT !.pc = to]]
    BY DEF CommitSnapshot
<1> HIDE DEF p
<1>5. snap' \in [Refs -> Canonical \union {NoDigest}]
    BY <1>2, <1>3, <1>4 DEF PipeInv, TypeOK
<1>6. JobsSound'
    BY <1>1, <1>2, <1>4, NextCommit, OneJob DEF PipeInv
<1>7. LinksCross' /\ ResultsCross' /\ PassTypeOK' /\ TypeOK'
    BY <1>1, <1>5 DEF PipeInv, LinksCross, ResultsCross, PassTypeOK, TypeOK
<1> QED BY <1>6, <1>7 DEF PipeInv

LEMMA CommitKeysPipe ==
    ASSUME PipeInv, NEW w \in Workers, NEW s \in Sides, NEW from \in Recording,
           NEW to \in Recording \union {"idle"}, CommitKeys(w, s, from, to)
    PROVE  PipeInv'
<1> DEFINE j == job[w]
           p == PairRef(j, s)
<1>1. /\ conf' = conf /\ env' = env /\ rec' = rec /\ born' = born /\ userSteps' = userSteps
      /\ pass' = pass /\ unseen' = unseen /\ dlq' = dlq /\ tasks' = tasks
      /\ link' = link /\ tags' = tags /\ snap' = snap /\ results' = results
    BY DEF CommitKeys, outerVars
<1>2. /\ Sound(j) /\ j.pc \in Recording /\ j.pc # "idle" /\ j.far \in Across(j.ev.ref)
      /\ j.final[s] \in Canonical
    BY DEF PipeInv, JobsSound, Sound, Placed, CommitKeys, Recording, Jobs
<1>3. p \in Refs
    BY <1>2, PairRefSides
<1>4. index' = [index EXCEPT ![p] = KeysOf(j.final[s])]
    BY DEF CommitKeys
<1> HIDE DEF p
<1>5. index' \in [Refs -> SUBSET (KeyFields \X Values)]
    BY <1>2, <1>3, <1>4, KeysType DEF PipeInv, TypeOK
<1>6. JobsSound'
    <2>1. CASE to = "idle"
        BY <1>1, <2>1, DoneSound DEF CommitKeys, PipeInv
    <2>2. CASE to # "idle"
        <3>1. job' = [job EXCEPT ![w] = [j EXCEPT !.pc = to]]
            BY <2>2 DEF CommitKeys
        <3> QED BY <1>1, <1>2, <2>2, <3>1, NextCommit, OneJob DEF PipeInv
    <2> QED BY <2>1, <2>2
<1>7. LinksCross' /\ ResultsCross' /\ PassTypeOK' /\ TypeOK'
    BY <1>1, <1>5 DEF PipeInv, LinksCross, ResultsCross, PassTypeOK, TypeOK
<1> QED BY <1>6, <1>7 DEF PipeInv

LEMMA CommitPairPipe ==
    ASSUME PipeInv, NEW w \in Workers, CommitPair(w)
    PROVE  PipeInv'
<1>1. /\ {"link", "link2", "snap", "keys", "snap2", "keys2"} \subseteq Recording
      /\ "left" \in Sides /\ "right" \in Sides
    BY DEF Recording, Sides
<1>2. CASE CommitLink(w, "left", "link", "link2") \/ CommitLink(w, "right", "link2", "snap")
    BY <1>1, <1>2, CommitLinkPipe
<1>3. CASE CommitSnapshot(w, "left", "snap", "keys") \/ CommitSnapshot(w, "right", "snap2", "keys2")
    BY <1>1, <1>3, CommitSnapshotPipe
<1>4. CASE CommitKeys(w, "left", "keys", "snap2") \/ CommitKeys(w, "right", "keys2", "idle")
    BY <1>1, <1>4, CommitKeysPipe
<1> QED BY <1>2, <1>3, <1>4 DEF CommitPair

-----------------------------------------------------------------------------
(* Steps that end half way.                                                 *)

LEMMA IndexStopsType ==
    ASSUME TypeOK, NEW r \in Refs, NEW keys \in SUBSET (KeyFields \X Values), IndexStops(r, keys)
    PROVE  /\ index' \in [Refs -> SUBSET (KeyFields \X Values)]
           /\ link' = link /\ snap' = snap /\ tags' = tags /\ results' = results
<1>1. PICK kept \in KeysAfterStop(r, keys) : index' = [index EXCEPT ![r] = kept]
    BY DEF IndexStops
<1>2. index[r] \in SUBSET (KeyFields \X Values)
    BY DEF TypeOK
<1>3. kept \in SUBSET (KeyFields \X Values)
    <2>1. kept \in SUBSET index[r] \/ kept \in SUBSET keys
        BY <1>1 DEF KeysAfterStop
    <2> QED BY <1>2, <2>1
<1>4. index \in [Refs -> SUBSET (KeyFields \X Values)]
    BY DEF TypeOK
<1>5. index' \in [Refs -> SUBSET (KeyFields \X Values)]
    BY <1>1, <1>3, <1>4
<1> QED BY <1>5 DEF IndexStops

(* Lemma: whatever row a step stops at, links and results are as they were  *)
(* and the other rows keep their types.                                     *)
LEMMA StopsType ==
    ASSUME PipeInv, NEW w \in Workers, Stops(w)
    PROVE  /\ job[w].pc # "idle" /\ link' = link /\ results' = results
           /\ snap' \in [Refs -> Canonical \union {NoDigest}]
           /\ tags' \subseteq Refs \X Canonical
           /\ index' \in [Refs -> SUBSET (KeyFields \X Values)]
<1> DEFINE j == job[w]
           r == j.ev.ref
           Kept == /\ j.pc # "idle" /\ link' = link /\ results' = results
                   /\ snap' \in [Refs -> Canonical \union {NoDigest}]
                   /\ tags' \subseteq Refs \X Canonical
                   /\ index' \in [Refs -> SUBSET (KeyFields \X Values)]
<1>1. /\ snap \in [Refs -> Canonical \union {NoDigest}] /\ tags \subseteq Refs \X Canonical
      /\ index \in [Refs -> SUBSET (KeyFields \X Values)] /\ TypeOK
    BY DEF PipeInv, TypeOK
<1>2. Sound(j) /\ j \in Jobs /\ Placed(j)
    BY DEF PipeInv, JobsSound, Sound
<1>3. j.pc # "idle" => r \in Refs
    BY <1>2 DEF Placed, Events
<1>4. j.body \in Canonical /\ j.final \in [Sides -> Canonical] /\ j.drop \in Seq(Rows)
    BY <1>2 DEF Jobs
<1>5. CASE j.pc # "idle" /\ UNCHANGED engineVars
    BY <1>1, <1>5 DEF engineVars
<1>6. CASE EnterStops(w)
    <2>1. KeysOf(j.body) \in SUBSET (KeyFields \X Values) /\ j.pc # "idle" /\ r \in Refs
        BY <1>3, <1>4, <1>6, KeysType DEF EnterStops
    <2>2. CASE IndexStops(r, KeysOf(j.body))
        BY <1>1, <2>1, <2>2, IndexStopsType
    <2>3. CASE ~IndexStops(r, KeysOf(j.body))
        <3>1. /\ link' = link /\ results' = results /\ snap' = snap /\ tags' \subseteq tags
              /\ index' = index \/ index' = [index EXCEPT ![r] = KeysOf(j.body)]
            BY <1>6, <2>3 DEF EnterStops
        <3>2. index' \in [Refs -> SUBSET (KeyFields \X Values)]
            BY <1>1, <2>1, <3>1
        <3> QED BY <1>1, <2>1, <3>1, <3>2
    <2> QED BY <2>2, <2>3
<1>7. CASE ReviewStops(w) \/ DeleteStops(w)
    BY <1>1, <1>7 DEF ReviewStops, DeleteStops
<1>8. CASE BeginStops(w)
    <2> DEFINE wr == Head(j.writes)
    <2>1. j.pc = "write" /\ link' = link /\ results' = results /\ snap' = snap /\ index' = index
        BY <1>8 DEF BeginStops
    <2>2. wr \in WriteRecords /\ (~IsCreate(wr) => wr.to \in Refs)
        BY <1>2, <2>1, FirstWrite
    <2>3. tags' = tags \/ (~IsCreate(wr) /\ tags' = tags \union {<<wr.to, Predicted(wr)>>})
        BY <1>8 DEF BeginStops
    <2>4. Predicted(wr) \in Canonical
        BY <2>2, PredictedType
    <2> HIDE DEF wr
    <2>5. tags' \subseteq Refs \X Canonical
        BY <1>1, <2>2, <2>3, <2>4
    <2> QED BY <1>1, <2>1, <2>5
<1>9. CASE RowStops(w)
    <2>1. j.pc \in {"keys", "keys2", "drop"}
        BY <1>9 DEF RowStops
    <2>2. ASSUME NEW s \in Sides, j.pc \in Recording, IndexStops(PairRef(j, s), KeysOf(j.final[s]))
          PROVE  Kept
        <3>1. j.pc # "idle" /\ j.far \in Across(r)
            BY <1>2, <2>1, <2>2 DEF Placed
        <3>2. PairRef(j, s) \in Refs
            BY <1>2, <3>1, PairRefSides
        <3>3. KeysOf(j.final[s]) \in SUBSET (KeyFields \X Values)
            BY <1>4, KeysType
        <3> QED BY <1>1, <2>2, <3>1, <3>2, <3>3, IndexStopsType
    <2>3. ASSUME j.pc = "drop"
          PROVE  Head(j.drop)[2] \in Refs
        <3>1. Head(j.drop) \in Rows
            BY <1>2, <1>4, <2>3, HeadTailProperties DEF Placed
        <3> QED BY <3>1 DEF Rows
    <2>4. CASE j.pc = "drop" /\ IndexStops(Head(j.drop)[2], {})
        BY <1>1, <2>3, <2>4, IndexStopsType
    <2>5. CASE /\ j.pc = "drop" /\ snap' = [snap EXCEPT ![Head(j.drop)[2]] = NoDigest]
               /\ UNCHANGED <<link, tags, inFlight, results, index, reviews>>
        BY <1>1, <2>3, <2>5
    <2>6. "left" \in Sides /\ "right" \in Sides /\ "keys" \in Recording /\ "keys2" \in Recording
        BY DEF Sides, Recording
    <2> QED BY <1>9, <2>2, <2>4, <2>5, <2>6 DEF RowStops
<1> QED BY <1>5, <1>6, <1>7, <1>8, <1>9 DEF Stops

LEMMA StoreFailsPipe ==
    ASSUME PipeInv, NEW w \in Workers, StoreFails(w)
    PROVE  PipeInv'
<1>1. /\ conf' = conf /\ env' = env /\ rec' = rec /\ born' = born /\ userSteps' = userSteps
      /\ pass' = pass /\ unseen' = unseen /\ Stops(w) /\ FailTask(w)
    BY DEF StoreFails, outerVars
<1>2. /\ job[w].pc # "idle" /\ link' = link /\ results' = results
      /\ snap' \in [Refs -> Canonical \union {NoDigest}]
      /\ tags' \subseteq Refs \X Canonical
      /\ index' \in [Refs -> SUBSET (KeyFields \X Values)]
    BY <1>1, StopsType
<1>3. JobsSound' /\ tasks' \subseteq Events /\ dlq' \subseteq Events
    BY <1>1, <1>2, FailSound DEF PipeInv
<1>4. LinksCross' /\ ResultsCross' /\ PassTypeOK' /\ TypeOK'
    BY <1>1, <1>2, <1>3 DEF PipeInv, LinksCross, ResultsCross, PassTypeOK, TypeOK
<1> QED BY <1>3, <1>4 DEF PipeInv

(* Lemma: what the three steps of processDelete make of the job.            *)
LEMMA DeleteJob ==
    ASSUME PipeInv, NEW w \in Workers, DeleteEnter(w) \/ DeleteCall(w) \/ DeleteSettle(w)
    PROVE  \E j : /\ Sound(j) /\ job' = [job EXCEPT ![w] = j]
                  /\ \/ j = Idle
                     \/ /\ job[w].pc = "delete" /\ j.pc \in {"drop", "delcall"}
                        /\ j.ev = job[w].ev /\ j.lock = job[w].ev.ref
                     \/ /\ job[w].pc \in {"delcall", "delsettle"} /\ j.pc \in {"delsettle", "drop"}
                        /\ j.ev = job[w].ev /\ j.lock = job[w].lock
<1> DEFINE j == job[w]
           r == j.ev.ref
<1>1. /\ Sound(j) /\ j \in Jobs /\ Placed(j) /\ Allowed(j) /\ w \in DOMAIN job
      /\ j.pc \in {"delete", "delcall", "delsettle"} /\ j.pc # "idle"
    BY DEF PipeInv, JobsSound, Sound, DeleteEnter, DeleteCall, DeleteSettle
<1>2. j.ev \in Events /\ r \in Refs /\ j.writes = <<>> /\ r \in LockKeys
    BY <1>1 DEF Placed, Events, LockKeys
<1>3. link[r] # NoRef => link[r] \in Across(r) /\ link[r] \in Refs
    BY <1>2 DEF PipeInv, LinksCross, Across
<1>4. CASE DeleteEnter(w)
    <2>0. j.pc = "delete"
        BY <1>4 DEF DeleteEnter
    <2>1. CASE Done(w)
        <3>1. job' = [job EXCEPT ![w] = Idle]
            BY <2>1 DEF Done
        <3> QED BY <3>1, IdleSound
    <2>2. CASE link[r] # NoRef
               /\ job' = [job EXCEPT ![w] = DropLink([job[w] EXCEPT !.lock = r], r, link[r])]
        <3> DEFINE l == [j EXCEPT !.lock = r]
        <3>1. l \in Jobs
            BY <1>1, <1>2 DEF Jobs
        <3>2. l.pc = "delete" /\ l.ev = j.ev /\ l.writes = <<>> /\ l.lock = r
            BY <1>1, <1>2, <2>0 DEF Jobs
        <3> HIDE DEF l
        <3>3. Placed(l)
            BY <1>2, <3>2 DEF Placed, Recording
        <3>4. Allowed(l)
            BY <1>1, <1>2, <3>2 DEF Allowed
        <3>5. Sound(DropLink(l, r, link[r])) /\ DropLink(l, r, link[r]).lock = r
            BY <1>2, <1>3, <2>2, <3>1, <3>2, <3>3, <3>4, DropLinkSound DEF Sound, PipeInv
        <3>6. DropLink(l, r, link[r]).ev = j.ev /\ DropLink(l, r, link[r]).pc = "drop"
            BY <3>1, <3>2 DEF DropLink, Jobs
        <3>7. job' = [job EXCEPT ![w] = DropLink(l, r, link[r])]
            BY <2>2 DEF l
        <3> QED BY <2>0, <3>5, <3>6, <3>7
    <2>3. CASE /\ link[r] # NoRef
               /\ job' = [job EXCEPT ![w].pc = "delcall", ![w].lock = r, ![w].far = link[r]]
        <3> DEFINE n == [j EXCEPT !.pc = "delcall", !.lock = r, !.far = link[r]]
        <3>1. job' = [job EXCEPT ![w] = n]
            BY <1>1, <2>3
        <3>2. n \in Jobs
            BY <1>1, <1>2, <1>3, <2>3 DEF Jobs, Targets
        <3>3. n.pc = "delcall" /\ n.ev = j.ev /\ n.writes = <<>> /\ n.far = link[r] /\ n.lock = r
            BY <1>1, <1>2 DEF Jobs
        <3> HIDE DEF n
        <3>4. Placed(n)
            BY <1>2, <1>3, <2>3, <3>3 DEF Placed, Recording
        <3>5. Allowed(n)
            BY <1>1, <1>2, <3>3 DEF Allowed
        <3> QED BY <2>0, <3>1, <3>2, <3>3, <3>4, <3>5 DEF Sound
    <2> QED BY <1>4, <2>1, <2>2, <2>3 DEF DeleteEnter
<1>5. CASE DeleteCall(w)
    <2> DEFINE n == [j EXCEPT !.pc = "delsettle"]
    <2>0. j.pc = "delcall" /\ j.far \in Across(r)
        BY <1>1, <1>5 DEF DeleteCall, Placed
    <2>1. job' = [job EXCEPT ![w] = n]
        BY <1>1, <1>5 DEF DeleteCall
    <2>2. n \in Jobs
        BY <1>1 DEF Jobs
    <2>3. n.pc = "delsettle" /\ n.ev = j.ev /\ n.writes = <<>> /\ n.far = j.far /\ n.lock = j.lock
        BY <1>1, <1>2 DEF Jobs
    <2> HIDE DEF n
    <2>4. Placed(n)
        BY <1>2, <2>0, <2>3 DEF Placed, Recording
    <2>5. Allowed(n)
        BY <1>1, <1>2, <2>3 DEF Allowed
    <2> QED BY <2>0, <2>1, <2>2, <2>3, <2>4, <2>5 DEF Sound
<1>6. CASE DeleteSettle(w)
    <2>0. j.pc = "delsettle" /\ j.far \in Refs
        BY <1>1, <1>6 DEF DeleteSettle, Placed, Across
    <2>1. job' = [job EXCEPT ![w] = DropLink(j, r, j.far)]
        BY <1>6 DEF DeleteSettle
    <2>2. Sound(DropLink(j, r, j.far)) /\ DropLink(j, r, j.far).lock = j.lock
        BY <1>1, <1>2, <2>0, DropLinkSound DEF PipeInv
    <2>3. DropLink(j, r, j.far).ev = j.ev /\ DropLink(j, r, j.far).pc = "drop"
        BY <1>1 DEF DropLink, Jobs
    <2> QED BY <2>0, <2>1, <2>2, <2>3
<1> QED BY <1>4, <1>5, <1>6

LEMMA DeletePipe ==
    ASSUME PipeInv, NEW w \in Workers,
           DeleteEnter(w) \/ DeleteCall(w) \/ DeleteSettle(w) \/ DeleteFails(w)
    PROVE  PipeInv'
<1> DEFINE j == job[w]
<1>1. /\ conf' = conf /\ env' = env /\ born' = born /\ userSteps' = userSteps /\ pass' = pass
      /\ link' = link /\ snap' = snap /\ index' = index /\ tags' = tags
    BY DEF DeleteEnter, DeleteCall, DeleteSettle, DeleteFails, DeleteLands, outerVars, engineVars
<1>2. /\ j.pc \in {"delete", "delcall", "delsettle"}
      /\ DeleteCall(w) \/ DeleteSettle(w) \/ DeleteFails(w) => j.far \in Across(j.ev.ref)
    BY DEF PipeInv, JobsSound, Sound, Placed, DeleteEnter, DeleteCall, DeleteSettle, DeleteFails
<1>3. rec' \in [Refs -> Canonical \union {Gone}] /\ unseen' \subseteq Refs
    <2>0. rec \in [Refs -> Canonical \union {Gone}] /\ unseen \subseteq Refs
        BY DEF PipeInv, TypeOK
    <2>1. CASE rec' = rec /\ unseen' = unseen
        BY <2>0, <2>1
    <2>2. CASE DeleteLands(w) /\ (DeleteCall(w) \/ DeleteFails(w))
        BY <1>2, <2>0, <2>2 DEF DeleteLands, Across
    <2> QED BY <2>1, <2>2 DEF DeleteEnter, DeleteCall, DeleteSettle, DeleteFails, outerVars
<1>4. JobsSound' /\ tasks' \subseteq Events /\ dlq' \subseteq Events
    <2>1. CASE DeleteFails(w)
        BY <1>1, <1>2, <2>1, FailSound DEF DeleteFails, PipeInv
    <2>2. CASE DeleteEnter(w) \/ DeleteCall(w) \/ DeleteSettle(w)
        <3>1. tasks' = tasks /\ dlq' = dlq
            BY <2>2 DEF DeleteEnter, DeleteCall, DeleteSettle
        <3>2. JobsSound'
            BY <1>1, <2>2, DeleteJob, OneJob DEF PipeInv
        <3> QED BY <3>1, <3>2 DEF PipeInv, TypeOK
    <2> QED BY <2>1, <2>2
<1>5. ResultsCross'
    <2>1. CASE results' = results
        BY <2>1 DEF PipeInv, ResultsCross
    <2>2. CASE DeleteSettle(w)
        <3>1. results' = results \union {<<DeleteKey(j.ev.ref, j.far), j.far>>}
            BY <2>2 DEF DeleteSettle
        <3>2. DeleteKey(j.ev.ref, j.far)[2] = j.far /\ j.far \in Refs
            BY <1>2, <2>2 DEF DeleteKey, Across
        <3> QED BY <3>1, <3>2 DEF PipeInv, ResultsCross
    <2> QED BY <2>1, <2>2 DEF DeleteEnter, DeleteCall, DeleteFails, engineVars
<1>6. LinksCross' /\ PassTypeOK' /\ TypeOK'
    BY <1>1, <1>3, <1>4 DEF PipeInv, LinksCross, PassTypeOK, TypeOK
<1> QED BY <1>4, <1>5, <1>6 DEF PipeInv

-----------------------------------------------------------------------------
LEMMA CrashPipe ==
    ASSUME PipeInv, Crash
    PROVE  PipeInv'
<1>1. /\ conf' = conf /\ env' = env /\ rec' = rec /\ born' = born /\ userSteps' = userSteps
      /\ tasks' = {} /\ pass' = NoPass /\ dlq' = dlq /\ job' = [w \in Workers |-> Idle]
      /\ UNCHANGED engineVars \/ \E w \in Workers : Stops(w)
    BY DEF Crash
<1>s. /\ link' = link /\ results' = results
      /\ snap' \in [Refs -> Canonical \union {NoDigest}]
      /\ tags' \subseteq Refs \X Canonical
      /\ index' \in [Refs -> SUBSET (KeyFields \X Values)]
    <2>1. CASE UNCHANGED engineVars
        BY <2>1 DEF engineVars, PipeInv, TypeOK
    <2>2. ASSUME NEW w \in Workers, Stops(w) 
          PROVE  /\ link' = link /\ results' = results
                 /\ snap' \in [Refs -> Canonical \union {NoDigest}]
                 /\ tags' \subseteq Refs \X Canonical
                 /\ index' \in [Refs -> SUBSET (KeyFields \X Values)]
        BY <2>2, StopsType
    <2> QED BY <1>1, <2>1, <2>2
<1>2. unseen' \subseteq Refs
    <2>1. \A w \in Workers : job[w].pc # "idle" => job[w].ev.ref \in Refs
        BY DEF PipeInv, JobsSound, Sound, Placed, Events
    <2>2. \A e \in tasks \union pass.found : e.ref \in Refs
        BY DEF PipeInv, TypeOK, Events
    <2> QED BY <2>1, <2>2 DEF Crash, PipeInv, TypeOK
<1>3. JobsSound'
    <2>1. ASSUME NEW w \in Workers PROVE Sound(job[w])'
        BY <1>1, IdleSound, SoundKept
    <2> QED BY <1>1, <2>1 DEF JobsSound
<1>4. PassTypeOK' /\ LinksCross' /\ ResultsCross'
    BY <1>1, <1>s DEF PipeInv, PassTypeOK, NoPass, LinksCross, ResultsCross
<1>5. pass'.found \subseteq Events
    BY <1>1 DEF NoPass
<1>6. TypeOK'
    BY <1>1, <1>2, <1>5, <1>s DEF PipeInv, TypeOK
<1> QED BY <1>3, <1>4, <1>6 DEF PipeInv

LEMMA ExpirePipe ==
    ASSUME PipeInv, Expire
    PROVE  PipeInv'
<1>1. /\ conf' = conf /\ env' = env /\ rec' = rec /\ born' = born /\ userSteps' = userSteps
      /\ pass' = pass /\ unseen' = unseen /\ dlq' = dlq /\ tasks' = tasks /\ job' = job
      /\ link' = link /\ snap' = snap /\ index' = index
    BY DEF Expire, outerVars
<1>2. tags' \subseteq tags /\ results' \subseteq results
    BY DEF Expire
<1>3. JobsSound'
    BY <1>1, SameJobs DEF PipeInv
<1>4. LinksCross' /\ ResultsCross' /\ PassTypeOK' /\ TypeOK'
    BY <1>1, <1>2 DEF PipeInv, LinksCross, ResultsCross, PassTypeOK, TypeOK
<1> QED BY <1>3, <1>4 DEF PipeInv

LEMMA StillPipe ==
    ASSUME PipeInv, UNCHANGED vars
    PROVE  PipeInv'
<1>1. /\ conf' = conf /\ env' = env /\ rec' = rec /\ born' = born /\ userSteps' = userSteps
      /\ pass' = pass /\ unseen' = unseen /\ dlq' = dlq /\ tasks' = tasks /\ job' = job
      /\ link' = link /\ snap' = snap /\ index' = index /\ tags' = tags /\ results' = results
    BY DEF vars, engineVars
<1>2. JobsSound'
    BY <1>1, SameJobs DEF PipeInv
<1>3. LinksCross' /\ ResultsCross' /\ PassTypeOK' /\ TypeOK'
    BY <1>1 DEF PipeInv, LinksCross, ResultsCross, PassTypeOK, TypeOK
<1> QED BY <1>2, <1>3 DEF PipeInv

LEMMA PipeStep == PipeInv /\ [Next]_vars => PipeInv'
<1> SUFFICES ASSUME PipeInv, [Next]_vars PROVE PipeInv'
    OBVIOUS
<1>1. ASSUME NEW w \in Workers, Step(w) PROVE PipeInv'
    BY <1>1, StartPipe, EnterPipe, RecreatePipe, ReconcilePipe, DropRowPipe, BeginWritePipe,
       UpsertPipe, TagPipe, SettlePipe, CommitPairPipe, DeletePipe DEF Step
<1>2. ASSUME NEW w \in Workers, Fault(w) PROVE PipeInv'
    BY <1>2, FailPipe, StoreFailsPipe, UpsertFailsPipe, DeletePipe DEF Fault
<1>3. ASSUME NEW s \in Sides, ReadPeer(s) \/ ReadPeerFails(s) PROVE PipeInv'
    BY <1>3, PollPipe
<1>4. CASE SubmitAll
    BY <1>4, PollPipe, SideFacts
<1> QED BY <1>1, <1>2, <1>3, <1>4, PeoplePipe, SightPipe, CrashPipe, ExpirePipe, StillPipe
    DEF Next

(* Theorem: at every cut a pass has what its next step needs.  A pass knows *)
(* its counterpart, of the other side, before it commits, deletes or drops; *)
(* it has a write when it calls, and a create nothing else; whatever the    *)
(* faults, the events and the number of workers.                            *)
THEOREM PipelineInvariant == Spec => []PipeInv
BY PipeInit, PipeStep, PTL DEF Spec

(* Theorem: every row, tag, key and record keeps its type.                  *)
THEOREM PipelineTypes == Spec => []TypeOK
<1>1. PipeInv => TypeOK
    BY DEF PipeInv
<1> QED BY <1>1, PipelineInvariant, PTL

-----------------------------------------------------------------------------
(* What one step does to the passes, told once for the theorems below: a    *)
(* worker's pass ends, goes on under its lock, takes its lock, or begins.   *)

Unlocked == {"idle", "enter", "delete"}

\* The pass of w goes on as n under the lock it has.
GoesOn(w, n) ==
    /\ job[w].pc \notin Unlocked /\ n.pc \notin Unlocked
    /\ n.ev = job[w].ev /\ n.lock = job[w].lock
    /\ n.pc \in {"delcall", "delsettle"} => job[w].pc \in {"delcall", "delsettle"}
    /\ n.pc \in {"tag", "settle"} => job[w].pc \in {"call", "tag"} /\ n.writes = job[w].writes
    /\ n.pc = "call" =>
         /\ job[w].pc = "write" /\ n.writes = job[w].writes
         /\ Answer(IdemKey(Head(n.writes))) = {} /\ ~Recheck(Head(n.writes))

\* The pass of w takes its lock and goes on as n.
TakesLock(w, n) ==
    /\ \/ job[w].pc = "enter" /\ n.pc \in {"resolve", "write"}
       \/ job[w].pc = "delete" /\ n.pc \in {"drop", "delcall"}
    /\ n.ev = job[w].ev /\ n.lock \in LockKeys /\ Free(n.lock)

\* The worker w takes a task from the queue.
Begins(w, n) ==
    /\ job[w].pc = "idle" /\ n.pc \in {"enter", "delete"} /\ n.lock = NoRef
    /\ n.ev \in tasks
    /\ n.pc = "delete" => n.ev.deleted \/ rec[n.ev.ref] = Gone

Moves(w, n) == n = Idle \/ GoesOn(w, n) \/ TakesLock(w, n) \/ Begins(w, n)

LEMMA StartMoves ==
    ASSUME PipeInv, NEW w \in Workers, NEW e \in tasks, Start(w, e)
    PROVE  \E n : job' = [job EXCEPT ![w] = n] /\ Moves(w, n)
<1> DEFINE gated == ~WritesTo(Other(SideOf(e.ref)))
           body == IF e.body = Thin THEN rec[e.ref] ELSE e.body
           del == [Idle EXCEPT !.pc = "delete", !.ev = e]
           ent == [Idle EXCEPT !.pc = "enter", !.ev = e, !.body = body]
<1>1. job[w].pc = "idle"
    BY DEF Start
<1>2. \/ job' = [job EXCEPT ![w] = Idle]
      \/ (e.deleted \/ body = Gone) /\ job' = [job EXCEPT ![w] = del]
      \/ job' = [job EXCEPT ![w] = ent]
    BY DEF Start
<1>3. body = Gone => rec[e.ref] = Gone
    <2>1. e.body \in Canonical \union {Thin}
        BY DEF PipeInv, TypeOK, Events
    <2> QED BY <2>1, MarkersAssumption
<1> HIDE DEF body
<1>4. del.pc = "delete" /\ del.ev = e /\ del.lock = NoRef
    BY DEF Idle
<1>5. ent.pc = "enter" /\ ent.ev = e /\ ent.lock = NoRef
    BY DEF Idle
<1> HIDE DEF del, ent
<1>6. e.deleted \/ body = Gone => Begins(w, del)
    BY <1>1, <1>3, <1>4 DEF Begins
<1>7. Begins(w, ent)
    BY <1>1, <1>5 DEF Begins
<1> QED BY <1>2, <1>6, <1>7 DEF Moves

LEMMA EnterMoves ==
    ASSUME PipeInv, NEW w \in Workers, Enter(w)
    PROVE  \E n : job' = [job EXCEPT ![w] = n] /\ Moves(w, n)
<1> DEFINE k == LockKey(job[w].ev.ref, job[w].body)
<1>1. /\ job[w].pc = "enter" /\ job[w].ev.ref \in Refs /\ job[w].body \in Canonical
      /\ Free(k)
    BY DEF Enter, PipeInv, JobsSound, Sound, Placed, Events, Jobs
<1>2. k \in LockKeys
    BY <1>1, LockKeyType
<1>3. PICK n : /\ job' = [job EXCEPT ![w] = n]
               /\ n = Idle \/ (n.pc \in {"resolve", "write"} /\ n.ev = job[w].ev /\ n.lock = k)
    BY EnterJob
<1> HIDE DEF k
<1> QED BY <1>1, <1>2, <1>3 DEF Moves, TakesLock

LEMMA DeleteMoves ==
    ASSUME PipeInv, NEW w \in Workers, DeleteEnter(w) \/ DeleteCall(w) \/ DeleteSettle(w)
    PROVE  \E n : job' = [job EXCEPT ![w] = n] /\ Moves(w, n)
<1>1. job[w].pc \in {"delete", "delcall", "delsettle"} /\ job[w].ev.ref \in Refs
    BY DEF DeleteEnter, DeleteCall, DeleteSettle, PipeInv, JobsSound, Sound, Placed, Events
<1>2. job[w].pc = "delete" => Free(job[w].ev.ref) /\ job[w].ev.ref \in LockKeys
    BY <1>1 DEF DeleteEnter, DeleteCall, DeleteSettle, LockKeys
<1>3. PICK n : /\ job' = [job EXCEPT ![w] = n]
               /\ \/ n = Idle
                  \/ /\ job[w].pc = "delete" /\ n.pc \in {"drop", "delcall"}
                     /\ n.ev = job[w].ev /\ n.lock = job[w].ev.ref
                  \/ /\ job[w].pc \in {"delcall", "delsettle"} /\ n.pc \in {"delsettle", "drop"}
                     /\ n.ev = job[w].ev /\ n.lock = job[w].lock
    BY DeleteJob
<1> QED BY <1>1, <1>2, <1>3 DEF Moves, TakesLock, GoesOn, Unlocked

(* Lemma: the steps that only look at the peers or at the store.            *)
LEMMA ReconcileMoves ==
    ASSUME PipeInv, NEW w \in Workers, Recreate(w) \/ Reconcile(w)
    PROVE  \E n : job' = [job EXCEPT ![w] = n] /\ Moves(w, n)
<1> DEFINE j == job[w]
<1>1. j \in Jobs /\ j.pc = "resolve"
    BY DEF PipeInv, JobsSound, Sound, Recreate, Reconcile
<1>2. CASE Recreate(w)
    <2> DEFINE n == DropLink(CreateJob(j), j.ev.ref, j.far)
    <2>1. job' = [job EXCEPT ![w] = n]
        BY <1>2 DEF Recreate
    <2>2. n.pc = "drop" /\ n.ev = j.ev /\ n.lock = j.lock
        BY <1>1 DEF DropLink, CreateJob, Jobs
    <2> HIDE DEF n
    <2> QED BY <1>1, <2>1, <2>2 DEF Moves, GoesOn, Unlocked
<1>3. CASE Reconcile(w)
    <2> DEFINE state == States(j)
               res == Resolution(state)
               writes == WriteList(j, res, state)
               final == [s \in Sides |-> Overlaid(state[s].fields, res[s])]
               pc == IF writes = <<>> THEN "link" ELSE "write"
               n == [j EXCEPT !.pc = pc, !.writes = writes, !.final = final]
    <2>1. job' = [job EXCEPT ![w] = Idle] \/ job' = [job EXCEPT ![w] = n]
        BY <1>3 DEF Reconcile, Done
    <2> HIDE DEF writes, final
    <2>2. n.pc \in {"link", "write"} /\ n.ev = j.ev /\ n.lock = j.lock
        BY <1>1 DEF Jobs
    <2> HIDE DEF n
    <2>3. GoesOn(w, n)
        BY <1>1, <2>2 DEF GoesOn, Unlocked
    <2> QED BY <2>1, <2>3 DEF Moves
<1> QED BY <1>2, <1>3

LEMMA DropRowMoves ==
    ASSUME PipeInv, NEW w \in Workers, DropRow(w)
    PROVE  \E n : job' = [job EXCEPT ![w] = n] /\ Moves(w, n)
<1> DEFINE j == job[w]
           more == [j EXCEPT !.drop = Tail(j.drop)]
           last == [j EXCEPT !.pc = "write", !.drop = <<>>]
<1>1. j \in Jobs /\ j.pc = "drop"
    BY DEF PipeInv, JobsSound, Sound, DropRow
<1>2. \/ job' = [job EXCEPT ![w] = Idle] \/ job' = [job EXCEPT ![w] = more]
      \/ job' = [job EXCEPT ![w] = last]
    BY DEF DropRow, AfterDrop
<1>3. more.pc = "drop" /\ more.ev = j.ev /\ more.lock = j.lock
    BY <1>1 DEF Jobs
<1>4. last.pc = "write" /\ last.ev = j.ev /\ last.lock = j.lock
    BY <1>1 DEF Jobs
<1> HIDE DEF more, last
<1>5. GoesOn(w, more) /\ GoesOn(w, last)
    BY <1>1, <1>3, <1>4 DEF GoesOn, Unlocked
<1> QED BY <1>2, <1>5 DEF Moves

LEMMA AfterWriteFields ==
    ASSUME NEW j \in Jobs, NEW ref
    PROVE  /\ AfterWrite(j, ref).pc \in {"write", "link"}
           /\ AfterWrite(j, ref).ev = j.ev /\ AfterWrite(j, ref).lock = j.lock
BY DEF AfterWrite, Jobs

LEMMA WriteMoves ==
    ASSUME PipeInv, NEW w \in Workers, BeginWrite(w) \/ Upsert(w) \/ Tag(w) \/ Settle(w)
    PROVE  \E n : job' = [job EXCEPT ![w] = n] /\ Moves(w, n)
<1> DEFINE j == job[w]
           wr == Head(j.writes)
<1>1. j \in Jobs /\ j.pc \in {"write", "call", "tag", "settle"} /\ w \in DOMAIN job
    BY DEF PipeInv, JobsSound, Sound, BeginWrite, Upsert, Tag, Settle
<1>2. ASSUME NEW ref, job' = [job EXCEPT ![w] = AfterWrite(j, ref)]
      PROVE  \E n : job' = [job EXCEPT ![w] = n] /\ Moves(w, n)
    <2>1. GoesOn(w, AfterWrite(j, ref))
        BY <1>1, AfterWriteFields DEF GoesOn, Unlocked
    <2> QED BY <1>2, <2>1 DEF Moves
<1>3. CASE Done(w)
    BY <1>3 DEF Done, Moves
<1>4. CASE /\ j.pc = "write" /\ job' = [job EXCEPT ![w].pc = "call"]
           /\ Answer(IdemKey(wr)) = {} /\ ~Recheck(wr)
    <2> DEFINE n == [j EXCEPT !.pc = "call"]
    <2>1. job' = [job EXCEPT ![w] = n]
        BY <1>1, <1>4
    <2>2. n.pc = "call" /\ n.ev = j.ev /\ n.lock = j.lock /\ n.writes = j.writes
        BY <1>1 DEF Jobs
    <2> HIDE DEF n
    <2>3. GoesOn(w, n)
        BY <1>4, <2>2 DEF GoesOn, Unlocked
    <2> QED BY <2>1, <2>3 DEF Moves
<1>5. CASE Upsert(w)
    <2> DEFINE far == IF IsCreate(wr) THEN Landed(wr) ELSE j.far
               pc == IF IsCreate(wr) THEN "tag" ELSE "settle"
               n == [j EXCEPT !.pc = pc, !.far = far]
    <2>1. job' = [job EXCEPT ![w] = n] /\ j.pc = "call"
        BY <1>1, <1>5 DEF Upsert
    <2> HIDE DEF far
    <2>2. n.pc \in {"tag", "settle"} /\ n.ev = j.ev /\ n.lock = j.lock /\ n.writes = j.writes
        BY <1>1 DEF Jobs
    <2> HIDE DEF n
    <2>3. GoesOn(w, n)
        BY <2>1, <2>2 DEF GoesOn, Unlocked
    <2> QED BY <2>1, <2>3 DEF Moves
<1>6. CASE Settle(w)
    BY <1>2, <1>6 DEF Settle
<1>8. CASE Tag(w)
    <2> DEFINE n == [j EXCEPT !.pc = "settle"]
    <2>1. job' = [job EXCEPT ![w] = n] /\ j.pc = "tag"
        BY <1>1, <1>8 DEF Tag
    <2>2. n.pc = "settle" /\ n.ev = j.ev /\ n.lock = j.lock /\ n.writes = j.writes
        BY <1>1 DEF Jobs
    <2> HIDE DEF n
    <2>3. GoesOn(w, n)
        BY <2>1, <2>2 DEF GoesOn, Unlocked
    <2> QED BY <2>1, <2>3 DEF Moves
<1>7. CASE BeginWrite(w)
    BY <1>2, <1>3, <1>4, <1>7 DEF BeginWrite, FailTask
<1> QED BY <1>5, <1>6, <1>7, <1>8

LEMMA CommitMoves ==
    ASSUME PipeInv, NEW w \in Workers, CommitPair(w)
    PROVE  \E n : job' = [job EXCEPT ![w] = n] /\ Moves(w, n)
<1>1. job[w] \in Jobs /\ job[w].pc \in Recording /\ w \in DOMAIN job
    BY DEF PipeInv, JobsSound, Sound, CommitPair, CommitLink, CommitSnapshot, CommitKeys, Recording
<1>2. \/ Done(w)
      \/ \E to \in Recording : job' = [job EXCEPT ![w].pc = to]
    BY DEF CommitPair, CommitLink, CommitSnapshot, CommitKeys, Recording
<1>3. ASSUME NEW to \in Recording, job' = [job EXCEPT ![w].pc = to]
      PROVE  \E n : job' = [job EXCEPT ![w] = n] /\ Moves(w, n)
    <2> DEFINE n == [job[w] EXCEPT !.pc = to]
    <2>1. job' = [job EXCEPT ![w] = n]
        BY <1>1, <1>3
    <2>2. n.pc = to /\ n.ev = job[w].ev /\ n.lock = job[w].lock
        BY <1>1 DEF Jobs
    <2> HIDE DEF n
    <2>3. GoesOn(w, n)
        BY <1>1, <2>2 DEF GoesOn, Unlocked, Recording
    <2> QED BY <2>1, <2>3 DEF Moves
<1> QED BY <1>2, <1>3 DEF Done, Moves

(* Lemma: a worker's step moves its own pass and no other.                  *)
LEMMA StepMoves ==
    ASSUME PipeInv, NEW w \in Workers, Step(w) \/ Fault(w)
    PROVE  \E n : job' = [job EXCEPT ![w] = n] /\ Moves(w, n)
<1>1. CASE Step(w)
    BY <1>1, StartMoves, EnterMoves, ReconcileMoves, DropRowMoves, WriteMoves, CommitMoves,
       DeleteMoves DEF Step
<1>2. CASE Fault(w)
    <2>1. Done(w)
        BY <1>2 DEF Fault, ReadFails, UpsertLost, UpsertDropped, UpsertRejected, DeleteFails,
           StoreFails, FailTask
    <2> QED BY <2>1 DEF Done, Moves
<1> QED BY <1>1, <1>2

(* Lemma: nothing else moves a pass, but a crash, which ends them all.      *)
LEMMA NextMoves ==
    ASSUME PipeInv, [Next]_vars
    PROVE  \/ job' = job
           \/ job' = [w \in Workers |-> Idle] /\ Crash
           \/ \E w \in Workers : /\ Step(w) \/ Fault(w)
                                 /\ \E n : job' = [job EXCEPT ![w] = n] /\ Moves(w, n)
<1>1. CASE \E w \in Workers : Step(w) \/ Fault(w)
    BY <1>1, StepMoves
<1>2. CASE Crash
    BY <1>2 DEF Crash
<1>3. CASE People \/ (\E r \in Refs, how \in {"poll", "hook", "thin"} : Sight(r, how))
           \/ (\E s \in Sides : ReadPeer(s) \/ ReadPeerFails(s)) \/ SubmitAll \/ Expire
    BY <1>3 DEF People, UserCreate, UserEdit, UserDelete, Sight, ReadPeer, ReadPeerFails,
       SubmitAll, Expire
<1>4. CASE UNCHANGED vars
    BY <1>4 DEF vars
<1> QED BY <1>1, <1>2, <1>3, <1>4 DEF Next

-----------------------------------------------------------------------------
(* The lock.  A pass has its key from the step that takes it to its end,    *)
(* and never two passes the same.                                           *)

Waiting(j) == j.lock = NoRef <=> j.pc \in Unlocked

Apart == \A v, w \in Workers : v # w /\ job[v].lock = job[w].lock => job[v].lock = NoRef

LocksHeld == (\A w \in Workers : Waiting(job[w])) /\ Apart

LEMMA IdleWaits == Idle.pc = "idle" /\ Idle.lock = NoRef /\ Waiting(Idle)
BY DEF Idle, Waiting, Unlocked

LEMMA LocksInit == Init => LocksHeld
BY IdleWaits DEF Init, LocksHeld, Apart

(* Lemma: a pass that moves keeps its lock, gives it back, or takes one     *)
(* that was free.                                                           *)
LEMMA MovesLock ==
    ASSUME PipeInv, LocksHeld, NEW w \in Workers, NEW n, Moves(w, n)
    PROVE  /\ Waiting(n)
           /\ \/ n.lock = job[w].lock
              \/ n.lock = NoRef /\ job[w].lock \in LockKeys
              \/ n.lock \in LockKeys /\ Free(n.lock) /\ job[w].lock = NoRef
<1>1. Waiting(job[w]) /\ job[w].lock \in LockKeys \union {NoRef}
    BY DEF LocksHeld, PipeInv, JobsSound, Sound, Jobs
<1>2. CASE n = Idle
    BY <1>1, <1>2, IdleWaits
<1>3. CASE GoesOn(w, n)
    BY <1>1, <1>3 DEF GoesOn, Waiting
<1>4. CASE TakesLock(w, n)
    BY <1>1, <1>4, MarkersAssumption DEF TakesLock, Waiting, Unlocked
<1>5. CASE Begins(w, n)
    BY <1>1, <1>5 DEF Begins, Waiting, Unlocked
<1> QED BY <1>2, <1>3, <1>4, <1>5 DEF Moves

LEMMA LocksStep == PipeInv /\ LocksHeld /\ [Next]_vars => LocksHeld'
<1> SUFFICES ASSUME PipeInv, LocksHeld, [Next]_vars PROVE LocksHeld'
    OBVIOUS
<1>1. CASE job' = job
    BY <1>1 DEF LocksHeld, Apart, Waiting
<1>2. CASE job' = [w \in Workers |-> Idle]
    BY <1>2, IdleWaits DEF LocksHeld, Apart, Waiting
<1>3. ASSUME NEW w \in Workers, NEW n, job' = [job EXCEPT ![w] = n], Moves(w, n)
      PROVE  LocksHeld'
    <2>1. job'[w] = n /\ \A v \in Workers \ {w} : job'[v] = job[v]
        BY <1>3 DEF PipeInv, JobsSound
    <2>2. ASSUME NEW v \in Workers PROVE Waiting(job[v])'
        BY <1>3, <2>1, MovesLock DEF LocksHeld, Waiting
    <2>3. \A v \in Workers \ {w} : n.lock # NoRef => job[v].lock # n.lock
        <3>1. CASE n.lock = job[w].lock
            BY <3>1 DEF LocksHeld, Apart
        <3>2. CASE Free(n.lock)
            BY <3>2 DEF Free
        <3> QED BY <1>3, <3>1, <3>2, MovesLock
    <2>4. Apart'
        <3> SUFFICES ASSUME NEW u \in Workers, NEW v \in Workers, u # v,
                            job'[u].lock = job'[v].lock
                     PROVE  job'[u].lock = NoRef
            BY DEF Apart
        <3>1. CASE u = w
            BY <2>1, <2>3, <3>1
        <3>2. CASE v = w
            BY <2>1, <2>3, <3>2
        <3>3. CASE u # w /\ v # w
            BY <2>1, <3>3 DEF LocksHeld, Apart
        <3> QED BY <3>1, <3>2, <3>3
    <2> QED BY <2>2, <2>4 DEF LocksHeld
<1> QED BY <1>1, <1>2, <1>3, NextMoves

(* Theorem: from Enter, or the start of a delete, to its last row a pass    *)
(* holds its key, across every network call it makes, and no two passes     *)
(* hold the same one (pipeline.go:124-127, 572-573).                        *)
THEOREM PassesHoldTheirKey == Spec => []LocksHeld
BY LocksInit, LocksStep, PipelineInvariant, PTL DEF Spec

\* Whose turn it is on each key, as KeyLock has it.
Turn == [k \in LockKeys |-> IF \E w \in Workers : job[w].lock = k
                            THEN CHOOSE w \in Workers : job[w].lock = k ELSE NoRef]

Lock == INSTANCE KeyLock WITH Keys <- LockKeys, Nobody <- NoRef, turn <- Turn

\* A key is taken by the worker that has it, or by nobody.
TurnFacts ==
    \A k \in LockKeys :
        /\ \A w \in Workers : job[w].lock = k <=> Turn[k] = w
        /\ Free(k) => Turn[k] = NoRef

LEMMA TurnIs == Apart => TurnFacts
<1> SUFFICES ASSUME Apart, NEW k \in LockKeys
             PROVE  /\ \A w \in Workers : job[w].lock = k <=> Turn[k] = w
                    /\ Free(k) => Turn[k] = NoRef
    BY DEF TurnFacts
<1>0. k # NoRef
    BY MarkersAssumption
<1>1. ASSUME NEW w \in Workers, job[w].lock = k PROVE Turn[k] = w
    <2>1. \A v \in Workers : job[v].lock = k => v = w
        BY <1>0, <1>1 DEF Apart
    <2>2. (CHOOSE v \in Workers : job[v].lock = k) = w
        BY <1>1, <2>1
    <2> QED BY <1>1, <2>2 DEF Turn
<1>2. ASSUME Free(k) PROVE Turn[k] = NoRef
    BY <1>2 DEF Turn, Free
<1>3. ASSUME NEW w \in Workers, Turn[k] = w PROVE job[w].lock = k
    <2>1. ~Free(k)
        BY <1>2, <1>3, MarkersAssumption
    <2>2. PICK v \in Workers : job[v].lock = k
        BY <2>1 DEF Free
    <2> QED BY <1>1, <1>3, <2>2
<1> QED BY <1>1, <1>2, <1>3

LEMMA TurnInit == Init => Lock!LockInit
<1> SUFFICES ASSUME Init PROVE Turn = [k \in LockKeys |-> NoRef]
    BY DEF Lock!LockInit
<1>1. \A w \in Workers : job[w].lock = NoRef
    BY IdleWaits DEF Init
<1> QED BY <1>1, MarkersAssumption DEF Turn

LEMMA TurnStep ==
    PipeInv /\ LocksHeld /\ LocksHeld' /\ [Next]_vars
        => [Lock!LockNext]_Turn \/ (Crash /\ Lock!LockInit')
<1> SUFFICES ASSUME PipeInv, LocksHeld, LocksHeld', [Next]_vars
             PROVE  [Lock!LockNext]_Turn \/ (Crash /\ Lock!LockInit')
    OBVIOUS
<1>1. CASE job' = job
    BY <1>1 DEF Turn
<1>2. CASE job' = [w \in Workers |-> Idle] /\ Crash
    <2>1. \A w \in Workers : job'[w].lock = NoRef
        BY <1>2, IdleWaits
    <2>2. Turn' = [k \in LockKeys |-> NoRef]
        BY <2>1, MarkersAssumption DEF Turn
    <2> QED BY <1>2, <2>2 DEF Lock!LockInit
<1>3. ASSUME NEW w \in Workers, NEW n, job' = [job EXCEPT ![w] = n], Moves(w, n)
      PROVE  [Lock!LockNext]_Turn
    <2>1. job'[w] = n /\ \A v \in Workers \ {w} : job'[v] = job[v]
        BY <1>3 DEF PipeInv, JobsSound
    <2>2. Apart /\ TurnFacts /\ NoRef \notin LockKeys
        BY TurnIs, MarkersAssumption DEF LocksHeld
    <2>t. Apart' => TurnFacts'
        BY TurnIs, PTL
    <2>3. \A l \in LockKeys : /\ \A v \in Workers : job'[v].lock = l <=> Turn'[l] = v
                              /\ (\A v \in Workers : job'[v].lock # l) => Turn'[l] = NoRef
        BY <2>t DEF LocksHeld, TurnFacts, Free
    <2>a. Turn = [l \in LockKeys |-> Turn[l]] /\ Turn' = [l \in LockKeys |-> Turn'[l]]
        BY DEF Turn
    <2>k. ASSUME NEW l \in LockKeys, \A v \in Workers : job'[v].lock = l <=> job[v].lock = l
          PROVE  Turn'[l] = Turn[l]
        <3>1. CASE Free(l)
            <4>1. \A v \in Workers : job'[v].lock # l
                BY <2>k, <3>1 DEF Free
            <4>2. Turn'[l] = NoRef
                BY <2>3, <4>1
            <4>3. Turn[l] = NoRef
                BY <2>2, <3>1 DEF TurnFacts
            <4> QED BY <4>2, <4>3
        <3>2. CASE ~Free(l)
            <4>1. PICK v \in Workers : job[v].lock = l
                BY <3>2 DEF Free
            <4>2. Turn[l] = v
                BY <2>2, <4>1 DEF TurnFacts
            <4>3. job'[v].lock = l
                BY <2>k, <4>1
            <4>4. Turn'[l] = v
                BY <2>3, <4>3
            <4> QED BY <4>2, <4>4
        <3> QED BY <3>1, <3>2
    <2>4. CASE n.lock = job[w].lock
        <3>1. \A v \in Workers : job'[v].lock = job[v].lock
            BY <2>1, <2>4
        <3> QED BY <3>1 DEF Turn
    <2>5. CASE n.lock = NoRef /\ job[w].lock \in LockKeys
        <3> DEFINE k == job[w].lock
        <3>1. Turn[k] = w
            BY <2>2, <2>5 DEF TurnFacts
        <3>2. Turn' = [Turn EXCEPT ![k] = NoRef]
            <4>1. \A v \in Workers : job'[v].lock # k
                BY <2>1, <2>2, <2>5 DEF Apart
            <4>2. \A v \in Workers, l \in LockKeys \ {k} : job'[v].lock = l <=> job[v].lock = l
                BY <2>1, <2>2, <2>5
            <4>3. Turn'[k] = NoRef /\ \A l \in LockKeys \ {k} : Turn'[l] = Turn[l]
                BY <2>3, <2>5, <2>k, <4>1, <4>2
            <4> QED BY <2>5, <2>a, <4>3
        <3> QED BY <2>5, <3>1, <3>2 DEF Lock!LockNext, Lock!Drop
    <2>6. CASE n.lock \in LockKeys /\ Free(n.lock) /\ job[w].lock = NoRef
        <3> DEFINE k == n.lock
        <3>1. Turn[k] = NoRef /\ \A l \in LockKeys : Turn[l] # w
            BY <2>2, <2>6 DEF TurnFacts
        <3>2. Turn' = [Turn EXCEPT ![k] = w]
            <4>1. \A v \in Workers : job'[v].lock = k <=> v = w
                BY <2>1, <2>6 DEF Free
            <4>2. \A v \in Workers, l \in LockKeys \ {k} : job'[v].lock = l <=> job[v].lock = l
                BY <2>1, <2>2, <2>6
            <4>3. Turn'[k] = w /\ \A l \in LockKeys \ {k} : Turn'[l] = Turn[l]
                BY <2>3, <2>6, <2>k, <4>1, <4>2
            <4> QED BY <2>6, <2>a, <4>3
        <3> QED BY <2>6, <3>1, <3>2 DEF Lock!LockNext, Lock!Take
    <2> QED BY <1>3, <2>4, <2>5, <2>6, MovesLock
<1> QED BY <1>1, <1>2, <1>3, NextMoves

(* Theorem: the passes use the keyed mutex as KeyLock has it: a key is      *)
(* taken when it is nobody's, by a worker that has none, and given back by  *)
(* the one that took it; a crash starts the lock table anew                 *)
(* (queue.go:189-235).                                                      *)
THEOREM PassesImplementKeyLock ==
    Spec => Lock!LockInit /\ [][Lock!LockNext \/ (Crash /\ Lock!LockInit')]_Turn
<1>1. [Lock!LockNext]_Turn \/ (Crash /\ Lock!LockInit')
        => [Lock!LockNext \/ (Crash /\ Lock!LockInit')]_Turn
    OBVIOUS
<1> QED BY <1>1, TurnInit, TurnStep, PassesHoldTheirKey, PipelineInvariant, PTL DEF Spec

(* Theorem: while the process lives that is KeyLock's specification, which  *)
(* keyedMutex implements (KeyedMutexRefinesKeyLock): process and            *)
(* processDelete take one lock each and never nest them.                    *)
THEOREM PassesImplementKeyLockAlive ==
    ASSUME \A e \in Environments : "crash" \notin e.faults
    PROVE  Spec => Lock!LockSpec
<1>1. PipeInv => ~Crash
    BY DEF PipeInv, TypeOK, Crash
<1> QED BY <1>1, TurnInit, TurnStep, PassesHoldTheirKey, PipelineInvariant, PTL
    DEF Spec, Lock!LockSpec

-----------------------------------------------------------------------------
(* What the engine writes into.                                             *)

(* Lemma: a record is written by the call of a pass, and taken away by the  *)
(* delete of one; nothing else the engine does touches the peers.           *)
LEMMA EngineWrites ==
    ASSUME PipeInv, Next, userSteps' = userSteps, NEW r \in Refs, rec'[r] # rec[r]
    PROVE  \E w \in Workers :
             \/ job[w].pc = "call" /\ Landed(Head(job[w].writes)) = r
             \/ job[w].pc = "delcall" /\ job[w].far = r
<1>1. ~People
    <2>1. People => userSteps' = userSteps + 1
        BY DEF People, UserCreate, UserEdit, UserDelete
    <2>2. userSteps \in 0..MaxUserSteps /\ MaxUserSteps \in Nat
        BY BoundsAssumption DEF PipeInv, TypeOK
    <2> QED BY <2>1, <2>2
<1>2. PICK w \in Workers : Upsert(w) \/ UpsertLost(w) \/ DeleteCall(w) \/ DeleteFails(w)
    <2>1. ASSUME NEW v \in Workers, Step(v)
          PROVE  Upsert(v) \/ DeleteCall(v) \/ rec' = rec
        <3>1. (\E e \in tasks : Start(v, e)) \/ Enter(v) \/ Recreate(v) => rec' = rec
            BY DEF Start, Enter, Recreate, outerVars
        <3>2. Reconcile(v) \/ DropRow(v) \/ BeginWrite(v) => rec' = rec
            BY DEF Reconcile, DropRow, BeginWrite, outerVars
        <3>3. Tag(v) \/ Settle(v) \/ CommitPair(v) \/ DeleteEnter(v) \/ DeleteSettle(v) => rec' = rec
            BY DEF Tag, Settle, CommitPair, CommitLink, CommitSnapshot, CommitKeys,
                   DeleteEnter, DeleteSettle, outerVars
        <3> QED BY <2>1, <3>1, <3>2, <3>3 DEF Step
    <2>2. ASSUME NEW v \in Workers, Fault(v)
          PROVE  UpsertLost(v) \/ DeleteFails(v) \/ rec' = rec
        BY <2>2 DEF Fault, ReadFails, UpsertDropped, UpsertRejected, StoreFails, outerVars
    <2>3. CASE \/ \E q \in Refs, how \in {"poll", "hook", "thin"} : Sight(q, how)
               \/ \E s \in Sides : ReadPeer(s) \/ ReadPeerFails(s)
               \/ SubmitAll \/ Crash \/ Expire
        BY <2>3 DEF Sight, ReadPeer, ReadPeerFails, SubmitAll, Crash, Expire, outerVars
    <2> QED BY <1>1, <2>1, <2>2, <2>3 DEF Next
<1>3. CASE Upsert(w) \/ UpsertLost(w)
    <2>1. job[w].pc = "call" /\ Lands(Head(job[w].writes))
        BY <1>3 DEF Upsert, UpsertLost
    <2> QED BY <2>1, LandsType
<1>4. CASE DeleteCall(w) \/ DeleteFails(w)
    <2>1. job[w].pc = "delcall" /\ (rec' = rec \/ rec' = [rec EXCEPT ![job[w].far] = Gone])
        BY <1>4 DEF DeleteCall, DeleteFails, DeleteLands, outerVars
    <2> QED BY <2>1 DEF PipeInv, TypeOK
<1> QED BY <1>2, <1>3, <1>4

\* The direction of the sync leads away from side s.
Away(s) == conf.direction = (IF s = "left" THEN "left_to_right" ELSE "right_to_left")

LEMMA AwayIsNotWritten ==
    ASSUME NEW s \in Sides, Away(s)
    PROVE  ~WritesTo(s) /\ conf.direction # "bidirectional"
BY DEF Away, WritesTo, Sides

(* Lemma: a call goes to a side the direction leads to, with a field that   *)
(* may be written there; a delete as well, whatever the fields.             *)
LEMMA CallsAreAllowed ==
    ASSUME PipeInv, NEW w \in Workers
    PROVE  /\ job[w].pc = "call" =>
                LET s == SideOf(Landed(Head(job[w].writes))) IN
                s \in Sides /\ ~Away(s) /\ conf.writable[s] # {}
           /\ job[w].pc = "delcall" => SideOf(job[w].far) \in Sides /\ ~Away(SideOf(job[w].far))
<1> DEFINE j == job[w]
           wr == Head(j.writes)
<1>1. Sound(j) /\ j \in Jobs /\ Placed(j) /\ Allowed(j)
    BY DEF PipeInv, JobsSound, Sound
<1>2. ASSUME j.pc = "call"
      PROVE  LET s == SideOf(Landed(wr)) IN s \in Sides /\ ~Away(s) /\ conf.writable[s] # {}
    <2>1. SideOf(wr.to) \in Sides /\ wr = j.writes[1] /\ j.writes # <<>> /\ j.writes \in Seq(WriteRecords)
        BY <1>1, <1>2, FirstWrite DEF Placed, Jobs
    <2>2. DOMAIN Sent(wr) # {} /\ WritesTo(Other(SideOf(j.ev.ref)))
        BY <1>1, <1>2 DEF Allowed
    <2>3. 1 \in 1..Len(j.writes)
        BY <2>1, EmptySeq
    <2>4. conf.direction # "bidirectional" => WritesTo(SideOf(wr.to))
        BY <1>1, <2>1, <2>2, <2>3 DEF Allowed
    <2> HIDE DEF wr
    <2>5. SideOf(Landed(wr)) = SideOf(wr.to)
        BY DEF Landed, SideOf
    <2>6. conf.writable[SideOf(wr.to)] # {}
        BY <2>2 DEF Sent
    <2> QED BY <2>1, <2>4, <2>5, <2>6, AwayIsNotWritten
<1>3. ASSUME j.pc = "delcall" PROVE SideOf(j.far) \in Sides /\ ~Away(SideOf(j.far))
    <2>1. j.far \in Across(j.ev.ref) /\ j.ev.ref \in Refs /\ WritesTo(Other(SideOf(j.ev.ref)))
        BY <1>1, <1>3 DEF Placed, Allowed, Events
    <2>2. SideOf(j.far) = Other(SideOf(j.ev.ref)) /\ SideOf(j.far) \in Sides
        BY <2>1, RefFacts, SideFacts
    <2> QED BY <2>1, <2>2, AwayIsNotWritten
<1> QED BY <1>2, <1>3

\* The peer a one-way sync reads from.
AwayUntouched ==
    [][\A r \in Refs : Away(SideOf(r)) /\ userSteps' = userSteps => rec'[r] = rec[r]]_vars

(* Theorem: whatever people do, whatever fails and however many workers     *)
(* run, the engine changes nothing on the peer a one-way sync reads from    *)
(* (pipeline.go:95-101).                                                    *)
THEOREM OneWayLeavesItsSource == Spec => AwayUntouched
<1>1. ASSUME PipeInv, [Next]_vars
      PROVE  [\A r \in Refs : Away(SideOf(r)) /\ userSteps' = userSteps => rec'[r] = rec[r]]_vars
    <2> SUFFICES ASSUME Next, NEW r \in Refs, Away(SideOf(r)), userSteps' = userSteps,
                        rec'[r] # rec[r]
                 PROVE  FALSE
        BY <1>1
    <2>1. PICK w \in Workers :
             \/ job[w].pc = "call" /\ Landed(Head(job[w].writes)) = r
             \/ job[w].pc = "delcall" /\ job[w].far = r
        BY <1>1, EngineWrites
    <2> QED BY <1>1, <2>1, CallsAreAllowed
<1> QED BY <1>1, PipelineInvariant, PTL DEF Spec, AwayUntouched

(* Lemma: what is queued was queued or in work before, or has been seen on  *)
(* a peer just now.                                                         *)
LEMMA NextTasks ==
    ASSUME PipeInv, [Next]_vars, NEW e \in tasks' \union pass'.found
    PROVE  \/ e \in tasks \union pass.found
           \/ \E w \in Workers : job[w].pc # "idle" /\ e = job[w].ev
           \/ \E r \in Refs, how \in {"poll", "hook", "thin"} :
                Present(r) /\ e = Sighting(r, how)
<1> DEFINE Known == e \in tasks \union pass.found
           Given(w) == job[w].pc # "idle" /\ e = job[w].ev
           Seen == \E r \in Refs, how \in {"poll", "hook", "thin"} :
                       Present(r) /\ e = Sighting(r, how)
<1>1. ASSUME NEW w \in Workers, Step(w) \/ Fault(w)
      PROVE  Known \/ Given(w)
    <2>1. pass' = pass
        <3>1. (\E f \in tasks : Start(w, f)) \/ Enter(w) \/ Recreate(w) => pass' = pass
            BY DEF Start, Enter, Recreate, outerVars
        <3>2. Reconcile(w) \/ DropRow(w) \/ BeginWrite(w) \/ Upsert(w) => pass' = pass
            BY DEF Reconcile, DropRow, BeginWrite, Upsert, outerVars
        <3>3. Tag(w) \/ Settle(w) \/ CommitPair(w) \/ DeleteEnter(w) \/ DeleteCall(w) \/ DeleteSettle(w)
                => pass' = pass
            BY DEF Tag, Settle, CommitPair, CommitLink, CommitSnapshot, CommitKeys,
                   DeleteEnter, DeleteCall, DeleteSettle, DeleteLands, outerVars
        <3>4. Fault(w) => pass' = pass
            BY DEF Fault, ReadFails, UpsertLost, UpsertDropped, UpsertRejected, DeleteFails,
               DeleteLands, StoreFails, outerVars
        <3> QED BY <1>1, <3>1, <3>2, <3>3, <3>4 DEF Step
    <2>2. tasks' \subseteq tasks \/ (job[w].pc # "idle" /\ tasks' = tasks \union {job[w].ev})
        <3>1. (\E f \in tasks : Start(w, f)) \/ Enter(w) \/ Recreate(w) => tasks' \subseteq tasks
            BY DEF Start, Enter, Recreate
        <3>2. Reconcile(w) \/ DropRow(w) \/ Upsert(w) => tasks' \subseteq tasks
            BY DEF Reconcile, DropRow, Upsert
        <3>3. Tag(w) \/ Settle(w) \/ CommitPair(w) \/ DeleteEnter(w) \/ DeleteCall(w) \/ DeleteSettle(w)
                => tasks' \subseteq tasks
            BY DEF Tag, Settle, CommitPair, CommitLink, CommitSnapshot, CommitKeys,
                   DeleteEnter, DeleteCall, DeleteSettle
        <3>4. FailTask(w) => tasks' \subseteq tasks \/ tasks' = tasks \union {job[w].ev}
            BY DEF FailTask
        <3>5. Fault(w) => job[w].pc # "idle" /\ FailTask(w)
            <4>1. StoreFails(w) => job[w].pc # "idle" /\ FailTask(w)
                BY StopsType DEF StoreFails
            <4> QED BY <4>1 DEF Fault, ReadFails, UpsertLost, UpsertDropped, UpsertRejected,
                                DeleteFails
        <3>6. BeginWrite(w) => job[w].pc # "idle" /\ (tasks' = tasks \/ FailTask(w))
            BY DEF BeginWrite
        <3> QED BY <1>1, <3>1, <3>2, <3>3, <3>4, <3>5, <3>6 DEF Step
    <2> QED BY <2>1, <2>2
<1>2. CASE People \/ Expire \/ UNCHANGED vars
    BY <1>2 DEF People, UserCreate, UserEdit, UserDelete, Expire, outerVars, vars
<1>3. CASE Crash
    BY <1>3 DEF Crash, NoPass
<1>4. ASSUME NEW r \in Refs, NEW how \in {"poll", "hook", "thin"}, Sight(r, how)
      PROVE  Known \/ Seen
    BY <1>4 DEF Sight, outerVars, Present
<1>5. ASSUME NEW s \in Sides, ReadPeer(s)
      PROVE  Known \/ Seen
    <2>1. \A r \in OnSide(s) : r \in Refs /\ Present(r)
        BY DEF OnSide, Present
    <2>2. tasks' = tasks
          /\ pass'.found = pass.found \union {Sighting(r, "poll") : r \in OnSide(s)}
        BY <1>5 DEF ReadPeer
    <2> QED BY <2>1, <2>2
<1>6. ASSUME NEW s \in Sides, ReadPeerFails(s)
      PROVE  Known
    <2>1. tasks' = tasks /\ pass'.found = pass.found
        BY <1>6 DEF ReadPeerFails, PipeInv, PassTypeOK
    <2> QED BY <2>1
<1>7. CASE SubmitAll
    <2>1. tasks' = tasks \union pass.found /\ pass'.found = {}
        BY <1>7 DEF SubmitAll, NoPass
    <2> QED BY <2>1
<1> QED BY <1>1, <1>2, <1>3, <1>4, <1>5, <1>6, <1>7 DEF Next

(* Lemma: identifiers are handed out one after the other, to records that   *)
(* are there; while nobody deletes, those before stay.                      *)
LEMMA NothingGoes ==
    ASSUME PipeInv, NothingGone, env.deletes = {}, [Next]_vars, NEW r \in Refs
    PROVE  /\ Present(r) => Present(r)'
           /\ Present(r)' => rec'[r] # Gone
<1>0. /\ rec \in [Refs -> Canonical \union {Gone}] /\ born \in [Sides -> 0..MaxRecs]
      /\ SideOf(r) \in Sides /\ born[SideOf(r)] \in Nat /\ r[2] \in Nat
      /\ r = <<SideOf(r), r[2]>> /\ (Present(r) => rec[r] # Gone)
    BY RefFacts, BoundsAssumption DEF PipeInv, TypeOK, NothingGone
<1> DEFINE There == (Present(r) => Present(r)') /\ (Present(r)' => rec'[r] # Gone)
           Handed(s) == /\ s \in Sides /\ born' = [born EXCEPT ![s] = born[s] + 1]
                        /\ rec'[<<s, born[s] + 1>>] # Gone
                        /\ \A q \in Refs : q # <<s, born[s] + 1>> => rec'[q] = rec[q]
<1>1. CASE rec' = rec /\ born' = born
    BY <1>0, <1>1 DEF Present
<1>2. CASE \E s : Handed(s)
    <2>1. PICK s : Handed(s)
        BY <1>2
    <2>2. CASE SideOf(r) # s
        <3>1. r # <<s, born[s] + 1>> /\ born'[SideOf(r)] = born[SideOf(r)]
            BY <1>0, <2>1, <2>2 DEF SideOf
        <3> QED BY <1>0, <2>1, <3>1 DEF Present
    <2>3. CASE SideOf(r) = s
        <3>1. born'[s] = born[s] + 1 /\ born[s] \in Nat
            BY <1>0, <2>1, <2>3
        <3>2. CASE r[2] = born[s] + 1
            <4>1. r = <<s, born[s] + 1>>
                BY <1>0, <2>3, <3>2
            <4>2. ~(r[2] <= born[s])
                BY <3>1, <3>2
            <4> QED BY <2>1, <2>3, <4>1, <4>2 DEF Present
        <3>3. CASE r[2] # born[s] + 1
            <4>1. r # <<s, born[s] + 1>>
                BY <3>3
            <4>2. r[2] <= born[s] <=> r[2] <= born'[s]
                BY <1>0, <3>1, <3>3
            <4> QED BY <1>0, <2>1, <2>3, <4>1, <4>2 DEF Present
        <3> QED BY <3>2, <3>3
    <2> QED BY <2>2, <2>3
<1>3. CASE born' = born /\ rec'[r] # Gone
    BY <1>0, <1>3 DEF Present
<1>4. CASE People
    <2>1. ASSUME NEW s \in Sides, NEW c \in NewRecords[s], UserCreate(s, c)
          PROVE  There
        <3>1. born[s] + 1 \in 1..MaxRecs /\ <<s, born[s] + 1>> \in Refs
            BY <1>0, <2>1, BoundsAssumption DEF UserCreate, Refs
        <3>2. c # Gone
            BY PeopleAssumption, MarkersAssumption
        <3>3. Handed(s)
            BY <1>0, <2>1, <3>1, <3>2 DEF UserCreate
        <3> QED BY <1>2, <3>3
    <2>2. ASSUME NEW q \in Refs, NEW f \in EditFields, NEW v \in Values, UserEdit(q, f, v)
          PROVE  There
        <3>1. rec[q] \in Canonical /\ rec' = [rec EXCEPT ![q] = [rec[q] EXCEPT ![f] = v]]
            BY <1>0, <2>2 DEF UserEdit
        <3>2. [rec[q] EXCEPT ![f] = v] # Gone
            <4>1. [rec[q] EXCEPT ![f] = v] \in Canonical
                BY <3>1 DEF Canonical
            <4> QED BY <4>1, MarkersAssumption
        <3>3. born' = born /\ (rec'[r] = rec[r] \/ rec'[r] # Gone)
            BY <1>0, <2>2, <3>1, <3>2 DEF UserEdit
        <3> QED BY <1>0, <3>3 DEF Present
    <2> QED BY <1>4, <2>1, <2>2 DEF People, UserDelete
<1>5. ASSUME NEW w \in Workers, Upsert(w) \/ UpsertLost(w)
      PROVE  There
    <2> DEFINE wr == Head(job[w].writes)
    <2>1. job[w].pc = "call" /\ Lands(wr)
        BY <1>5 DEF Upsert, UpsertLost
    <2>2. /\ rec'[Landed(wr)] # Gone /\ \A q \in Refs : q # Landed(wr) => rec'[q] = rec[q]
          /\ SideOf(wr.to) \in Sides
        BY <2>1, LandsType, FirstWrite DEF PipeInv, JobsSound
    <2> HIDE DEF wr
    <2>3. CASE IsCreate(wr)
        <3>1. Handed(SideOf(wr.to))
            BY <2>1, <2>2, <2>3 DEF Lands, Landed
        <3> QED BY <1>2, <3>1
    <2>4. CASE ~IsCreate(wr)
        <3>1. born' = born /\ (rec'[r] = rec[r] \/ rec'[r] # Gone)
            BY <2>1, <2>2, <2>4 DEF Lands
        <3> QED BY <1>0, <3>1 DEF Present
    <2> QED BY <2>3, <2>4
<1>6. ASSUME NEW w \in Workers, Step(w) \/ Fault(w), ~Upsert(w), ~UpsertLost(w)
      PROVE  There
    <2>1. ~DeleteCall(w) /\ ~DeleteFails(w)
        BY DEF NothingGone, DeleteCall, DeleteFails
    <2>2. (\E e \in tasks : Start(w, e)) \/ Enter(w) \/ Recreate(w) => rec' = rec /\ born' = born
        BY DEF Start, Enter, Recreate, outerVars
    <2>3. Reconcile(w) \/ DropRow(w) \/ BeginWrite(w) => rec' = rec /\ born' = born
        BY DEF Reconcile, DropRow, BeginWrite, outerVars
    <2>4. Tag(w) \/ Settle(w) \/ CommitPair(w) \/ DeleteEnter(w) \/ DeleteSettle(w)
            => rec' = rec /\ born' = born
        BY DEF Tag, Settle, CommitPair, CommitLink, CommitSnapshot, CommitKeys,
                   DeleteEnter, DeleteSettle, outerVars
    <2>5. ReadFails(w) \/ UpsertDropped(w) \/ UpsertRejected(w) \/ StoreFails(w)
            => rec' = rec /\ born' = born
        BY DEF ReadFails, UpsertDropped, UpsertRejected, StoreFails, outerVars
    <2>6. rec' = rec /\ born' = born
        BY <1>6, <2>1, <2>2, <2>3, <2>4, <2>5 DEF Step, Fault
    <2> QED BY <1>1, <2>6
<1>7. CASE \/ \E q \in Refs, how \in {"poll", "hook", "thin"} : Sight(q, how)
           \/ \E s \in Sides : ReadPeer(s) \/ ReadPeerFails(s)
           \/ SubmitAll \/ Crash \/ Expire \/ UNCHANGED vars
    <2>1. rec' = rec /\ born' = born
        BY <1>7 DEF Sight, ReadPeer, ReadPeerFails, SubmitAll, Crash, Expire, outerVars, vars
    <2> QED BY <1>1, <2>1
<1> QED BY <1>4, <1>5, <1>6, <1>7 DEF Next

(* Lemma: the environment is the one the sync was started in.               *)
LEMMA EnvKept ==
    ASSUME [Next]_vars
    PROVE  env' = env
<1>1. ASSUME NEW w \in Workers, Step(w) \/ Fault(w) PROVE env' = env
    <2>1. (\E e \in tasks : Start(w, e)) \/ Enter(w) \/ Recreate(w) => env' = env
        BY DEF Start, Enter, Recreate, outerVars
    <2>2. Reconcile(w) \/ DropRow(w) \/ BeginWrite(w) \/ Upsert(w) => env' = env
        BY DEF Reconcile, DropRow, BeginWrite, Upsert, outerVars
    <2>3. Tag(w) \/ Settle(w) \/ CommitPair(w) \/ DeleteEnter(w) \/ DeleteCall(w) \/ DeleteSettle(w)
            => env' = env
        BY DEF Tag, Settle, CommitPair, CommitLink, CommitSnapshot, CommitKeys,
               DeleteEnter, DeleteCall, DeleteSettle, DeleteLands, outerVars
    <2>4. Fault(w) => env' = env
        BY DEF Fault, ReadFails, UpsertLost, UpsertDropped, UpsertRejected, DeleteFails,
           DeleteLands, StoreFails, outerVars
    <2> QED BY <1>1, <2>1, <2>2, <2>3, <2>4 DEF Step
<1> QED BY <1>1 DEF Next, People, UserCreate, UserEdit, UserDelete, Sight, ReadPeer,
    ReadPeerFails, SubmitAll, Crash, Expire, outerVars, vars

LEMMA NoDeletesInit == Init => NoDeletes
<1> SUFFICES ASSUME Init PROVE NothingGone
    BY DEF NoDeletes
<1>1. ASSUME NEW r \in Refs, Present(r) PROVE rec[r] # Gone
    <2>1. SideOf(r) \in Sides /\ r[2] \in Nat /\ r[2] >= 1
        BY RefFacts, BoundsAssumption
    <2>2. born[SideOf(r)] = IF env.held[SideOf(r)] = Gone THEN 0 ELSE 1
        BY <2>1 DEF Init
    <2>3. r[2] = 1 /\ env.held[SideOf(r)] # Gone
        BY <1>1, <2>1, <2>2 DEF Present
    <2> QED BY <2>3 DEF Init
<1>2. tasks = {} /\ pass.found = {} /\ \A w \in Workers : job[w].pc = "idle"
    BY IdleWaits DEF Init, NoPass
<1> QED BY <1>1, <1>2 DEF NothingGone

LEMMA NoDeletesStep == PipeInv /\ NoDeletes /\ [Next]_vars => NoDeletes'
<1> SUFFICES ASSUME PipeInv, NoDeletes, [Next]_vars, env'.deletes = {}
             PROVE  NothingGone'
    BY DEF NoDeletes
<1> DEFINE Here(r) == r[2] <= born'[SideOf(r)]
<1>0. env' = env
    BY EnvKept
<1>1. NothingGone /\ env.deletes = {}
    BY <1>0 DEF NoDeletes
<1>2. \A r \in Refs : (Present(r) => Here(r)) /\ (Here(r) => rec'[r] # Gone)
    BY <1>1, NothingGoes DEF Present
<1> HIDE DEF Here
<1>3. /\ \A e \in tasks \union pass.found : e.ref \in Refs /\ ~e.deleted /\ Present(e.ref)
      /\ \A w \in Workers : job[w].pc # "idle" =>
           job[w].ev.ref \in Refs /\ ~job[w].ev.deleted /\ Present(job[w].ev.ref)
    BY <1>1 DEF NothingGone, PipeInv, TypeOK, JobsSound, Sound, Placed, Events
<1>4. ASSUME NEW e \in tasks' \union pass'.found
      PROVE  ~e.deleted /\ Here(e.ref)
    <2>1. ASSUME NEW r \in Refs, NEW how, Present(r), e = Sighting(r, how)
          PROVE  ~e.deleted /\ e.ref \in Refs /\ Present(e.ref)
        BY <1>1, <2>1 DEF Sighting, NothingGone
    <2>2. ~e.deleted /\ e.ref \in Refs /\ Present(e.ref)
        BY <1>3, <2>1, NextTasks
    <2> QED BY <1>2, <2>2
<1>5. ASSUME NEW v \in Workers, job'[v].pc # "idle"
      PROVE  /\ job'[v].pc \notin {"delete", "delcall", "delsettle"}
             /\ ~job'[v].ev.deleted /\ Here(job'[v].ev.ref)
    <2>1. job[v].pc # "idle" => job[v].pc \notin {"delete", "delcall", "delsettle"}
        BY <1>1 DEF NothingGone
    <2>2. CASE job'[v] = job[v]
        BY <1>2, <1>3, <1>5, <2>1, <2>2
    <2>3. CASE job' = [w \in Workers |-> Idle]
        BY <1>5, <2>3, IdleWaits
    <2>4. ASSUME NEW n, job' = [job EXCEPT ![v] = n], Moves(v, n)
          PROVE  /\ job'[v].pc \notin {"delete", "delcall", "delsettle"}
                 /\ ~job'[v].ev.deleted /\ Here(job'[v].ev.ref)
        <3>1. job'[v] = n /\ n # Idle
            BY <1>5, <2>4, IdleWaits DEF PipeInv, JobsSound
        <3>2. CASE GoesOn(v, n)
            BY <1>2, <1>3, <2>1, <3>1, <3>2 DEF GoesOn, Unlocked
        <3>3. CASE TakesLock(v, n)
            BY <1>2, <1>3, <2>1, <3>1, <3>3 DEF TakesLock
        <3>4. CASE Begins(v, n)
            <4>1. n.ev.ref \in Refs /\ ~n.ev.deleted /\ Present(n.ev.ref) /\ n.ev \in tasks
                BY <1>3, <3>4 DEF Begins
            <4>2. rec[n.ev.ref] # Gone
                BY <1>1, <4>1 DEF NothingGone
            <4> QED BY <1>2, <3>1, <3>4, <4>1, <4>2 DEF Begins
        <3> QED BY <2>4, <3>1, <3>2, <3>3, <3>4 DEF Moves
    <2>5. ASSUME NEW w \in Workers, NEW n, job' = [job EXCEPT ![w] = n], w # v
          PROVE  job'[v] = job[v]
        BY <2>5 DEF PipeInv, JobsSound
    <2> QED BY <2>2, <2>3, <2>4, <2>5, NextMoves
<1> QED BY <1>2, <1>4, <1>5 DEF NothingGone, Present, Here

(* Theorem: where nobody deletes, the engine deletes nothing and no pass    *)
(* ever takes a record for gone: not on a sighting, not on a re-read, not   *)
(* through a link (pipeline.go:103-117, 558-563).                           *)
THEOREM NothingIsDeletedUnasked == Spec => []NoDeletes
BY NoDeletesInit, NoDeletesStep, PipelineInvariant, PTL DEF Spec

(* Theorem: a side the configuration never writes into is never written.    *)
(* For a mapping whose direction leads away from the side that is so        *)
(* whatever people do; one that only has no field to write there passes a   *)
(* deletion on all the same (processDelete asks for no field), so there     *)
(* nobody may delete (pipeline.go:95-101, 558-563, mapping.go:112-118).     *)
THEOREM SourceIsLeftAlone ==
    ASSUME \A c \in Configs, e \in Environments, s \in Sides :
               c.writable[s] = {} => \/ e.deletes = {}
                                     \/ c.direction = (IF s = "left" THEN "left_to_right"
                                                       ELSE "right_to_left")
    PROVE  Spec => SourceUntouched
<1>1. ASSUME PipeInv, NoDeletes, [Next]_vars
      PROVE  [\A r \in Refs : ReadOnly(SideOf(r)) /\ userSteps' = userSteps
                                  => rec'[r] = rec[r]]_vars
    <2> SUFFICES ASSUME Next, NEW r \in Refs, ReadOnly(SideOf(r)), userSteps' = userSteps,
                        rec'[r] # rec[r]
                 PROVE  FALSE
        BY <1>1
    <2>1. PICK w \in Workers :
             \/ job[w].pc = "call" /\ Landed(Head(job[w].writes)) = r
             \/ job[w].pc = "delcall" /\ job[w].far = r
        BY <1>1, EngineWrites
    <2>2. ~Away(SideOf(r)) /\ (job[w].pc = "call" => conf.writable[SideOf(r)] # {})
        BY <1>1, <2>1, CallsAreAllowed
    <2>3. conf.writable[SideOf(r)] = {} /\ job[w].pc = "delcall"
        BY <2>1, <2>2 DEF ReadOnly, Away
    <2>4. env.deletes = {}
        BY <1>1, <2>2, <2>3, RefFacts DEF Away, PipeInv, TypeOK
    <2> QED BY <1>1, <2>3, <2>4 DEF NoDeletes, NothingGone
<1> QED BY <1>1, PipelineInvariant, NothingIsDeletedUnasked, PTL DEF Spec, SourceUntouched

-----------------------------------------------------------------------------
(* A create is called once.  A key is marked in flight before the call, and *)
(* answered after it; a create that finds the mark or the answer is not     *)
(* called.                                                                  *)

MarksKept == env.faults \intersect {"expiry", "mark_expiry"} = {}

CreateKeys == Refs \X {ToCreate(s) : s \in Sides} \X Canonical

KeyOf(j) == IdemKey(Head(j.writes))

\* The pass is between its create's mark and its create's answer.
Creates(j) == j.pc \in {"call", "tag", "settle"} /\ IsCreate(Head(j.writes))

Called(k) == k \in inFlight \/ Answer(k) # {}

\* The call under key k is over: answered, lost, or cut off by a crash.
Spent(k) == Called(k) /\ \A w \in Workers : ~(Creates(job[w]) /\ KeyOf(job[w]) = k)

CreatesHeldOnce ==
    MarksKept => \A w \in Workers : Creates(job[w]) =>
        /\ KeyOf(job[w]) \in inFlight /\ Answer(KeyOf(job[w])) = {}
        /\ \A v \in Workers : Creates(job[v]) /\ KeyOf(job[v]) = KeyOf(job[w]) => v = w

(* Safety: a create whose call is over is never called again under the same *)
(* key, whatever was lost, however often the task is retried or the process *)
(* restarted, as long as the marks are kept (queue.go:189-197,              *)
(* idem.go:102-107).                                                        *)
CreatedOnce == [][MarksKept => \A k \in CreateKeys : Spent(k) => Spent(k)']_vars

LEMMA CreatesKey ==
    ASSUME PipeInv, NEW w \in Workers, job[w].pc \in {"write", "call", "tag", "settle"}
    PROVE  IsCreate(Head(job[w].writes)) <=> KeyOf(job[w]) \in CreateKeys
<1> DEFINE wr == Head(job[w].writes)
<1>1. wr \in WriteRecords /\ SideOf(wr.to) \in Sides /\ wr.from \in Refs /\ Predicted(wr) \in Canonical
    BY FirstWrite, PredictedType DEF PipeInv, JobsSound, WriteRecords
<1>2. KeyOf(job[w]) = <<wr.from, wr.to, Predicted(wr)>>
    BY DEF KeyOf, IdemKey
<1> HIDE DEF wr
<1>3. IsCreate(wr) <=> wr.to \in {ToCreate(s) : s \in Sides}
    BY <1>1, ToCreateFacts DEF IsCreate
<1> QED BY <1>1, <1>2, <1>3 DEF CreateKeys, wr

(* Lemma: a pass that has a create out had it out before, or found neither  *)
(* mark nor answer and has just marked it.                                  *)
LEMMA WhoCreates ==
    ASSUME PipeInv, [Next]_vars, NEW v \in Workers, Creates(job'[v])
    PROVE  /\ KeyOf(job'[v]) = KeyOf(job[v])
           /\ \/ Creates(job[v])
              \/ /\ job[v].pc = "write" /\ job'[v].pc = "call" /\ (Step(v) \/ Fault(v))
                 /\ KeyOf(job[v]) \in CreateKeys /\ ~Called(KeyOf(job[v]))
                 /\ \A u \in Workers \ {v} : job'[u] = job[u]
<1> DEFINE JustMarked ==
              /\ job[v].pc = "write" /\ job'[v].pc = "call" /\ (Step(v) \/ Fault(v))
              /\ KeyOf(job[v]) \in CreateKeys /\ ~Called(KeyOf(job[v]))
              /\ \A u \in Workers \ {v} : job'[u] = job[u]
<1>1. CASE job'[v] = job[v]
    BY <1>1
<1>2. CASE job' = [w \in Workers |-> Idle]
    BY <1>2, IdleWaits DEF Creates
<1>3. ASSUME NEW n, job' = [job EXCEPT ![v] = n], Moves(v, n), Step(v) \/ Fault(v)
      PROVE  KeyOf(job'[v]) = KeyOf(job[v]) /\ (Creates(job[v]) \/ JustMarked)
    <2>1. job'[v] = n /\ n.pc \in {"call", "tag", "settle"} /\ IsCreate(Head(n.writes))
          /\ \A u \in Workers \ {v} : job'[u] = job[u]
        BY <1>3 DEF PipeInv, JobsSound, Creates
    <2>2. GoesOn(v, n)
        BY <1>3, <2>1, IdleWaits DEF Moves, TakesLock, Begins
    <2>3. n.writes = job[v].writes
        BY <2>1, <2>2 DEF GoesOn
    <2>4. KeyOf(job'[v]) = KeyOf(job[v]) /\ IsCreate(Head(job[v].writes))
        BY <2>1, <2>3 DEF KeyOf
    <2>5. CASE n.pc \in {"tag", "settle"}
        BY <2>2, <2>4, <2>5 DEF GoesOn, Creates
    <2>6. CASE n.pc = "call"
        <3>1. job[v].pc = "write" /\ Answer(KeyOf(job[v])) = {} /\ ~Recheck(Head(job[v].writes))
            BY <2>2, <2>3, <2>6 DEF GoesOn, KeyOf
        <3>2. KeyOf(job[v]) \notin inFlight
            BY <2>4, <3>1 DEF Recheck, KeyOf
        <3>3. KeyOf(job[v]) \in CreateKeys
            BY <2>4, <3>1, CreatesKey
        <3> QED BY <1>3, <2>1, <2>4, <2>6, <3>1, <3>2, <3>3 DEF Called
    <2> QED BY <2>1, <2>5, <2>6
<1>4. ASSUME NEW w \in Workers, NEW n, job' = [job EXCEPT ![w] = n], w # v
      PROVE  job'[v] = job[v]
    BY <1>4 DEF PipeInv, JobsSound
<1>5. \/ job' = job
      \/ job' = [w \in Workers |-> Idle]
      \/ \E w \in Workers : /\ Step(w) \/ Fault(w)
                            /\ \E n : job' = [job EXCEPT ![w] = n] /\ Moves(w, n)
    BY NextMoves
<1> QED BY <1>1, <1>2, <1>3, <1>4, <1>5

(* Lemma: a create that goes out is marked by the same step.                *)
LEMMA MarkedWhenCalled ==
    ASSUME PipeInv, NEW w \in Workers, Step(w) \/ Fault(w),
           job[w].pc = "write", job'[w].pc = "call"
    PROVE  inFlight' = inFlight \union {KeyOf(job[w])} /\ results' = results
<1>0. ~Fault(w)
    <2>1. Fault(w) => job' = [job EXCEPT ![w] = Idle]
        BY DEF Fault, ReadFails, UpsertLost, UpsertDropped, UpsertRejected, DeleteFails,
           StoreFails, FailTask, Done
    <2>2. w \in DOMAIN job
        BY DEF PipeInv, JobsSound
    <2> QED BY <2>1, <2>2, IdleWaits
<1>1. BeginWrite(w)
    BY <1>0 DEF Step, Start, Enter, Recreate, Reconcile, DropRow, Upsert, Tag, Settle, CommitPair,
       CommitLink, CommitSnapshot, CommitKeys, DeleteEnter, DeleteCall, DeleteSettle
<1>2. job[w] \in Jobs /\ w \in DOMAIN job
    BY DEF PipeInv, JobsSound, Sound
<1>3. ~Done(w) /\ ~FailTask(w)
    BY <1>2, IdleWaits DEF Done, FailTask
<1>4. \A ref : job' # [job EXCEPT ![w] = AfterWrite(job[w], ref)]
    BY <1>2, AfterWriteFields
<1> QED BY <1>1, <1>3, <1>4 DEF BeginWrite, KeyOf

(* Lemma: whatever row a step stops at, a create keeps its mark and its     *)
(* answer: only the stale mark of an update or of a delete is cleared.      *)
LEMMA StopsKeepKeys ==
    ASSUME PipeInv, NEW w \in Workers, Stops(w), NEW k \in CreateKeys
    PROVE  /\ k \in inFlight => k \in inFlight'
           /\ Answer(k)' = Answer(k)
<1>1. CASE results' = results /\ inFlight' = inFlight
    BY <1>1 DEF Answer
<1>2. CASE UNCHANGED engineVars \/ EnterStops(w) \/ ReviewStops(w) \/ RowStops(w)
    BY <1>1, <1>2 DEF EnterStops, ReviewStops, RowStops, IndexStops, engineVars
<1>3. CASE BeginStops(w)
    <2>1. /\ job[w].pc = "write" /\ results' = results /\ ~Recheck(Head(job[w].writes))
          /\ \/ inFlight' = inFlight \ {KeyOf(job[w])}
             \/ inFlight' = inFlight \union {KeyOf(job[w])}
        BY <1>3 DEF BeginStops, KeyOf
    <2>2. KeyOf(job[w]) = k => k \notin inFlight
        BY <2>1, CreatesKey DEF Recheck, KeyOf
    <2> QED BY <2>1, <2>2 DEF Answer
<1>4. CASE DeleteStops(w)
    <2> DEFINE key == DeleteKey(job[w].ev.ref, link[job[w].ev.ref])
    <2>1. results' = results /\ (inFlight' = inFlight \ {key} \/ inFlight' = inFlight \union {key})
        BY <1>4 DEF DeleteStops
    <2>2. key # k
        BY MarkersAssumption DEF DeleteKey, CreateKeys
    <2> HIDE DEF key
    <2> QED BY <2>1, <2>2 DEF Answer
<1> QED BY <1>2, <1>3, <1>4 DEF Stops

(* Lemma: the mark and the answer of a create are left alone, but by the    *)
(* pass that marks it and by the pass that has it out and is done with it.  *)
LEMMA KeyMoves ==
    ASSUME PipeInv, NEW w \in Workers, Step(w) \/ Fault(w), NEW k \in CreateKeys
    PROVE  \/ (k \in inFlight' <=> k \in inFlight) /\ Answer(k)' = Answer(k)
           \/ k \in inFlight' /\ Answer(k)' = Answer(k)
           \/ /\ Creates(job[w]) /\ KeyOf(job[w]) = k /\ ~Creates(job'[w])
<1> DEFINE Same == (k \in inFlight' <=> k \in inFlight) /\ Answer(k)' = Answer(k)
           Ends == Creates(job[w]) /\ KeyOf(job[w]) = k /\ ~Creates(job'[w])
<1>0. job[w] \in Jobs /\ w \in DOMAIN job
    BY DEF PipeInv, JobsSound, Sound
<1>1. CASE inFlight' = inFlight /\ results' = results
    BY <1>1 DEF Answer
<1>2. CASE BeginWrite(w)
    <2>1. results' = results /\ (inFlight' = inFlight \/ inFlight' = inFlight \union {KeyOf(job[w])})
        BY <1>2 DEF BeginWrite, KeyOf
    <2> QED BY <2>1 DEF Answer
<1>3. CASE Settle(w)
    <2> DEFINE ref == IF IsCreate(Head(job[w].writes)) THEN job[w].far ELSE Head(job[w].writes).to
               key == KeyOf(job[w])
    <2>1. /\ job[w].pc = "settle" /\ inFlight' = inFlight \ {key}
          /\ results' = (results \ Answer(key)) \union {<<key, ref>>}
          /\ job' = [job EXCEPT ![w] = AfterWrite(job[w], ref)]
        BY <1>3 DEF Settle, KeyOf
    <2> HIDE DEF ref, key
    <2>2. CASE key # k
        BY <2>1, <2>2 DEF Answer
    <2>3. CASE key = k
        <3>1. Creates(job[w])
            BY <2>1, <2>3, CreatesKey DEF Creates, key
        <3>2. ~Creates(job'[w])
            BY <1>0, <2>1, AfterWriteFields DEF Creates
        <3> QED BY <2>3, <3>1, <3>2 DEF key
    <2> QED BY <2>2, <2>3
<1>4. CASE UpsertRejected(w)
    <2>1. /\ job[w].pc = "call" /\ results' = results /\ job' = [job EXCEPT ![w] = Idle]
          /\ inFlight' = inFlight \/ inFlight' = inFlight \ {KeyOf(job[w])}
        BY <1>4 DEF UpsertRejected, KeyOf, FailTask, Done
    <2>2. CASE KeyOf(job[w]) # k
        BY <2>1, <2>2 DEF Answer
    <2>3. CASE KeyOf(job[w]) = k
        <3>1. Creates(job[w])
            BY <2>1, <2>3, CreatesKey DEF Creates
        <3>2. ~Creates(job'[w])
            BY <1>0, <2>1, IdleWaits DEF Creates
        <3> QED BY <2>3, <3>1, <3>2
    <2> QED BY <2>2, <2>3
<1>5. CASE DeleteEnter(w) \/ DeleteSettle(w)
    <2>1. \A r, q : DeleteKey(r, q) # k
        BY MarkersAssumption DEF DeleteKey, CreateKeys
    <2>2. CASE DeleteEnter(w)
        <3>1. results' = results /\ \/ inFlight' = inFlight
                                    \/ \E r, q : inFlight' = inFlight \union {DeleteKey(r, q)}
            BY <2>2 DEF DeleteEnter
        <3> QED BY <2>1, <3>1 DEF Answer
    <2>3. CASE DeleteSettle(w)
        <3> DEFINE key == DeleteKey(job[w].ev.ref, job[w].far)
        <3>1. inFlight' = inFlight \ {key} /\ results' = results \union {<<key, job[w].far>>}
            BY <2>3 DEF DeleteSettle
        <3>2. key # k
            BY <2>1
        <3> HIDE DEF key
        <3> QED BY <3>1, <3>2 DEF Answer
    <2> QED BY <1>5, <2>2, <2>3
<1>6. CASE (\E e \in tasks : Start(w, e)) \/ Enter(w) \/ Recreate(w)
    BY <1>1, <1>6 DEF Start, Enter, Recreate, engineVars
<1>7. CASE Reconcile(w) \/ DropRow(w) \/ Upsert(w) \/ Tag(w) \/ CommitPair(w) \/ DeleteCall(w)
    BY <1>1, <1>7 DEF Reconcile, DropRow, Upsert, Tag, CommitPair, CommitLink, CommitSnapshot,
       CommitKeys, DeleteCall, engineVars
<1>8. CASE ReadFails(w) \/ UpsertLost(w) \/ UpsertDropped(w) \/ DeleteFails(w)
    BY <1>1, <1>8 DEF ReadFails, UpsertLost, UpsertDropped, DeleteFails, engineVars
<1>9. CASE StoreFails(w)
    BY <1>9, StopsKeepKeys DEF StoreFails
<1> QED BY <1>2, <1>3, <1>4, <1>5, <1>6, <1>7, <1>8, <1>9 DEF Step, Fault

(* Lemma: nobody else takes away the mark or the answer of a create, if     *)
(* they are kept.                                                           *)
LEMMA MarksStay ==
    ASSUME PipeInv, MarksKept, [Next]_vars, NEW k \in CreateKeys
    PROVE  \/ (k \in inFlight => k \in inFlight') /\ Answer(k)' = Answer(k)
           \/ \E w \in Workers : Step(w) \/ Fault(w)
<1>0. CASE inFlight' = inFlight /\ results' = results
    BY <1>0 DEF Answer
<1>1. ~Expire
    BY DEF MarksKept, Expire
<1>2. People \/ (\E r \in Refs, how \in {"poll", "hook", "thin"} : Sight(r, how))
        => inFlight' = inFlight /\ results' = results
    BY DEF People, UserCreate, UserEdit, UserDelete, Sight, engineVars
<1>3. (\E s \in Sides : ReadPeer(s) \/ ReadPeerFails(s)) \/ SubmitAll \/ UNCHANGED vars
        => inFlight' = inFlight /\ results' = results
    BY DEF ReadPeer, ReadPeerFails, SubmitAll, engineVars, vars
<1>4. CASE Crash
    <2>1. CASE UNCHANGED engineVars
        BY <1>0, <2>1 DEF engineVars
    <2> QED BY <1>4, <2>1, StopsKeepKeys DEF Crash
<1> QED BY <1>0, <1>1, <1>2, <1>3, <1>4 DEF Next

LEMMA HeldInit == Init => CreatesHeldOnce
BY IdleWaits DEF Init, CreatesHeldOnce, Creates

LEMMA HeldStep == PipeInv /\ CreatesHeldOnce /\ [Next]_vars => CreatesHeldOnce'
<1> SUFFICES ASSUME PipeInv, CreatesHeldOnce, [Next]_vars, MarksKept,
                    NEW v \in Workers, Creates(job'[v])
             PROVE  /\ KeyOf(job'[v]) \in inFlight'
                    /\ {x \in results' : x[1] = KeyOf(job'[v])} = {}
                    /\ \A u \in Workers :
                         Creates(job'[u]) /\ KeyOf(job'[u]) = KeyOf(job'[v]) => u = v
    BY EnvKept DEF CreatesHeldOnce, MarksKept, Answer
<1>0. PICK k : k = KeyOf(job[v])
    OBVIOUS
<1>1. KeyOf(job'[v]) = k
    BY <1>0, WhoCreates
<1>2. \A u \in Workers : Creates(job[u]) =>
        /\ KeyOf(job[u]) \in inFlight /\ Answer(KeyOf(job[u])) = {}
        /\ \A w \in Workers : Creates(job[w]) /\ KeyOf(job[w]) = KeyOf(job[u]) => w = u
    BY DEF CreatesHeldOnce
<1>3. CASE ~Creates(job[v])
    <2>1. /\ job[v].pc = "write" /\ job'[v].pc = "call" /\ (Step(v) \/ Fault(v)) /\ ~Called(k)
          /\ \A u \in Workers \ {v} : job'[u] = job[u]
        BY <1>0, <1>3, WhoCreates
    <2>2. inFlight' = inFlight \union {k} /\ results' = results
        BY <1>0, <2>1, MarkedWhenCalled
    <2>3. k \in inFlight' /\ {x \in results' : x[1] = k} = {} /\ k \notin inFlight
        BY <2>1, <2>2 DEF Called, Answer
    <2>4. ASSUME NEW u \in Workers, u # v, Creates(job'[u]), KeyOf(job'[u]) = k
          PROVE  FALSE
        BY <1>2, <2>1, <2>3, <2>4
    <2> QED BY <1>1, <2>3, <2>4
<1>4. CASE Creates(job[v])
    <2>1. k \in CreateKeys /\ k \in inFlight /\ Answer(k) = {}
        BY <1>0, <1>2, <1>4, CreatesKey DEF Creates
    <2>2. k \in inFlight' /\ {x \in results' : x[1] = k} = {}
        <3>1. CASE (k \in inFlight => k \in inFlight') /\ Answer(k)' = Answer(k)
            BY <2>1, <3>1 DEF Answer
        <3>2. ASSUME NEW w \in Workers, Step(w) \/ Fault(w)
              PROVE  k \in inFlight' /\ {x \in results' : x[1] = k} = {}
            <4>1. ~(Creates(job[w]) /\ KeyOf(job[w]) = k /\ ~Creates(job'[w]))
                BY <1>0, <1>2, <1>4
            <4>2. k \in inFlight' /\ Answer(k)' = Answer(k)
                BY <2>1, <3>2, <4>1, KeyMoves
            <4> QED BY <2>1, <4>2 DEF Answer
        <3> QED BY <2>1, <3>1, <3>2, MarksStay
    <2>3. ASSUME NEW u \in Workers, Creates(job'[u]), KeyOf(job'[u]) = k
          PROVE  u = v
        <3>1. KeyOf(job[u]) = k /\ (Creates(job[u]) \/ ~Called(k))
            BY <2>3, WhoCreates
        <3> QED BY <1>0, <1>2, <1>4, <2>1, <3>1 DEF Called
    <2> QED BY <1>1, <2>2, <2>3
<1> QED BY <1>3, <1>4

(* Theorem: a create that is out has its mark, has no answer yet, and is    *)
(* out once, while marks and answers are kept.                              *)
THEOREM CreatesAreMarked == Spec => []CreatesHeldOnce
BY HeldInit, HeldStep, PipelineInvariant, PTL DEF Spec

LEMMA SpentStays ==
    ASSUME PipeInv, CreatesHeldOnce, [Next]_vars, MarksKept, NEW k \in CreateKeys, Spent(k)
    PROVE  Spent(k)'
<1>1. Called(k) /\ \A w \in Workers : ~(Creates(job[w]) /\ KeyOf(job[w]) = k)
    BY DEF Spent
<1>2. ASSUME NEW v \in Workers, Creates(job'[v]), KeyOf(job'[v]) = k
      PROVE  FALSE
    BY <1>1, <1>2, WhoCreates
<1>3. k \in inFlight' \/ {x \in results' : x[1] = k} # {}
    <2>1. CASE (k \in inFlight => k \in inFlight') /\ Answer(k)' = Answer(k)
        BY <1>1, <2>1 DEF Called, Answer
    <2>2. ASSUME NEW w \in Workers, Step(w) \/ Fault(w)
          PROVE  k \in inFlight' \/ {x \in results' : x[1] = k} # {}
        <3>1. \/ (k \in inFlight' <=> k \in inFlight) /\ Answer(k)' = Answer(k)
              \/ k \in inFlight' /\ Answer(k)' = Answer(k)
            BY <1>1, <2>2, KeyMoves
        <3> QED BY <1>1, <3>1 DEF Called, Answer
    <2> QED BY <2>1, <2>2, MarksStay
<1> QED BY <1>2, <1>3 DEF Spent, Called, Answer

(* Theorem: the engine never repeats a create whose outcome it does not     *)
(* know.  While marks and answers are kept, a create that was answered,     *)
(* whose answer was lost, or that a crash cut off is never called again     *)
(* under its key, by any worker, on any retry, redelivery or restart        *)
(* (queue.go:189-197, idem.go:102-107).                                     *)
THEOREM CreatesAreNotRepeated == Spec => CreatedOnce
<1>1. ASSUME PipeInv, CreatesHeldOnce, [Next]_vars
      PROVE  [MarksKept => \A k \in CreateKeys : Spent(k) => Spent(k)']_vars
    BY <1>1, SpentStays
<1> QED BY <1>1, PipelineInvariant, CreatesAreMarked, PTL DEF Spec, CreatedOnce
=============================================================================
