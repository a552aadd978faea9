------------------------------ MODULE Conflict ------------------------------
(***************************************************************************)
(* internal/conflict/conflict.go: what to do about one linked pair.  Pure   *)
(* operators; PairSync and Pipeline apply them.                             *)
(*                                                                          *)
(* A canonical record is a function from the mapped fields to a value, to   *)
(* Null (the peer says the field is empty) or to Absent (the peer did not   *)
(* return the field; in Go, the key is not in the map).  SnapshotHash is a  *)
(* digest of exactly the mapped fields that keeps Null and Absent apart, so *)
(* the digest of a record is modelled by the record itself, and the empty   *)
(* string by NoDigest.                                                      *)
(*                                                                          *)
(* One side's view (conflict.State) is a record                             *)
(*    fields      canonical values as they are now                          *)
(*    hash        their digest                                              *)
(*    base        values at the last successful sync                        *)
(*    syncedHash  their digest, NoDigest when the pair never synced         *)
(*    at          UpdatedAt, the peer's clock                               *)
(***************************************************************************)
EXTENDS Integers

CONSTANTS Fields, Values, Null, Absent, NoDigest

ASSUME ValuesAssumption ==
    /\ Null \notin Values
    /\ Absent \notin Values \union {Null}

Canonical == [Fields -> Values \union {Null, Absent}]

ASSUME NoDigestAssumption == NoDigest \notin Canonical

NoRecord == [f \in Fields |-> Absent]

Sides == {"left", "right"}

Policies == {"left_wins", "right_wins", "newest_wins", "field_level", "review"}

\* A resolver: the default policy, overrides for some fields, clock tolerance.
Resolvers == [default  : Policies,
              perField : UNION {[F -> Policies] : F \in SUBSET Fields},
              skew     : Nat]

NoWrites == [f \in {} |-> Null]

-----------------------------------------------------------------------------
Changed(s) == s.hash # s.syncedHash

HasBase(s) == s.syncedHash # NoDigest

FieldChanged(s, f) == s.fields[f] # s.base[f]

\* The fields the two sides disagree about.
Diff(l, r) == {f \in Fields : l.fields[f] # r.fields[f]}

\* Every mapped field the side did return.
Pick(s) == [f \in {g \in Fields : s.fields[g] # Absent} |-> s.fields[f]]

\* FieldDiff.Left / .Right: a map lookup, so a missing key reads as nil.
Looked(v) == IF v = Absent THEN Null ELSE v

ValuesOf(s, F) == [f \in F |-> Looked(s.fields[f])]

PolicyFor(r, f) == IF f \in DOMAIN r.perField THEN r.perField[f] ELSE r.default

-----------------------------------------------------------------------------
(* Resolutions: the action and what it writes into each side.               *)

Nothing == [action |-> "nothing", left |-> NoWrites, right |-> NoWrites]

Escalate == [action |-> "escalate", left |-> NoWrites, right |-> NoWrites]

WriteRight(values) == [action |-> "write_right", left |-> NoWrites, right |-> values]

WriteLeft(values) == [action |-> "write_left", left |-> values, right |-> NoWrites]

\* Mutant: a merge that has something for both sides writes only the right.
OutcomeRightOnly(l, r, toLeft, toRight) ==
    IF toRight # {} THEN WriteRight(ValuesOf(l, toRight))
    ELSE IF toLeft # {} THEN WriteLeft(ValuesOf(r, toLeft)) ELSE Nothing

\* The switch that ends merge and resolvePerField: which sides get anything.
Outcome(l, r, toLeft, toRight) ==
    LET lv == ValuesOf(r, toLeft)
        rv == ValuesOf(l, toRight)
    IN  CASE toLeft # {} /\ toRight # {} ->
                [action |-> "write_both", left |-> lv, right |-> rv]
          [] toLeft = {} /\ toRight # {} -> WriteRight(rv)
          [] toLeft # {} /\ toRight = {} -> WriteLeft(lv)
          [] OTHER -> Nothing

\* clockWinner: "none" inside the tolerance.
ClockWinner(r, left, right) ==
    LET gap == IF left.at >= right.at THEN left.at - right.at ELSE right.at - left.at
    IN  IF gap <= r.skew THEN "none"
        ELSE IF left.at > right.at THEN "left" ELSE "right"

Newest(r, left, right) ==
    CASE ClockWinner(r, left, right) = "left"  -> WriteRight(Pick(left))
      [] ClockWinner(r, left, right) = "right" -> WriteLeft(Pick(right))
      [] OTHER -> Escalate

\* FieldLevel: the edits that do not collide go to the other side; one
\* collision escalates the whole record.
Contested(left, right) ==
    {f \in Diff(left, right) : FieldChanged(left, f) /\ FieldChanged(right, f)}

OnlyEdited(s, other) ==
    {f \in Diff(s, other) : FieldChanged(s, f) /\ ~FieldChanged(other, f)}

\* Mutant: the other side's edit of the field is not looked at.
EditedAtAll(s, other) == {f \in Diff(s, other) : FieldChanged(s, f)}

\* Mutant: collisions are settled for the left side instead of escalated.
MergeLeftBiased(left, right) ==
    Outcome(left, right, OnlyEdited(right, left), EditedAtAll(left, right))

Merge(left, right) ==
    IF ~HasBase(left) \/ ~HasBase(right) \/ Contested(left, right) # {}
    THEN Escalate
    ELSE Outcome(left, right, OnlyEdited(right, left), OnlyEdited(left, right))

\* resolvePerField: each disagreed field has the winner its policy names.
FieldWinner(r, left, right, f) ==
    LET p == PolicyFor(r, f) IN
    CASE p = "left_wins"   -> "left"
      [] p = "right_wins"  -> "right"
      [] p = "newest_wins" -> ClockWinner(r, left, right)
      [] p = "field_level" ->
           IF ~HasBase(left) \/ ~HasBase(right) \/ f \in Contested(left, right)
           THEN "none"
           ELSE IF FieldChanged(left, f) THEN "left"
           ELSE IF FieldChanged(right, f) THEN "right" ELSE "neither"
      [] OTHER -> "none"

ResolvePerField(r, left, right) ==
    LET won(side) == {f \in Diff(left, right) : FieldWinner(r, left, right, f) = side}
    IN  IF won("none") # {} THEN Escalate
        ELSE Outcome(left, right, won("right"), won("left"))

ResolveConflict(r, left, right) ==
    IF DOMAIN r.perField # {} THEN ResolvePerField(r, left, right)
    ELSE CASE r.default = "field_level" -> Merge(left, right)
           [] r.default = "left_wins"   -> WriteRight(Pick(left))
           [] r.default = "right_wins"  -> WriteLeft(Pick(right))
           [] r.default = "newest_wins" -> Newest(r, left, right)
           [] OTHER -> Escalate

Resolve(r, left, right) ==
    IF Diff(left, right) = {} THEN Nothing
    ELSE CASE ~Changed(left) /\ ~Changed(right) -> Nothing
           [] Changed(left) /\ ~Changed(right)  -> WriteRight(Pick(left))
           [] ~Changed(left) /\ Changed(right)  -> WriteLeft(Pick(right))
           [] OTHER -> ResolveConflict(r, left, right)

-----------------------------------------------------------------------------
\* pipeline.go merge: values laid over a base, mutating neither.
Overlaid(base, values) ==
    [f \in Fields |-> IF f \in DOMAIN values THEN values[f] ELSE base[f]]
=============================================================================
