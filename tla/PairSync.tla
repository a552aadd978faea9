------------------------------ MODULE PairSync ------------------------------
(***************************************************************************)
(* One linked pair kept in step by conflict resolution, without the faults  *)
(* of the network: people edit either side at any time, and now and then    *)
(* the engine reads both sides, resolves, writes and records both snapshots *)
(* in one step (reconcile in internal/engine/pipeline.go, with              *)
(* internal/conflict).  It is what the engine promises for a pair; Pipeline *)
(* takes the pass apart into its reads, writes and bookkeeping.             *)
(***************************************************************************)
EXTENDS Conflict

CONSTANTS ResolverSet,   \* the resolvers the configuration may ask for
          Drops,         \* sets of fields a read may come back without
          MaxEdits       \* bound on the number of edits

ASSUME ResolverSetAssumption == ResolverSet \subseteq Resolvers
ASSUME DropsAssumption == Drops \subseteq SUBSET Fields /\ {} \in Drops
ASSUME MaxEditsAssumption == MaxEdits \in Nat

VARIABLES
    resolver,   \* conflict.Resolver, fixed when the sync is built
    value,      \* value[s]: the record as the peer on side s holds it
    at,         \* at[s]: the peer's modification time
    synced,     \* synced[s]: the stored snapshot, NoDigest before the first
    now,        \* time, advanced by edits
    review      \* the pair has an open row in the review queue

pairVars == <<resolver, value, at, synced, now, review>>

PairTypeOK ==
    /\ resolver \in ResolverSet
    /\ value \in [Sides -> [Fields -> Values \union {Null}]]
    /\ at \in [Sides -> Nat]
    /\ synced \in [Sides -> Canonical \union {NoDigest}]
    /\ now \in Nat
    /\ review \in BOOLEAN

\* Matched by identity, never synced: the two sides may already disagree.
PairInit ==
    /\ resolver \in ResolverSet
    /\ value \in [Sides -> [Fields -> Values \union {Null}]]
    /\ at = [s \in Sides |-> 0]
    /\ synced = [s \in Sides |-> NoDigest]
    /\ now = 0
    /\ review = FALSE

Edit(s, f, v) ==
    /\ now < MaxEdits
    /\ value[s][f] # v
    /\ value' = [value EXCEPT ![s][f] = v]
    /\ now' = now + 1
    /\ at' = [at EXCEPT ![s] = now + 1]
    /\ UNCHANGED <<resolver, synced, review>>

\* What ToCanonical makes of a response that lacks the fields in drop.
Read(s, drop) == [f \in Fields |-> IF f \in drop THEN Absent ELSE value[s][f]]

ReadState(s, drop) ==
    [fields     |-> Read(s, drop),
     hash       |-> Read(s, drop),
     base       |-> IF synced[s] = NoDigest THEN NoRecord ELSE synced[s],
     syncedHash |-> synced[s],
     at         |-> at[s]]

Decision(drop) ==
    Resolve(resolver, ReadState("left", drop["left"]), ReadState("right", drop["right"]))

\* Mutant: the snapshots are what was read, not what is there after the write.
FinalAsRead(res, drop) == [s \in Sides |-> Read(s, drop[s])]

\* Mutant: the snapshots hold the fields written and no other.
FinalWritten(res, drop) == [s \in Sides |-> res[s]]

\* The values each side is predicted to hold, which are also the snapshots.
Final(res, drop) ==
    [s \in Sides |-> Overlaid(Read(s, drop[s]), res[s])]

Pass(drop) ==
    LET res == Decision(drop) IN
    /\ res.action # "escalate"
    /\ value' = [s \in Sides |-> Overlaid(value[s], res[s])]
    /\ at' = [s \in Sides |-> IF DOMAIN res[s] = {} THEN at[s] ELSE now]
    /\ synced' = Final(res, drop)
    /\ UNCHANGED <<resolver, now, review>>

\* queueReview: nothing is written and no snapshot is recorded.
Ask(drop) ==
    /\ Decision(drop).action = "escalate"
    /\ review' = TRUE
    /\ UNCHANGED <<resolver, value, at, synced, now>>

PairNext ==
    \/ \E s \in Sides, f \in Fields, v \in Values \union {Null} : Edit(s, f, v)
    \/ \E drop \in [Sides -> Drops] : Pass(drop) \/ Ask(drop)

PairSpec == PairInit /\ [][PairNext]_pairVars

\* The daemon polls on a timer, so a pass over the pair keeps happening.
FairPairSpec == PairSpec /\ WF_pairVars(\E drop \in [Sides -> Drops] : Pass(drop) \/ Ask(drop))

-----------------------------------------------------------------------------
\* Reads return every mapped field.
FullReads == Drops = {{}}

\* No policy of the resolver may pick a winner between two edits.
Lossless(r) == \A f \in Fields : PolicyFor(r, f) \in {"field_level", "review"}

Edited(s, f) == synced[s] # NoDigest /\ value[s][f] # synced[s][f]

(* Safety: whatever the policy, a pass that goes through leaves both sides  *)
(* recorded in the same state, so a later pass never takes a difference the *)
(* engine itself left behind for somebody's edit (pipeline.go:352-362).     *)
SnapshotsAgree == FullReads => synced["left"] = synced["right"]

(* Safety: under field_level and review, alone or per field, the engine     *)
(* never overwrites a field somebody edited since the last sync             *)
(* (conflict.go:30-33, "the only policy that can lose nothing").            *)
NoEditOverwritten ==
    [][\A s \in Sides, f \in Fields :
         Lossless(resolver) /\ now' = now /\ Edited(s, f)
            => value'[s][f] = value[s][f]]_pairVars

(* Liveness: once edits stop, the sides agree or a person has been asked.   *)
Settles == FullReads => <>[](value["left"] = value["right"] \/ review)

(* What ToCanonical says a partial response must never look like: a field   *)
(* the peer did not return is not cleared on the other side by the pass     *)
(* (mapping.go:263-266).                                                    *)
PartialReadIsNoDeletion ==
    [][\A s, o \in Sides, f \in Fields :
         s # o /\ now' = now /\ value'[o][f] = Null => value[o][f] = Null \/ value[s][f] = Null]_pairVars
=============================================================================
