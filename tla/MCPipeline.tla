----------------------------- MODULE MCPipeline -----------------------------
(***************************************************************************)
(* Pipeline for TLC: one person, an identity key kf and a value vf.         *)
(***************************************************************************)
EXTENDS Pipeline, TLC

CONSTANTS kf, vf

Person == [f \in {kf, vf} |-> 0]

LeftOnly == [s \in Sides |-> IF s = "left" THEN {Person} ELSE {}]

BothSides == [s \in Sides |-> {Person}]

BothWays == {[direction |-> "bidirectional", writable |-> [s \in Sides |-> Fields]]}

\* The sync one way; and both ways, every field's own direction one way.
OneWay == {[direction |-> "left_to_right", writable |-> [s \in Sides |-> Fields]],
           [direction |-> "bidirectional",
            writable |-> [s \in Sides |-> IF s = "right" THEN Fields ELSE {}]]}

AnyConfig == BothWays \union OneWay

FieldLevel == [default |-> "field_level", perField |-> [f \in {} |-> "review"], skew |-> 1]

HoldsNothing == [s \in Sides |-> Gone]

\* Records people enter and change, reported by webhooks without a body.
Env(faults, edits, deletes) ==
    [held |-> HoldsNothing, sightings |-> {"thin"}, faults |-> faults, edits |-> edits,
     deletes |-> deletes]

\* Polls of a single record, and webhooks.
Polled(e) == [e EXCEPT !.sightings = {"poll", "thin"}]

\* The person is on both sides before the first PollAll.
Populated(e, onRight) ==
    [e EXCEPT !.sightings = {"all"},
              !.held = [s \in Sides |-> IF s = "left" THEN Person ELSE onRight]]

NoFaults == {Env({}, {"left"}, {})}

\* Everything goes wrong around one record nobody edits; nothing goes wrong
\* while people edit both sides, whether the engine polls or is called; the
\* first pass over two peers in use; a pass over one that is in use and one
\* that is empty, not always read.
CreateEnvironments ==
    {Polled(Env({"lost", "dropped", "rejected", "crash", "store"}, {}, {})),
     Env({}, Sides, {}),
     [Env({}, Sides, {}) EXCEPT !.sightings = {"poll"}],
     Populated(Env({"unread", "lost", "crash"}, {}, {}), Gone)}
    \union {Populated(Env({"lost", "dropped", "crash", "store"}, {}, {}), onRight) :
                onRight \in {Person, [Person EXCEPT ![vf] = 1]}}

BothEnvironments == {Env({"expiry"}, Sides, {})}

\* Calls and marks fail while people edit and delete; the process and the
\* store fail while people edit.
DeleteEnvironments ==
    {Env({"delete_lost", "mark_expiry"}, {"left"}, {"left"}),
     Env({"rejected", "mark_expiry"}, {"left"}, {"left"}),
     Env({"rejected", "dropped", "mark_expiry"}, {"left"}, {}),
     Env({"crash", "store"}, {"right"}, {})}

\* Environments of the known deviations.
LostEnvironment == {Env({"lost"}, {"left"}, {})}

MarkRunsOut == {Env({"lost", "mark_expiry"}, {}, {})}

CrashOnDelete == {Env({"crash"}, {}, {"left"})}

StoreOnDelete == {Env({"store"}, {}, {"left"})}

\* Keys half entered: releaseKeys has given up the old ones, the new are lost.
HalfIndexed == {Env({"store", "index"}, {"right"}, {})}

\* Two peers in use, one of them edited, and PollAll again and again.
Reread == {Populated(Env({}, {"left"}, {}), Person)}

\* The same at rest, with a peer that cannot always be read, or with webhooks
\* that come before the first pass.
Unread == {Populated(Env({"unread"}, {}, {}), Person)}

HookFirst == {[e EXCEPT !.sightings = {"all", "thin"}, !.faults = {}] : e \in Unread}

WorkerSymmetry == Permutations(Workers)
=============================================================================
