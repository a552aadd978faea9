------------------------------ MODULE Pipeline ------------------------------
(***************************************************************************)
(* internal/engine/pipeline.go with the packages it drives: identity, idem, *)
(* origin, conflict and the typed store.  One sync between two peers,       *)
(* "left" and "right", one object kind.                                     *)
(*                                                                          *)
(* A worker's pass over a change is cut at its network calls and at the     *)
(* keyed lock; between two cuts the pass touches only the store and is one  *)
(* step.  Anything else - people editing the peers, polls and webhooks,     *)
(* other workers, a crash, an expiry - happens between the cuts.  What      *)
(* follows a call - tag, result, links, snapshots, keys - is one step per    *)
(* row, and so is dropLink, so that another worker can come between.  A     *)
(* failing store or a crash may end any step half way: see Stops.           *)
(***************************************************************************)
EXTENDS Conflict, FiniteSets, Sequences

CONSTANTS
    Workers,
    Resolver,        \* conflict.Resolver of the sync
    KeyFields,       \* identity keys, among Fields
    OnAmbiguous,     \* "review", "create" or "skip"
    Configs,         \* the mappings a sync may be configured with
    Environments,    \* where a sync is run: see below
    NewRecords,      \* NewRecords[s]: records people may create on side s
    EditFields,      \* fields people edit
    Fresh,           \* TRUE: every edit writes a value never used before
    Twins,           \* TRUE: people may enter one person twice on one side
    MaxCreates,      \* bound on identifiers after which people stop creating
    MaxRecs,         \* bound on records per side
    MaxUserSteps,    \* bound on what people do
    MaxTasks,        \* bound on queued tasks
    Gone, Thin, NoRef

\* Modification times are left out here, so no policy may ask for them;
\* PairSync covers newest_wins.
ASSUME ResolverAssumption ==
    Resolver \in Resolvers /\ \A f \in Fields : PolicyFor(Resolver, f) # "newest_wins"

Other(s) == IF s = "left" THEN "right" ELSE "left"

\* A mapping's direction, and per side the fields whose own direction writes
\* into that side.
ASSUME ConfigsAssumption ==
    Configs \subseteq [direction : {"bidirectional", "left_to_right", "right_to_left"},
                       writable : [Sides -> SUBSET Fields]]

FaultKinds == {"lost", "delete_lost", "dropped", "rejected", "unread",   \* a call
               "store", "crash", "index",   \* index: also amid a record's keys
               "expiry", "mark_expiry"}

\* What each side holds at first; how changes reach the engine; the faults
\* met; the sides on which people edit and on which they delete.
ASSUME EnvironmentsAssumption ==
    Environments \subseteq [held : [Sides -> Canonical \union {Gone}],
                            sightings : SUBSET {"poll", "hook", "thin", "all"},
                            faults : SUBSET FaultKinds,
                            edits : SUBSET Sides, deletes : SUBSET Sides]

\* Config validation accepts no other answer, and only mapped fields as keys.
ASSUME IdentityAssumption ==
    KeyFields \subseteq Fields /\ OnAmbiguous \in {"review", "create", "skip"}

ASSUME PeopleAssumption ==
    NewRecords \in [Sides -> SUBSET Canonical] /\ EditFields \subseteq Fields

ASSUME BoundsAssumption ==
    MaxRecs \in Nat \ {0} /\ MaxCreates \in 0..MaxRecs /\ MaxUserSteps \in Nat

\* A ref is a side and the peer's identifier; identifier 0 is the empty
\* RemoteID of a record still to be created.
Refs == Sides \X (1..MaxRecs)
ToCreate(s) == <<s, 0>>
SideOf(r) == r[1]

\* What a pass may lock: a record's fingerprint, or its ref.
LockKeys == [KeyFields -> Values \union {Null, Absent}] \union Refs

\* The markers are none of the things they stand in for.
ASSUME MarkersAssumption ==
    /\ Gone \notin Canonical /\ Thin \notin Canonical \union {Gone}
    /\ NoRef \notin LockKeys \union Workers

Events == [ref : Refs, body : Canonical \union {Thin}, deleted : BOOLEAN]

VARIABLES
    conf,        \* the mapping, fixed when the sync is built
    env,         \* the environment, fixed as well
    rec,         \* what each peer holds: a canonical record, or Gone
    born,        \* how many identifiers each peer has handed out
    userSteps,   \* how many things people have done
    pass,        \* what PollAll has read and not yet queued
    unseen,      \* records changed since a poll or webhook last reported them
    tasks,       \* the work queue
    dlq,         \* the dead-letter queue
    reviews,     \* the review queue, by subject
    link,        \* link rows, one per ref
    snap,        \* snapshot rows
    tags,        \* origin tags: payloads we wrote, not yet seen back
    inFlight,    \* idempotency keys with an in-flight mark
    results,     \* committed idempotency results, <<key, ref>>
    index,       \* identity keys each record holds in the index
    job          \* job[w]: what worker w is doing

engineVars == <<link, snap, tags, inFlight, results, index, reviews>>
\* What a worker leaves alone between two calls.
outerVars == <<conf, env, rec, born, userSteps, pass>>
vars == <<conf, env, rec, born, userSteps, pass, unseen, tasks, dlq, job, engineVars>>

\* identity keys: empty and missing values take no part in matching.
KeysOf(c) == {<<f, c[f]>> : f \in {g \in KeyFields : c[g] \notin {Null, Absent}}}

NoEvent == [ref |-> NoRef, body |-> Thin, deleted |-> FALSE]

Idle == [pc |-> "idle", ev |-> NoEvent, body |-> NoRecord, lock |-> NoRef,
         far |-> NoRef, base |-> [s \in Sides |-> NoDigest], writes |-> <<>>, drop |-> <<>>,
         final |-> [s \in Sides |-> NoRecord]]

NoPass == [read |-> {}, found |-> {}]

Init ==
    /\ conf \in Configs /\ env \in Environments
    /\ rec = [r \in Refs |-> IF r[2] = 1 THEN env.held[SideOf(r)] ELSE Gone]
    /\ born = [s \in Sides |-> IF env.held[s] = Gone THEN 0 ELSE 1]
    /\ userSteps = 0
    /\ unseen = {r \in Refs : rec[r] # Gone}
    /\ pass = NoPass
    /\ tasks = {} /\ dlq = {} /\ reviews = {}
    /\ link = [r \in Refs |-> NoRef]
    /\ snap = [r \in Refs |-> NoDigest]
    /\ tags = {} /\ inFlight = {} /\ results = {}
    /\ index = [r \in Refs |-> {}]
    /\ job = [w \in Workers |-> Idle]

-----------------------------------------------------------------------------
(* People.                                                                  *)

UserCreate(s, c) ==
    /\ userSteps < MaxUserSteps /\ born[s] < MaxCreates
    /\ Twins \/ \A r \in Refs : SideOf(r) = s /\ rec[r] # Gone
                                  => KeysOf(rec[r]) \intersect KeysOf(c) = {}
    /\ born' = [born EXCEPT ![s] = @ + 1]
    /\ rec' = [rec EXCEPT ![<<s, born[s] + 1>>] = c]
    /\ unseen' = unseen \union {<<s, born[s] + 1>>}
    /\ userSteps' = userSteps + 1
    /\ UNCHANGED <<conf, env, pass, tasks, dlq, job, engineVars>>

UserEdit(r, f, v) ==
    /\ userSteps < MaxUserSteps
    /\ SideOf(r) \in env.edits
    /\ rec[r] # Gone
    /\ IF Fresh THEN v = userSteps + 1 ELSE v # rec[r][f]
    /\ rec' = [rec EXCEPT ![r][f] = v]
    /\ unseen' = unseen \union {r}
    /\ userSteps' = userSteps + 1
    /\ UNCHANGED <<conf, env, pass, born, tasks, dlq, job, engineVars>>

UserDelete(r) ==
    /\ userSteps < MaxUserSteps
    /\ SideOf(r) \in env.deletes
    /\ rec[r] # Gone
    /\ rec' = [rec EXCEPT ![r] = Gone]
    /\ unseen' = unseen \union {r}
    /\ userSteps' = userSteps + 1
    /\ UNCHANGED <<conf, env, pass, born, tasks, dlq, job, engineVars>>

-----------------------------------------------------------------------------
(* Changes reaching the engine.  A poll indexes the record on sight and     *)
(* queues its body; a webhook queues a body or only the identifier.  The    *)
(* overlap window and redelivery make any record come back at any time.  A  *)
(* peer the sync never writes from is not polled; its webhooks still come.  *)

WritesTo(s) == conf.direction = "bidirectional"
               \/ (conf.direction = "left_to_right" /\ s = "right")
               \/ (conf.direction = "right_to_left" /\ s = "left")

Sighting(r, how) ==
    [ref |-> r,
     body |-> IF rec[r] = Gone \/ how = "thin" THEN Thin ELSE rec[r],
     deleted |-> rec[r] = Gone]

Sight(r, how) ==
    /\ how \in env.sightings \ {"all"}
    /\ r[2] <= born[SideOf(r)]
    /\ how = "poll" => WritesTo(Other(SideOf(r)))
    /\ Cardinality(tasks) < MaxTasks
    /\ tasks' = tasks \union {Sighting(r, how)}
    /\ unseen' = unseen \ {r}
    /\ index' = IF how = "poll" /\ rec[r] # Gone
                THEN [index EXCEPT ![r] = KeysOf(rec[r])] ELSE index
    /\ UNCHANGED <<outerVars, dlq, job, link, snap, tags, inFlight, results, reviews>>

-----------------------------------------------------------------------------
(* PollAll: every peer is read before anything found is queued.             *)

Readable == {s \in Sides : WritesTo(Other(s))}

\* The peers are read one after the other, left before right.
NextPeer(s) ==
    /\ "all" \in env.sightings
    /\ s \in Readable \ pass.read
    /\ s = "right" => "left" \notin Readable \ pass.read

OnSide(s) == {r \in Refs : SideOf(r) = s /\ r[2] <= born[s]}

IndexedOnSight(s) ==
    [r \in Refs |-> IF SideOf(r) = s /\ rec[r] # Gone THEN KeysOf(rec[r]) ELSE index[r]]

ReadPeer(s) ==
    /\ NextPeer(s)
    /\ index' = IndexedOnSight(s)
    /\ pass' = [read |-> pass.read \union {s},
                found |-> pass.found \union {Sighting(r, "poll") : r \in OnSide(s)}]
    /\ unseen' = unseen \ OnSide(s)
    /\ UNCHANGED <<conf, env, rec, born, userSteps, tasks, dlq, job, link, snap, tags,
                   inFlight, results, reviews>>

\* A peer that cannot be read, or not to the end, is left out of the pass.
ReadPeerFails(s) ==
    /\ "unread" \in env.faults
    /\ NextPeer(s)
    /\ index' \in {index, IndexedOnSight(s)}
    /\ pass' = [pass EXCEPT !.read = @ \union {s}]
    /\ UNCHANGED <<conf, env, rec, born, userSteps, unseen, tasks, dlq, job, link, snap,
                   tags, inFlight, results, reviews>>

\* Mutant: what a peer's poll found is queued before the next peer is read.
AnyRead == pass.found # {}

AllRead == pass.read = Readable

SubmitAll ==
    /\ AllRead /\ pass # NoPass
    /\ Cardinality(tasks \union pass.found) <= MaxTasks
    /\ tasks' = tasks \union pass.found
    /\ pass' = NoPass
    /\ UNCHANGED <<conf, env, rec, born, userSteps, unseen, dlq, job, engineVars>>

-----------------------------------------------------------------------------
(* A pass, first cut: take a task, apply the direction gate, hydrate.       *)

Fingerprint(c) == [f \in KeyFields |-> c[f]]

LockKey(r, c) == IF \A f \in KeyFields : c[f] = Absent THEN r ELSE Fingerprint(c)

Start(w, e) ==
    LET gated == ~WritesTo(Other(SideOf(e.ref)))
        body  == IF e.body = Thin THEN rec[e.ref] ELSE e.body
    IN
    /\ job[w].pc = "idle"
    /\ e \in tasks
    /\ tasks' = tasks \ {e}
    /\ job' = [job EXCEPT ![w] =
         CASE gated -> Idle
           [] ~gated /\ (e.deleted \/ body = Gone) ->
                [Idle EXCEPT !.pc = "delete", !.ev = e]
           [] OTHER -> [Idle EXCEPT !.pc = "enter", !.ev = e, !.body = body]]
    /\ UNCHANGED <<outerVars, unseen, dlq, engineVars>>

\* Mutant: nobody waits for the lock.
AlwaysFree(k) == TRUE

Free(k) == \A w \in Workers : job[w].lock # k

\* The task is over: unlock and go idle.
Done(w) == job' = [job EXCEPT ![w] = Idle]

\* runTask's error path: back to the queue while attempts are left, to the
\* dead-letter queue otherwise.  WorkQueue counts the attempts.
FailTask(w) ==
    /\ Done(w)
    /\ \/ tasks' = tasks \union {job[w].ev} /\ UNCHANGED dlq
       \/ dlq' = dlq \union {job[w].ev} /\ UNCHANGED tasks

-----------------------------------------------------------------------------
(* Second cut: under the lock, classify, index, find the counterpart.       *)

\* Mutant: any tag of the record makes a change of it an echo.
AnyTagIsEcho(r, c) == \E t \in tags : t[1] = r

\* origin.Classify: we wrote exactly this to this record.
IsEcho(r, c) == <<r, c>> \in tags

Counterparts(r, c) ==
    IF link[r] # NoRef THEN {link[r]}
    ELSE {q \in Refs : SideOf(q) = Other(SideOf(r)) /\ index[q] \intersect KeysOf(c) # {}}

\* Resolve's three tiers: an existing link, one record with a key in common,
\* or what the configuration says about none and about several.
Identified(found) ==
    CASE Cardinality(found) = 1 -> "pair"
      [] found = {} -> IF OnAmbiguous = "skip" THEN "skip" ELSE "create"
      [] OTHER -> OnAmbiguous

\* create: one write of the whole record, then the pair is recorded as equal.
CreateJob(j) ==
    [j EXCEPT !.pc = "write", !.far = ToCreate(Other(SideOf(j.ev.ref))),
              !.writes = <<[to |-> ToCreate(Other(SideOf(j.ev.ref))), from |-> j.ev.ref,
                            values |-> Pick([fields |-> j.body]), base |-> NoRecord]>>,
              !.final = [s \in Sides |-> j.body]]

\* reconcile reads both snapshots before it asks the far side for its record.
Reconciling(j, far) ==
    [j EXCEPT !.pc = "resolve", !.far = far,
              !.base = [s \in Sides |-> snap[IF s = SideOf(far) THEN far ELSE j.ev.ref]]]

Enter(w) ==
    LET j == job[w]
        r == j.ev.ref
        k == LockKey(r, j.body)
        locked == [j EXCEPT !.lock = k]
        found == Counterparts(r, j.body)
    IN
    /\ j.pc = "enter"
    /\ Free(k)
    /\ IF IsEcho(r, j.body)
       THEN /\ tags' = tags \ {<<r, j.body>>}
            /\ Done(w)
            /\ UNCHANGED <<index, reviews>>
       ELSE /\ index' = [index EXCEPT ![r] = KeysOf(j.body)]
            /\ UNCHANGED tags
            /\ reviews' = IF Identified(found) = "review"
                          THEN reviews \union {{r}} ELSE reviews
            /\ job' = [job EXCEPT ![w] =
                 CASE Identified(found) = "pair" ->
                        Reconciling(locked, CHOOSE q \in found : TRUE)
                   [] Identified(found) = "create" -> CreateJob(locked)
                   [] OTHER -> Idle]
    /\ UNCHANGED <<outerVars, unseen, tasks, dlq, link, snap, inFlight, results>>

-----------------------------------------------------------------------------
(* Third cut: read the far side (bidirectional only), resolve.              *)

\* A conflict.State: the fields as read, the digest they have, the snapshot.
StateOf(fields, digest, base) ==
    [fields |-> fields, hash |-> digest, syncedHash |-> base, at |-> 0,
     base |-> IF base = NoDigest THEN NoRecord ELSE base]

\* On a one-way sync the far side is taken to be what its snapshot says.
FarState(j) ==
    LET base == j.base[SideOf(j.far)] IN
    IF conf.direction = "bidirectional" THEN StateOf(rec[j.far], rec[j.far], base)
    ELSE StateOf(IF base = NoDigest THEN NoRecord ELSE base, base, base)

\* The two writes of a resolution, left before right.
WriteList(j, res, state) ==
    LET refOf == [s \in Sides |-> IF s = SideOf(j.far) THEN j.far ELSE j.ev.ref]
        write(s) == IF DOMAIN res[s] # {}
                    THEN <<[to |-> refOf[s], from |-> refOf[Other(s)],
                            values |-> res[s], base |-> state[s].fields]>>
                    ELSE <<>>
    IN  write("left") \o write("right")

\* DeleteLink: the two rows of a link, left before right.
LinkRows(r) ==
    CASE link[r] = NoRef -> <<>>
      [] link[r] # NoRef /\ SideOf(r) = "left" -> <<<<"link", r>>, <<"link", link[r]>>>>
      [] OTHER -> <<<<"link", link[r]>>, <<"link", r>>>>

DerivedRows(r, q) == <<<<"keys", r>>, <<"snap", r>>, <<"keys", q>>, <<"snap", q>>>>

\* Mutant: the snapshots and keys go, the link rows stay.
DropLinkKeepsRows(j, r, q) == [j EXCEPT !.pc = "drop", !.drop = DerivedRows(r, q)]

\* dropLink: the pair's link, then per record its keys and its snapshot.
DropLink(j, r, q) ==
    [j EXCEPT !.pc = "drop", !.drop = LinkRows(r) \o DerivedRows(r, q)]

\* A pass that dropped the link goes on to create, or is over.
AfterDrop(j) ==
    IF j.writes = <<>> THEN Idle ELSE [j EXCEPT !.pc = "write", !.drop = <<>>]

DropRow(w) ==
    LET j == job[w]
        row == Head(j.drop)
    IN
    /\ j.pc = "drop"
    /\ link' = IF row[1] = "link" THEN [link EXCEPT ![row[2]] = NoRef] ELSE link
    /\ index' = IF row[1] = "keys" THEN [index EXCEPT ![row[2]] = {}] ELSE index
    /\ snap' = IF row[1] = "snap" THEN [snap EXCEPT ![row[2]] = NoDigest] ELSE snap
    /\ job' = [job EXCEPT ![w] = IF Len(j.drop) > 1 THEN [j EXCEPT !.drop = Tail(j.drop)]
                                 ELSE AfterDrop(j)]
    /\ UNCHANGED <<outerVars, unseen, tasks, dlq, tags, inFlight, results, reviews>>

\* The answer to the read of the far side, on a sync that reads it.
FarGone(j) == conf.direction = "bidirectional" /\ rec[j.far] = Gone

\* The far record is gone: drop the link and create it anew.
Recreate(w) ==
    LET j == job[w] IN
    /\ j.pc = "resolve" /\ FarGone(j)
    /\ job' = [job EXCEPT ![w] = DropLink(CreateJob(j), j.ev.ref, j.far)]
    /\ UNCHANGED <<outerVars, unseen, tasks, dlq, engineVars>>

States(j) ==
    [s \in Sides |-> IF s = SideOf(j.ev.ref) THEN StateOf(j.body, j.body, j.base[s])
                     ELSE FarState(j)]

Resolution(state) == Resolve(Resolver, state["left"], state["right"])

Reconcile(w) ==
    LET j == job[w]
        state == States(j)
        res == Resolution(state)
        writes == WriteList(j, res, state)
    IN
    /\ j.pc = "resolve" /\ ~FarGone(j)
    /\ IF res.action = "escalate"
       THEN reviews' = reviews \union {{j.ev.ref, j.far}} /\ Done(w)
       ELSE /\ job' = [job EXCEPT ![w] =
                 [j EXCEPT !.pc = IF writes = <<>> THEN "link" ELSE "write",
                           !.writes = writes,
                           !.final = [s \in Sides |-> Overlaid(state[s].fields, res[s])]]]
            /\ UNCHANGED reviews
    /\ UNCHANGED <<outerVars, unseen, tasks, dlq, link, snap, tags, inFlight, results, index>>

\* A read failed, while hydrating or while looking at the far side.
ReadFails(w) ==
    /\ "dropped" \in env.faults
    /\ \/ job[w].pc \in {"enter", "delete"} /\ job[w].ev.body = Thin /\ ~job[w].ev.deleted
       \/ job[w].pc = "resolve" /\ conf.direction = "bidirectional"
    /\ FailTask(w)
    /\ UNCHANGED <<outerVars, unseen, engineVars>>

-----------------------------------------------------------------------------
(* write: the idempotency mark and the origin tag before the call, the      *)
(* call, the result after it.                                               *)

IsCreate(wr) == wr.to = ToCreate(SideOf(wr.to))

\* Mutant: the direction of a field is not looked at.
SentAll(wr) == wr.values

\* FromCanonical: the fields whose direction writes into the target's side.
Sent(wr) == [f \in DOMAIN wr.values \intersect conf.writable[SideOf(wr.to)] |-> wr.values[f]]

\* The state the peer is expected to echo, and its part of the key.
Predicted(wr) == Overlaid(wr.base, wr.values)

IdemKey(wr) == <<wr.from, wr.to, Predicted(wr)>>

Answer(key) == {x \in results : x[1] = key}

\* Mutant: the identifier the peer gave a created record is not taken over.
AfterWriteNoRef(j, ref) ==
    [j EXCEPT !.writes = Tail(j.writes), !.far = Head(j.writes).to,
              !.pc = IF Len(j.writes) > 1 THEN "write" ELSE "link"]

\* Where the pass goes once the first of its writes is settled.  A created
\* record's identifier becomes the far side of the pair.
AfterWrite(j, ref) ==
    [j EXCEPT !.writes = Tail(j.writes),
              !.far = IF IsCreate(Head(j.writes)) THEN ref ELSE j.far,
              !.pc = IF Len(j.writes) > 1 THEN "write" ELSE "link"]

\* Mutant: an in-flight mark does not stop a create.
NoRecheck(wr) == FALSE

\* Begin's answer when a mark is in flight and the target is not known.
Recheck(wr) == IsCreate(wr) /\ IdemKey(wr) \in inFlight

BeginWrite(w) ==
    LET j == job[w]
        wr == Head(j.writes)
        key == IdemKey(wr)
    IN
    /\ j.pc = "write"
    /\ \/ \* nothing to send: a create ends here, a reconcile goes on
          /\ DOMAIN Sent(wr) = {}
          /\ IF IsCreate(wr) THEN Done(w)
             ELSE job' = [job EXCEPT ![w] = AfterWrite(j, wr.to)]
          /\ UNCHANGED <<tasks, dlq, tags, inFlight>>
       \/ \* replayed: the stored result stands for the call
          /\ DOMAIN Sent(wr) # {}
          /\ \E x \in Answer(key) : job' = [job EXCEPT ![w] = AfterWrite(j, x[2])]
          /\ UNCHANGED <<tasks, dlq, tags, inFlight>>
       \/ /\ DOMAIN Sent(wr) # {} /\ Answer(key) = {} /\ Recheck(wr)
          /\ FailTask(w)
          /\ UNCHANGED <<tags, inFlight>>
       \/ /\ DOMAIN Sent(wr) # {} /\ Answer(key) = {} /\ ~Recheck(wr)
          /\ inFlight' = inFlight \union {key}
          /\ tags' = IF IsCreate(wr) THEN tags ELSE tags \union {<<wr.to, Predicted(wr)>>}
          /\ job' = [job EXCEPT ![w].pc = "call"]
          /\ UNCHANGED <<tasks, dlq>>
    /\ UNCHANGED <<outerVars, unseen, link, snap, results, index, reviews>>

\* The peer applies an upsert: the fields sent, over what it holds.
Landed(wr) == IF IsCreate(wr) THEN <<SideOf(wr.to), born[SideOf(wr.to)] + 1>> ELSE wr.to

Lands(wr) ==
    LET r == Landed(wr) IN
    /\ IsCreate(wr) => born[SideOf(wr.to)] < MaxRecs
    /\ rec' = [rec EXCEPT ![r] = Overlaid(IF @ = Gone THEN NoRecord ELSE @, Sent(wr))]
    /\ born' = IF IsCreate(wr) THEN [born EXCEPT ![SideOf(wr.to)] = @ + 1] ELSE born
    /\ unseen' = unseen \union {r}

Upsert(w) ==
    LET wr == Head(job[w].writes) IN
    /\ job[w].pc = "call"
    /\ Lands(wr)
    /\ job' = [job EXCEPT ![w].pc = IF IsCreate(wr) THEN "tag" ELSE "settle",
                         ![w].far = IF IsCreate(wr) THEN Landed(wr) ELSE @]
    /\ UNCHANGED <<conf, env, pass, userSteps, tasks, dlq, engineVars>>

\* The write landed and the response was lost: the mark stays in flight.
UpsertLost(w) ==
    /\ "lost" \in env.faults
    /\ job[w].pc = "call"
    /\ Lands(Head(job[w].writes))
    /\ FailTask(w)
    /\ UNCHANGED <<conf, env, pass, userSteps, engineVars>>

\* The request never arrived, and nobody can tell: the mark stays in flight.
UpsertDropped(w) ==
    /\ "dropped" \in env.faults
    /\ job[w].pc = "call"
    /\ FailTask(w)
    /\ UNCHANGED <<outerVars, unseen, engineVars>>

\* The peer answered with an error: the write did not land, the mark goes, if
\* the store lets it.
UpsertRejected(w) ==
    /\ "rejected" \in env.faults
    /\ job[w].pc = "call"
    /\ \/ inFlight' = inFlight \ {IdemKey(Head(job[w].writes))}
       \/ "store" \in env.faults /\ UNCHANGED inFlight
    /\ FailTask(w)
    /\ UNCHANGED <<outerVars, unseen, link, snap, tags, results, index, reviews>>

\* The identifier of a created record is known: its tag is written now.
Tag(w) ==
    LET j == job[w] IN
    /\ j.pc = "tag"
    /\ tags' = tags \union {<<j.far, Predicted(Head(j.writes))>>}
    /\ job' = [job EXCEPT ![w].pc = "settle"]
    /\ UNCHANGED <<outerVars, unseen, tasks, dlq, link, snap, inFlight, results, index, reviews>>

\* idem.Commit: the result takes the place of the mark.
Settle(w) ==
    LET j == job[w]
        wr == Head(j.writes)
        ref == IF IsCreate(wr) THEN j.far ELSE wr.to
    IN
    /\ j.pc = "settle"
    /\ inFlight' = inFlight \ {IdemKey(wr)}
    /\ results' = (results \ Answer(IdemKey(wr))) \union {<<IdemKey(wr), ref>>}
    /\ job' = [job EXCEPT ![w] = AfterWrite(j, ref)]
    /\ UNCHANGED <<outerVars, unseen, tasks, dlq, link, snap, tags, index, reviews>>

-----------------------------------------------------------------------------
(* commitPair: the link under both refs, then per side snapshot and keys.   *)

PairRef(j, s) == IF s = SideOf(j.far) THEN j.far ELSE j.ev.ref

CommitLink(w, s, from, to) ==
    /\ job[w].pc = from
    /\ link' = [link EXCEPT ![PairRef(job[w], s)] = PairRef(job[w], Other(s))]
    /\ job' = [job EXCEPT ![w].pc = to]
    /\ UNCHANGED <<outerVars, unseen, tasks, dlq, snap, tags, inFlight, results, index, reviews>>

CommitSnapshot(w, s, from, to) ==
    /\ job[w].pc = from
    /\ snap' = [snap EXCEPT ![PairRef(job[w], s)] = job[w].final[s]]
    /\ job' = [job EXCEPT ![w].pc = to]
    /\ UNCHANGED <<outerVars, unseen, tasks, dlq, link, tags, inFlight, results, index, reviews>>

CommitKeys(w, s, from, to) ==
    /\ job[w].pc = from
    /\ index' = [index EXCEPT ![PairRef(job[w], s)] = KeysOf(job[w].final[s])]
    /\ IF to = "idle" THEN Done(w) ELSE job' = [job EXCEPT ![w].pc = to]
    /\ UNCHANGED <<outerVars, unseen, tasks, dlq, link, snap, tags, inFlight, results, reviews>>

CommitPair(w) ==
    \/ CommitLink(w, "left", "link", "link2")
    \/ CommitLink(w, "right", "link2", "snap")
    \/ CommitSnapshot(w, "left", "snap", "keys")
    \/ CommitKeys(w, "left", "keys", "snap2")
    \/ CommitSnapshot(w, "right", "snap2", "keys2")
    \/ CommitKeys(w, "right", "keys2", "idle")

-----------------------------------------------------------------------------
(* processDelete: a lock on the ref, the link decides, delete, drop.        *)

\* The word "delete" stands where a write has its payload digest.
DeleteKey(r, q) == <<r, q, Gone>>

\* Mutant: an unfinished delete counts as done.
MarkedDeleted(r, q) == Answer(DeleteKey(r, q)) # {} \/ DeleteKey(r, q) \in inFlight

\* Begin says replayed; a mark still in flight is cleared and taken afresh.
AlreadyDeleted(r, q) == Answer(DeleteKey(r, q)) # {}

DeleteEnter(w) ==
    LET r == job[w].ev.ref IN
    /\ job[w].pc = "delete"
    /\ Free(r)
    /\ \/ /\ link[r] = NoRef
          /\ Done(w)
          /\ UNCHANGED inFlight
       \/ \* already deleted once: only the rows are left to drop
          /\ link[r] # NoRef /\ AlreadyDeleted(r, link[r])
          /\ job' = [job EXCEPT ![w] = DropLink([job[w] EXCEPT !.lock = r], r, link[r])]
          /\ UNCHANGED inFlight
       \/ /\ link[r] # NoRef /\ ~AlreadyDeleted(r, link[r])
          /\ inFlight' = inFlight \union {DeleteKey(r, link[r])}
          /\ job' = [job EXCEPT ![w].pc = "delcall", ![w].lock = r, ![w].far = link[r]]
    /\ UNCHANGED <<outerVars, unseen, tasks, dlq, link, snap, index, tags, results, reviews>>

\* Deleting what is already gone succeeds.
DeleteLands(w) ==
    /\ rec' = [rec EXCEPT ![job[w].far] = Gone]
    /\ unseen' = IF rec[job[w].far] = Gone THEN unseen ELSE unseen \union {job[w].far}
    /\ UNCHANGED <<conf, env, pass, born, userSteps>>

DeleteCall(w) ==
    /\ job[w].pc = "delcall"
    /\ DeleteLands(w)
    /\ job' = [job EXCEPT ![w].pc = "delsettle"]
    /\ UNCHANGED <<tasks, dlq, engineVars>>

\* The call failed, before or after the peer applied it.  Unlike write,
\* processDelete leaves its mark whatever the peer answered.
DeleteFails(w) ==
    /\ job[w].pc = "delcall"
    /\ \/ "delete_lost" \in env.faults /\ DeleteLands(w)
       \/ env.faults \intersect {"dropped", "rejected"} # {} /\ UNCHANGED <<outerVars, unseen>>
    /\ FailTask(w)
    /\ UNCHANGED engineVars

DeleteSettle(w) ==
    LET r == job[w].ev.ref
        key == DeleteKey(r, job[w].far)
    IN
    /\ job[w].pc = "delsettle"
    /\ inFlight' = inFlight \ {key}
    /\ results' = results \union {<<key, job[w].far>>}
    /\ job' = [job EXCEPT ![w] = DropLink(job[w], r, job[w].far)]
    /\ UNCHANGED <<outerVars, unseen, tasks, dlq, link, snap, index, tags, reviews>>

-----------------------------------------------------------------------------
(* Steps that end half way: a row could not be read or written, or was      *)
(* written and reported as an error (a failed compaction), or the process   *)
(* died.  What the step had written stays.                                  *)

\* Index and Deindex give up the keys held before they enter the new ones.
KeysAfterStop(r, keys) ==
    IF "index" \in env.faults THEN (SUBSET index[r]) \union (SUBSET keys) ELSE {keys}

\* Index of a record, or of one of a pair that is dropped.
IndexStops(r, keys) ==
    /\ \E kept \in KeysAfterStop(r, keys) : index' = [index EXCEPT ![r] = kept]
    /\ UNCHANGED <<link, snap, tags, inFlight, results, reviews>>

\* Classify may have taken the tag, queueReview written its row.
EnterStops(w) ==
    LET j == job[w]
        r == j.ev.ref
    IN
    /\ j.pc = "enter"
    /\ Free(LockKey(r, j.body))
    /\ \/ IsEcho(r, j.body) /\ tags' = tags \ {<<r, j.body>>} /\ UNCHANGED <<link, snap,
             inFlight, results, index, reviews>>
       \/ ~IsEcho(r, j.body) /\ IndexStops(r, KeysOf(j.body))
       \/ /\ ~IsEcho(r, j.body) /\ Identified(Counterparts(r, j.body)) = "review"
          /\ index' = [index EXCEPT ![r] = KeysOf(j.body)]
          /\ reviews' = reviews \union {{r}}
          /\ UNCHANGED <<link, snap, tags, inFlight, results>>

ReviewStops(w) ==
    LET j == job[w] IN
    /\ j.pc = "resolve" /\ ~FarGone(j)
    /\ Resolution(States(j)).action = "escalate"
    /\ reviews' = reviews \union {{j.ev.ref, j.far}}
    /\ UNCHANGED <<link, snap, tags, inFlight, results, index>>

\* Begin, with Abandon before it when a mark of an update is stale, and the tag.
BeginStops(w) ==
    LET wr == Head(job[w].writes)
        key == IdemKey(wr)
    IN
    /\ job[w].pc = "write"
    /\ DOMAIN Sent(wr) # {} /\ Answer(key) = {} /\ ~Recheck(wr)
    /\ \/ inFlight' = inFlight \ {key} /\ UNCHANGED tags
       \/ inFlight' = inFlight \union {key} /\ UNCHANGED tags
       \/ /\ inFlight' = inFlight \union {key} /\ ~IsCreate(wr)
          /\ tags' = tags \union {<<wr.to, Predicted(wr)>>}
    /\ UNCHANGED <<link, snap, results, index, reviews>>

\* The same for a delete.
DeleteStops(w) ==
    LET r == job[w].ev.ref IN
    /\ job[w].pc = "delete"
    /\ Free(r) /\ link[r] # NoRef /\ ~AlreadyDeleted(r, link[r])
    /\ \/ inFlight' = inFlight \ {DeleteKey(r, link[r])}
       \/ inFlight' = inFlight \union {DeleteKey(r, link[r])}
    /\ UNCHANGED <<link, snap, tags, results, index, reviews>>

\* Keys half entered or half given up; the last row landed.
RowStops(w) ==
    LET j == job[w] IN
    \/ j.pc = "keys" /\ IndexStops(PairRef(j, "left"), KeysOf(j.final["left"]))
    \/ j.pc = "keys2" /\ IndexStops(PairRef(j, "right"), KeysOf(j.final["right"]))
    \/ j.pc = "drop" /\ Head(j.drop)[1] = "keys" /\ IndexStops(Head(j.drop)[2], {})
    \/ /\ j.pc = "drop" /\ Head(j.drop)[1] = "snap"
       /\ snap' = [snap EXCEPT ![Head(j.drop)[2]] = NoDigest]
       /\ UNCHANGED <<link, tags, inFlight, results, index, reviews>>

\* At a call there is no row to fail; a lock must have been got.
Stops(w) ==
    \/ /\ job[w].pc \notin {"idle", "call", "delcall"}
       /\ job[w].pc = "enter" => Free(LockKey(job[w].ev.ref, job[w].body))
       /\ job[w].pc = "delete" => Free(job[w].ev.ref)
       /\ UNCHANGED engineVars
    \/ EnterStops(w) \/ ReviewStops(w) \/ BeginStops(w) \/ DeleteStops(w) \/ RowStops(w)

\* The pass ends where it is and the task is retried.
StoreFails(w) ==
    /\ "store" \in env.faults
    /\ Stops(w)
    /\ FailTask(w)
    /\ UNCHANGED <<outerVars, unseen>>

\* The process dies: queue, locks and passes are gone, the store is not.  The
\* watermark had not moved past the unfinished work (see WorkQueue and
\* Watermark), so the next poll reports it again.
Crash ==
    /\ "crash" \in env.faults
    /\ \E w \in Workers : job[w].pc # "idle"
    /\ UNCHANGED engineVars \/ \E w \in Workers : Stops(w)
    /\ unseen' = unseen \union {e.ref : e \in tasks \union pass.found}
                  \union {job[w].ev.ref : w \in {v \in Workers : job[v].pc # "idle"}}
    /\ tasks' = {} /\ pass' = NoPass
    /\ job' = [w \in Workers |-> Idle]
    /\ UNCHANGED <<conf, env, rec, born, userSteps, dlq>>

\* Origin tags, idempotency results and in-flight marks are kept for a time.
Expire ==
    /\ \/ /\ "expiry" \in env.faults
          /\ \/ \E t \in tags : tags' = tags \ {t} /\ UNCHANGED results
             \/ \E x \in results : results' = results \ {x} /\ UNCHANGED tags
          /\ UNCHANGED inFlight
       \/ /\ "mark_expiry" \in env.faults
          /\ \E k \in inFlight : inFlight' = inFlight \ {k}
          /\ UNCHANGED <<tags, results>>
    /\ UNCHANGED <<outerVars, unseen, tasks, dlq, job, link, snap, index, reviews>>

Step(w) ==
    \/ \E e \in tasks : Start(w, e)
    \/ Enter(w) \/ Recreate(w) \/ Reconcile(w) \/ DropRow(w)
    \/ BeginWrite(w) \/ Upsert(w) \/ Tag(w) \/ Settle(w) \/ CommitPair(w)
    \/ DeleteEnter(w) \/ DeleteCall(w) \/ DeleteSettle(w)

Fault(w) ==
    \/ ReadFails(w) \/ UpsertLost(w) \/ UpsertDropped(w) \/ UpsertRejected(w)
    \/ DeleteFails(w) \/ StoreFails(w)

People ==
    \/ \E s \in Sides : \E c \in NewRecords[s] : UserCreate(s, c)
    \/ \E r \in Refs : UserDelete(r) \/ \E f \in EditFields, v \in Values : UserEdit(r, f, v)

Next ==
    \/ People
    \/ \E r \in Refs, how \in {"poll", "hook", "thin"} : Sight(r, how)
    \/ (\E s \in Sides : ReadPeer(s) \/ ReadPeerFails(s)) \/ SubmitAll
    \/ \E w \in Workers : Step(w) \/ Fault(w)
    \/ Crash \/ Expire

Spec == Init /\ [][Next]_vars

\* Workers keep running; the daemon's poll timer reports every change and the
\* queue is served in order, so each record's turn comes.  Strong fairness
\* makes up for MaxTasks and for tasks being a set: in the code the queue is
\* unbounded and first come, first served.
FairSpec ==
    /\ Spec
    /\ \A w \in Workers : WF_vars(Step(w))
    /\ \A r \in Refs :
         /\ SF_vars(r \in unseen /\ \E how \in {"poll", "hook", "thin"} : Sight(r, how))
         /\ SF_vars(\E w \in Workers, e \in tasks : e.ref = r /\ Start(w, e))
-----------------------------------------------------------------------------
TypeOK ==
    /\ conf \in Configs /\ env \in Environments
    /\ rec \in [Refs -> Canonical \union {Gone}]
    /\ born \in [Sides -> 0..MaxRecs]
    /\ userSteps \in 0..MaxUserSteps
    /\ unseen \subseteq Refs /\ pass.found \subseteq Events
    /\ tasks \subseteq Events /\ dlq \subseteq Events
    /\ link \in [Refs -> Refs \union {NoRef}]
    /\ snap \in [Refs -> Canonical \union {NoDigest}]
    /\ tags \subseteq Refs \X Canonical
    /\ index \in [Refs -> SUBSET (KeyFields \X Values)]

Live(r) == rec[r] # Gone

(* Safety: one person is one record on each side.  A create that is retried *)
(* after a lost response or a crash, or whose echo races its bookkeeping,   *)
(* never makes a second one (queue.go:189-197, idem.go:102-107).            *)
NoDuplicates ==
    \A a, b \in Refs :
        a # b /\ SideOf(a) = SideOf(b) /\ Live(a) /\ Live(b)
            => KeysOf(rec[a]) \intersect KeysOf(rec[b]) = {}

(* Safety: no record is the counterpart of two.                             *)
LinksPaired ==
    \A r \in Refs : link[r] # NoRef /\ link[link[r]] # NoRef => link[link[r]] = r

\* Nothing left to do: every change was reported, worked off and answered.
Quiet ==
    /\ unseen = {} /\ tasks = {} /\ pass = NoPass
    /\ \A w \in Workers : job[w].pc = "idle"

InStep ==
    \A r \in Refs : Live(r) =>
        /\ link[r] # NoRef
        /\ rec[link[r]] = rec[r]
        /\ snap[r] = rec[r]

(* Safety: when nothing is left to do and nothing was given up or handed to *)
(* a person, every record has a counterpart, the two are equal, and the     *)
(* snapshots say so too (pipeline.go:520-525).                              *)
QuietMeansInStep == Quiet /\ dlq = {} /\ reviews = {} => InStep

\* Every field may be written into either side.
TwoWay == conf.direction = "bidirectional" /\ \A s \in Sides : conf.writable[s] = Fields

(* Liveness: once people stop editing, a pair that is synced both ways is   *)
(* brought in step and kept in step whatever is redelivered, unless a       *)
(* person was asked (origin.go:143-149, pipeline.go:455-464).               *)
Converges == TwoWay => <>[](reviews # {} \/ InStep)

(* Safety: the engine never replaces a value by an older one of the same    *)
(* field, edits being numbered in the order they were made.                 *)
NeverBackwards ==
    [][Fresh /\ userSteps' = userSteps =>
         \A r \in Refs, f \in EditFields :
             rec[r] # Gone /\ rec'[r] # Gone => rec'[r][f] >= rec[r][f]]_vars

(* Safety: once two records are linked, that is the answer: a link is only  *)
(* ever dropped, never pointed at another record (identity.go:6-7).         *)
LinkIsTheAnswer ==
    [][\A r \in Refs : link[r] # NoRef => link'[r] \in {link[r], NoRef}]_vars

(* Safety: a deletion is only ever carried over.  The engine never deletes  *)
(* a record while the one it is linked with still exists                    *)
(* (pipeline.go:558-563).                                                   *)
NoStrayDelete ==
    [][\A r \in Refs : Live(r) /\ rec'[r] = Gone /\ userSteps' = userSteps
         => \A q \in Refs : link[q] = r => rec[q] = Gone]_vars

\* The configuration gives the engine nothing to write into side s.
ReadOnly(s) == \/ conf.direction = (IF s = "left" THEN "left_to_right" ELSE "right_to_left")
               \/ conf.writable[s] = {}

(* Safety: a side the configuration never writes into is never written      *)
(* (pipeline.go:95-101, mapping.go:112-118).                                *)
SourceUntouched ==
    [][\A r \in Refs : ReadOnly(SideOf(r)) /\ userSteps' = userSteps
         => rec'[r] = rec[r]]_vars
=============================================================================
