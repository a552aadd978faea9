----------------------------- MODULE FileStore -----------------------------
(***************************************************************************)
(* internal/store/file.go: a map kept in memory, every mutation appended to *)
(* a log and fsynced before it is applied, the log folded into a snapshot   *)
(* now and then, both replayed on opening.                                  *)
(*                                                                          *)
(* A call holds f.mu from beginning to end, so there is one call at a time; *)
(* it is cut at every file operation, because the process or the machine    *)
(* may die between any two.  A key stands for a collection and a key in it. *)
(* An entry with a TTL has a value in Mortal and may be found expired at    *)
(* any time.  Writing, fsyncing and closing the temporary snapshot is one   *)
(* step: nothing reads that file before it is renamed.                      *)
(***************************************************************************)
EXTENDS Integers, Sequences, FiniteSets

CONSTANTS
    Keys,           \* numbers, so that they sort
    Values, Mortal, \* what is stored; the values that carry a TTL
    CompactAfter,   \* FileOptions.CompactAfter, 0 when compaction is disabled
    Faults,         \* "kill", "crash"; a failing "compact", "fsync" or
                    \* "append", which with "torn" may fail half way
    MaxCalls,       \* bound on calls
    MaxFaults,      \* bound on crashes and failures
    None, Torn, Down

ASSUME KeysAssumption == Keys \subseteq Nat /\ IsFiniteSet(Keys)
ASSUME MarksAssumption == None \notin Values /\ Mortal \subseteq Values
ASSUME BoundsAssumption == CompactAfter \in Nat /\ MaxCalls \in Nat /\ MaxFaults \in Nat

Held == Values \union {None}

\* An op of the log: a key and its new value, None for a deletion.  A line
\* that cannot be decoded is Torn.
Ops == Keys \X Held
Maps == [Keys -> Held]

ASSUME ShapesAssumption == Torn \notin Ops /\ Down \notin Maps

VARIABLES
    data,     \* f.data, Down while the store is not open
    log,      \* log.jsonl as the running system sees it, line by line
    stable,   \* log.jsonl as of its last fsync
    snap,     \* snapshot.json; no file is the empty map
    snaps,    \* the snapshots a crash may leave in its place
    ops,      \* f.ops
    pc,       \* the file operation the current call does next
    todo,     \* the ops the current call has still to log
    calls, faults,
    owed      \* history: what a restart may find under each key

diskVars == <<log, stable, snap, snaps>>
vars == <<data, log, stable, snap, snaps, ops, pc, todo, calls, faults, owed>>

Empty == [k \in Keys |-> None]

Init ==
    /\ data = Empty /\ snap = Empty /\ snaps = {Empty}
    /\ log = <<>> /\ stable = <<>>
    /\ ops = 0 /\ pc = "idle" /\ todo = {}
    /\ calls = 0 /\ faults = 0
    /\ owed = [k \in Keys |-> {None}]

-----------------------------------------------------------------------------
(* Replay: the snapshot, then the log up to its first torn line.            *)

Intact(l) == {i \in DOMAIN l : \A j \in 1..i : l[j] # Torn}

Last(S) == CHOOSE i \in S : \A j \in S : j <= i

\* Mutant: the key lands where the value belongs.
ReplayedKey(s, l) ==
    [k \in Keys |->
        LET mine == {i \in Intact(l) : l[i][1] = k}
        IN  IF mine = {} THEN s[k] ELSE l[Last(mine)][1]]

Replayed(s, l) ==
    [k \in Keys |->
        LET mine == {i \in Intact(l) : l[i][1] = k}
        IN  IF mine = {} THEN s[k] ELSE l[Last(mine)][2]]

-----------------------------------------------------------------------------
(* Calls.  Take deletes as Delete does and hands out what it deleted.       *)

Call == pc = "idle" /\ calls < MaxCalls /\ calls' = calls + 1

\* maybeCompact, as Put, Delete, Take and Sweep end.
AfterOps(n) == IF CompactAfter > 0 /\ n >= CompactAfter THEN "snapshot" ELSE "idle"

Put(k, v) ==
    /\ Call
    /\ todo' = {<<k, v>>}
    /\ pc' = "write"
    /\ UNCHANGED <<data, diskVars, ops, faults, owed>>

\* What is not there is not logged, and the caller is told it is gone.
Delete(k) ==
    /\ Call
    /\ IF data[k] = None THEN UNCHANGED <<todo, pc>>
       ELSE todo' = {<<k, None>>} /\ pc' = "write"
    /\ UNCHANGED <<data, diskVars, ops, faults, owed>>

\* dead: the entries found expired.
Sweep(dead) ==
    /\ Call
    /\ \A k \in dead : data[k] \in Mortal
    /\ todo' = {<<k, None>> : k \in dead}
    /\ pc' = IF dead = {} THEN AfterOps(ops) ELSE "write"
    /\ UNCHANGED <<data, diskVars, ops, faults, owed>>

Compact ==
    /\ Call
    /\ pc' = "snapshot"
    /\ UNCHANGED <<data, diskVars, ops, todo, faults, owed>>

Close ==
    /\ Call
    /\ data' = Down
    /\ pc' = "down"
    /\ UNCHANGED <<diskVars, ops, todo, faults, owed>>

-----------------------------------------------------------------------------
(* append and apply, for the first op that is left.                         *)

Current == CHOOSE o \in todo : \A p \in todo : o[1] <= p[1]

WriteLine ==
    /\ pc = "write"
    /\ log' = Append(log, Current)
    /\ owed' = [owed EXCEPT ![Current[1]] = @ \union {Current[2]}]
    /\ pc' = "fsync"
    /\ UNCHANGED <<data, stable, snap, snaps, ops, todo, calls, faults>>

\* Mutant: the snapshot is taken before the op is applied.
AfterFsyncCompact(n) == IF AfterOps(n) = "snapshot" THEN "snapshot" ELSE "apply"

\* What follows a successful append.
AfterFsync(n) == "apply"

FsyncLine ==
    /\ pc = "fsync"
    /\ stable' = log
    /\ owed' = [owed EXCEPT ![Current[1]] = {Current[2]}]
    /\ ops' = ops + 1
    /\ pc' = AfterFsync(ops + 1)
    /\ UNCHANGED <<data, log, snap, snaps, todo, calls, faults>>

Apply ==
    /\ pc = "apply"
    /\ data' = [data EXCEPT ![Current[1]] = Current[2]]
    /\ todo' = todo \ {Current}
    /\ pc' = IF todo' = {} THEN AfterOps(ops) ELSE "write"
    /\ UNCHANGED <<diskVars, ops, calls, faults, owed>>

-----------------------------------------------------------------------------
(* compact.                                                                 *)

\* Mutant: the log goes before the snapshot is in place.
StepsTruncateFirst ==
    [snapshot |-> "truncate", truncate |-> "fsynclog", fsynclog |-> "rename",
     rename |-> "syncdir", syncdir |-> "idle"]

\* What comes after each file operation.
Steps ==
    [snapshot |-> "rename", rename |-> "syncdir", syncdir |-> "truncate",
     truncate |-> "fsynclog", fsynclog |-> "idle"]

WriteTemp ==
    /\ pc = "snapshot"
    /\ pc' = Steps[pc]
    /\ UNCHANGED <<data, diskVars, ops, todo, calls, faults, owed>>

Rename ==
    /\ pc = "rename"
    /\ snap' = data
    /\ snaps' = snaps \union {data}
    /\ pc' = Steps[pc]
    /\ UNCHANGED <<data, log, stable, ops, todo, calls, faults, owed>>

SyncDir ==
    /\ pc = "syncdir"
    /\ snaps' = {snap}
    /\ pc' = Steps[pc]
    /\ UNCHANGED <<data, log, stable, snap, ops, todo, calls, faults, owed>>

Truncate ==
    /\ pc = "truncate"
    /\ log' = <<>>
    /\ pc' = Steps[pc]
    /\ UNCHANGED <<data, stable, snap, snaps, ops, todo, calls, faults, owed>>

FsyncLog ==
    /\ pc = "fsynclog"
    /\ stable' = log
    /\ ops' = 0
    /\ pc' = Steps[pc]
    /\ UNCHANGED <<data, log, snap, snaps, todo, calls, faults, owed>>

-----------------------------------------------------------------------------
(* Failures the code reports and goes on from.                              *)

Fail(kind) == kind \in Faults /\ faults < MaxFaults /\ faults' = faults + 1

\* The disk took nothing or part of the line; what it took stays.
WriteFails ==
    /\ pc = "write" /\ Fail("append")
    /\ log' \in {log} \union IF "torn" \in Faults THEN {Append(log, Torn)} ELSE {}
    /\ pc' = "idle" /\ todo' = {}
    /\ UNCHANGED <<data, stable, snap, snaps, ops, calls, owed>>

\* The line is in the file, the op is not in memory.
FsyncFails ==
    /\ pc = "fsync" /\ Fail("fsync")
    /\ pc' = "idle" /\ todo' = {}
    /\ UNCHANGED <<data, diskVars, ops, calls, owed>>

\* The call returns an error although its op was logged and applied.
CompactFails ==
    /\ pc \in DOMAIN Steps /\ Fail("compact")
    /\ pc' = "idle" /\ todo' = {}
    /\ UNCHANGED <<data, diskVars, ops, calls, owed>>

-----------------------------------------------------------------------------
(* Crash and OpenFile.                                                      *)

\* How many lines the log and its fsynced state have in common.
Common(l, synced) ==
    Last({n \in 0..Len(l) : n <= Len(synced) /\ SubSeq(l, 1, n) = SubSeq(synced, 1, n)})

\* What a crash may leave of the log: the fsynced lines that are still in it
\* and some of those after them, the last one perhaps torn; or, when it was
\* cut and the cut was not fsynced, the lines from before.
ImagesOf(l, synced) ==
    {SubSeq(l, 1, n) : n \in Common(l, synced)..Len(l)}
      \union {Append(SubSeq(l, 1, n), Torn) : n \in Common(l, synced)..(Len(l) - 1)}
      \union {synced}

Images == ImagesOf(log, stable)

\* The process dies and the machine does not: the files are as they were.
Kill ==
    /\ pc # "down" /\ Fail("kill")
    /\ data' = Down /\ pc' = "down" /\ todo' = {}
    /\ UNCHANGED <<diskVars, ops, calls, owed>>

\* The machine dies.
Crash ==
    /\ Fail("crash")
    /\ \E l \in Images : log' = l /\ stable' = l
    /\ \E s \in snaps : snap' = s /\ snaps' = {s}
    /\ data' = Down /\ pc' = "down" /\ todo' = {}
    /\ UNCHANGED <<ops, calls, owed>>

\* loadSnapshot, replayLog with its truncation, a fresh count of ops.
OpenFile ==
    /\ pc = "down"
    /\ data' = Replayed(snap, log)
    /\ log' = SubSeq(log, 1, Cardinality(Intact(log)))
    /\ ops' = 0
    /\ pc' = "idle"
    /\ UNCHANGED <<stable, snap, snaps, todo, calls, faults, owed>>

Next ==
    \/ \E k \in Keys : Delete(k) \/ \E v \in Values : Put(k, v)
    \/ \E dead \in SUBSET Keys : Sweep(dead)
    \/ Compact \/ Close
    \/ WriteLine \/ FsyncLine \/ Apply
    \/ WriteTemp \/ Rename \/ SyncDir \/ Truncate \/ FsyncLog
    \/ WriteFails \/ FsyncFails \/ CompactFails
    \/ Kill \/ Crash \/ OpenFile

Spec == Init /\ [][Next]_vars
-----------------------------------------------------------------------------
TypeOK ==
    /\ data \in Maps \union {Down}
    /\ log \in Seq(Ops \union {Torn}) /\ stable \in Seq(Ops \union {Torn})
    /\ snap \in Maps /\ snaps \subseteq Maps
    /\ ops \in Nat /\ todo \subseteq Ops
    /\ pc \in {"idle", "down", "write", "fsync", "apply"} \union DOMAIN Steps
    /\ owed \in [Keys -> SUBSET Held]

(* Safety: whenever the machine dies, replay finds under every key the last *)
(* write that was acknowledged, or one that was under way or failed since   *)
(* (file.go:26-34, "A write that returned has landed").                     *)
RecoversOwed ==
    \A l \in Images, s \in snaps : \A k \in Keys : Replayed(s, l)[k] \in owed[k]

(* Safety: a key Delete found nothing under, and told its caller was gone,  *)
(* stays gone whatever crash follows (file.go:364-372).                     *)
DeletedStaysGone ==
    [][\A k \in Keys : Delete(k) /\ data[k] = None =>
         \A l \in Images, s \in snaps : Replayed(s, l)[k] = None]_vars

\* A write of k failed, or was cut off by a crash, and no later one landed.
InDoubt(k) == Cardinality(owed[k]) > 1

(* Safety: between calls the files replay to exactly what is in memory,     *)
(* wherever a compaction was interrupted or failed; only the key of a write *)
(* that failed may differ (file.go:31-34, 221-239).                         *)
ReplayIsMemory ==
    pc = "idle" => \A k \in Keys : InDoubt(k) \/ Replayed(snap, log)[k] = data[k]

-----------------------------------------------------------------------------
(* What they are proved from, in FileStoreProofs, when no append fails half *)
(* way.                                                                     *)

\* A call that logs has something to log; the store is open or it is down.
Working ==
    /\ pc \in {"write", "fsync", "apply"} => todo # {}
    /\ pc = "down" <=> data = Down

\* What an open store shows is owed, but for the op that is about to be applied.
MemoryOwed ==
    data # Down => \A k \in Keys : (pc = "apply" /\ k = Current[1]) \/ data[k] \in owed[k]

\* The op under way is the last line and owed, then the only thing owed.
LineLast ==
    /\ pc = "fsync" => log # <<>> /\ log[Len(log)] = Current /\ Current[2] \in owed[Current[1]]
    /\ pc = "apply" => owed[Current[1]] = {Current[2]}

\* The log is cut only when the snapshot is in place.
SnapshotFirst ==
    /\ snap \in snaps
    /\ pc \in {"syncdir", "truncate"} => snap = data
    /\ pc = "truncate" => snaps = {snap}

\* Only the last line is ever torn, and not in the log of an open store.
TornLast ==
    /\ \A i \in DOMAIN log : log[i] = Torn => i = Len(log) /\ pc = "down"
    /\ \A i \in DOMAIN stable : stable[i] = Torn => i = Len(stable)

IInv ==
    /\ TypeOK /\ Working /\ MemoryOwed /\ LineLast /\ SnapshotFirst /\ TornLast
    /\ \A k \in Keys : IsFiniteSet(owed[k])
    /\ RecoversOwed

-----------------------------------------------------------------------------
Abstract == INSTANCE DurableMap WITH mem <- data, may <- owed

(* Refinement: log, snapshot and replay together are a map that survives    *)
(* restarts.                                                                *)
ImplementsDurableMap == Abstract!MapSpec
=============================================================================
