-------------------------- MODULE MCIdentityIndex --------------------------
(***************************************************************************)
(* IdentityIndex for TLC: two records, two keys.                            *)
(***************************************************************************)
EXTENDS IdentityIndex

CONSTANTS poll, work, r1, r2, k1, k2

SharedBody == [r \in Recs |-> IF r = r1 THEN {{k1}, {k1, k2}} ELSE {{k1}, {k2}}]

OwnBody == [r \in Recs |-> IF r = r1 THEN {{k1}} ELSE {{k2}}]

\* One goroutine and records that take keys over from one another; a poll and
\* a worker, each record with a key of its own.
AloneOrApart ==
    {[callers |-> {work}, bodies |-> SharedBody, stale |-> FALSE],
     [callers |-> {poll, work}, bodies |-> OwnBody, stale |-> FALSE]}

Alone == {[callers |-> {work}, bodies |-> SharedBody, stale |-> FALSE]}

Shared == {[callers |-> {poll, work}, bodies |-> SharedBody, stale |-> FALSE]}
=============================================================================
