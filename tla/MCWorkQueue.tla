---------------------------- MODULE MCWorkQueue ----------------------------
(***************************************************************************)
(* WorkQueue for TLC.                                                       *)
(***************************************************************************)
EXTENDS WorkQueue

CONSTANTS w1, w2, x

\* Two workers and a replayed dead letter until the process ends; one worker
\* with Stop and a cancelled context, and a webhook or somebody waiting; both
\* of these with nothing that ends the work.
RunAndStop ==
    {[pool |-> {w1, w2}, waiters |-> {}, events |-> {"replay", "exit"}],
     [pool |-> {w1}, waiters |-> {}, events |-> {"hook", "stop", "cancel"}],
     [pool |-> {w1}, waiters |-> {x}, events |-> {"stop", "cancel"}],
     [pool |-> {w1}, waiters |-> {x}, events |-> {"hook"}]}

DryRun == {[pool |-> {}, waiters |-> {}, events |-> {}]}

OneWorker == {[pool |-> {w1}, waiters |-> Waiters, events |-> {}]}

StopOnly == {[pool |-> {w1}, waiters |-> {x}, events |-> {"stop"}]}
=============================================================================
