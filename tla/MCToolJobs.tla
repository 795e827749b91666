----------------------------- MODULE MCToolJobs -----------------------------
(* Instances of ToolJobs for TLC.                                          *)
EXTENDS ToolJobsRefinement, TLC

CONSTANTS c1, c2

AllCalls == {c1, c2}

\* A foreground call and a background call that compete for the pool.
TwoJobs == (c1 :> "switchable") @@ (c2 :> "async")

\* A foreground call next to one that runs in its own thread.
SyncToo == (c1 :> "switchable") @@ (c2 :> "sync")

\* Two background calls.
TwoBackground == (c1 :> "async") @@ (c2 :> "async")

=============================================================================
