----------------------- MODULE EventDaemonRefinement -----------------------
(* EventDaemon keeps the promises of EventDelivery.  An event waits in a   *)
(* suspended put or in the queue; the daemon is ending from the first      *)
(* cancellation of a task up to the next run.                              *)
EXTENDS EventDaemon

Delivery == INSTANCE EventDelivery WITH
    received   <- sent,
    waiting    <- Emitted \ (Range(taken) \cup lost),
    serving    <- Range(current),
    dropped    <- lost,
    dispatched <- stats.dispatched,
    failed     <- stats.failed,
    ending     <- cancelled # {}

\* Every step of the daemon's tasks, of its callers and of those that stop it is a
\* step of the delivery or invisible to it: daemon.py's put, get, task_done and
\* cancel, interleaved in any order, serve each event once, in its producer's order,
\* or drop it because of a stop.
KeepsDelivery == Delivery!Spec

=============================================================================
