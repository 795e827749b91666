--------------------------- MODULE EventDelivery ---------------------------
(***************************************************************************)
(* What a daemon promises of the events that are handed to it, without     *)
(* tasks, queue or cancellation: each is served once or dropped, one at a  *)
(* time and those of a producer in their order, and none is served or      *)
(* dropped at a time at which it must not be.                              *)
(***************************************************************************)
EXTENDS Naturals

CONSTANTS Producers

VARIABLES received,   \* how many events each producer has handed over
          waiting,    \* the events that are still to be served
          serving,    \* the event that is being served, if any
          dropped,    \* the events that will not be, or not to their end
          dispatched, failed, \* how many were served with and without success
          ending      \* the daemon has been stopped, and not begun again

vars == <<received, waiting, serving, dropped, dispatched, failed, ending>>

Init ==
    /\ received = [p \in Producers |-> 0]
    /\ waiting = {} /\ serving = {} /\ dropped = {}
    /\ dispatched = 0 /\ failed = 0
    /\ ending = FALSE

\* Events are accepted at any time, and kept for the next run if there is none.
Receive(p) ==
    /\ received' = [received EXCEPT ![p] = @ + 1]
    /\ waiting' = waiting \cup {<<p, received[p] + 1>>}
    /\ UNCHANGED <<serving, dropped, dispatched, failed, ending>>

Take(e) ==
    /\ ~ending
    /\ serving = {}
    /\ e \in waiting
    /\ \A n \in 1..(e[2] - 1) : <<e[1], n>> \notin waiting
    /\ serving' = {e}
    /\ waiting' = waiting \ {e}
    /\ UNCHANGED <<received, dropped, dispatched, failed, ending>>

Finish(ok) ==
    /\ ~ending
    /\ serving # {}
    /\ serving' = {}
    /\ dispatched' = IF ok THEN dispatched + 1 ELSE dispatched
    /\ failed' = IF ok THEN failed ELSE failed + 1
    /\ UNCHANGED <<received, waiting, dropped, ending>>

\* Only a stop costs an event, and one that is served is then not counted.
Drop(e) ==
    /\ ending
    /\ e \in waiting \cup serving
    /\ waiting' = waiting \ {e}
    /\ serving' = serving \ {e}
    /\ dropped' = dropped \cup {e}
    /\ UNCHANGED <<received, dispatched, failed, ending>>

End ==
    /\ ending' = TRUE
    /\ UNCHANGED <<received, waiting, serving, dropped, dispatched, failed>>

\* A run begins when nothing of the last one is left.
Begin ==
    /\ serving = {}
    /\ ending' = FALSE
    /\ UNCHANGED <<received, waiting, serving, dropped, dispatched, failed>>

Next ==
    \/ \E p \in Producers : Receive(p)
    \/ \E e \in waiting \cup serving : Take(e) \/ Drop(e)
    \/ \E ok \in BOOLEAN : Finish(ok)
    \/ End \/ Begin

Spec == Init /\ [][Next]_vars

=============================================================================
