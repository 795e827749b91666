--------------------------- MODULE MCEventDaemon ---------------------------
(* Instances of EventDaemon for TLC.                                       *)
EXTENDS EventDaemonRefinement, TLC

CONSTANTS cron, stdin, test

\* A scheduled source, one that reads standard input, and a caller of emit.
AllSources == {cron, stdin}
CronOnly   == {cron}
OneCaller  == {test}

\* The dispatch of the caller's first event may hang.
FirstTest  == {<<test, 1>>}

=============================================================================
