---------------------------- MODULE MCMemoryStore ----------------------------
(* Instances of MemoryStore for TLC.                                       *)
EXTENDS MemoryStore, TLC

CONSTANTS serve, run

\* agent-hive serve and agent-hive run, on the same file.
TwoProcesses == {serve, run}

\* What agents do to long-term memories; the checkpoints of their runs; and
\* what is kept for a project.
MemoryWork  == {"memory_write", "memory_reflect", "memory_weight_update", "memory_get",
                "memory_search", "memory_evict"}
SessionWork == {"session_start", "session_finish", "session_get", "record_agent_run",
                "process_log"}
ProjectWork == {"sync_project_context", "project_context_upsert", "project_context_get",
                "profile_write", "doc_ingest", "doc_search"}
AllWork     == {MemoryWork, SessionWork, ProjectWork}

TwoAndOne == [s \in TwoProcesses |-> IF s = serve THEN 2 ELSE 1]
ThreeEach == [s \in TwoProcesses |-> 3]
WriteWork   == {{"memory_write", "memory_search"}}

=============================================================================
