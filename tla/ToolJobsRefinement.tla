------------------------- MODULE ToolJobsRefinement -------------------------
(* ToolJobs keeps the promises of ToolCallContract: the futures say which  *)
(* jobs the pool took on, the records how they ended, the answers what the *)
(* callers were told.                                                      *)
EXTENDS ToolJobs

ReplyOf(a) ==
    CASE a.kind = "none"                  -> "none"
      [] a.kind = "ok"                    -> "succeeded"
      [] a.kind \in {"accepted", "switched"} -> "later"
      [] a.kind = "error" /\ a.detail \in {"failed", "cancelled"} -> a.detail
      [] OTHER                            -> "refused"

Contract == INSTANCE ToolCallContract WITH
    accepted <- {c \in Calls : fut[c] # "none"},
    asked    <- {c \in Calls : job[c].cancel},
    outcome  <- [c \in Calls |-> IF job[c].state \in Terminal
                                 THEN job[c].state ELSE "none"],
    reply    <- [c \in Calls |-> ReplyOf(answer[c])]

\* Every step of the threads is a step of the contract or invisible to it.
KeepsContract == Contract!Spec

=============================================================================
