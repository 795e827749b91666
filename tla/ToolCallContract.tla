-------------------------- MODULE ToolCallContract --------------------------
(***************************************************************************)
(* What invoking a tool promises, without threads, pool or record: a call  *)
(* is answered once; a job settles at most once, as cancelled only if      *)
(* somebody asked; an answer that names an outcome names the job's.        *)
(*                                                                         *)
(* The one weakness the code leaves in the promise is Withdraw: a success  *)
(* can be taken back.                                                      *)
(***************************************************************************)
CONSTANTS Calls, Mode

VARIABLES accepted,  \* the jobs the pool has taken on
          asked,     \* the jobs somebody asked to cancel
          outcome,   \* how each job ended, "none" before that
          reply      \* what each caller was told, "none" before that

vars == <<accepted, asked, outcome, reply>>

Failures == {"failed", "cancelled"}

Init ==
    /\ accepted = {}
    /\ asked    = {}
    /\ outcome  = [c \in Calls |-> "none"]
    /\ reply    = [c \in Calls |-> "none"]

\* A call that is refused leaves no job in the pool.
Accept(c) ==
    /\ reply[c] = "none"
    /\ Mode[c] # "sync"
    /\ accepted' = accepted \cup {c}
    /\ UNCHANGED <<asked, outcome, reply>>

Ask(c) ==
    /\ asked' = asked \cup {c}
    /\ UNCHANGED <<accepted, outcome, reply>>

Settle(c, o) ==
    /\ c \in accepted
    /\ outcome[c] = "none"
    /\ o = "cancelled" => c \in asked
    /\ outcome' = [outcome EXCEPT ![c] = o]
    /\ UNCHANGED <<accepted, asked, reply>>

Withdraw(c, o) ==
    /\ outcome[c] = "succeeded"
    /\ o = "cancelled" => c \in asked
    /\ outcome' = [outcome EXCEPT ![c] = o]
    /\ UNCHANGED <<accepted, asked, reply>>

\* "later": the job goes on in the background; "refused": the caller got an
\* error or an exception that is not an outcome of the job.
Reply(c, r) ==
    /\ reply[c] = "none"
    /\ \/ r = "refused"
       \/ r = "later" /\ c \in accepted
       \/ r = "succeeded" /\ Mode[c] = "sync"
       \/ r = outcome[c] /\ r # "none"
    /\ reply' = [reply EXCEPT ![c] = r]
    /\ UNCHANGED <<accepted, asked, outcome>>

Next ==
    \E c \in Calls :
        \/ Accept(c)
        \/ Ask(c)
        \/ Settle(c, "succeeded")
        \/ \E o \in Failures : Settle(c, o) \/ Withdraw(c, o)
        \/ \E r \in {"refused", "later", "succeeded"} \cup Failures : Reply(c, r)

Spec == Init /\ [][Next]_vars

=============================================================================
