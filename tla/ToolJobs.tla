------------------------------ MODULE ToolJobs ------------------------------
(***************************************************************************)
(* tool_integration: ToolRuntime.invoke and the jobs it runs on its thread *)
(* pool, JobRuntime's operations on a JobRecord, and the events both put   *)
(* on the tool EventBus.                                                   *)
(*                                                                         *)
(* Nothing in this code takes a lock: every field of a JobRecord is        *)
(* written by the invoking thread, by the pool's worker and by whoever     *)
(* cancels or switches the job.  A step is one access to a shared field    *)
(* (or one call of a thread-safe library object: Future.cancel,            *)
(* Executor.submit), so the threads interleave between any two of them.    *)
(*                                                                         *)
(* Names: one call of invoke makes at most one job, so a call also names   *)
(* its job.  Left out: timestamps, progress and latest_output, the text of *)
(* errors, and JobRecord.events (a write-only log).                        *)
(***************************************************************************)
EXTENDS Naturals, Sequences, FiniteSets

CONSTANTS Calls,          \* the calls of invoke
          Mode,           \* the ToolSpec.mode of the tool each call names
          PoolSize,       \* max_workers of the ThreadPoolExecutor
          MaxCancels,     \* bound: calls of JobRuntime.cancel on one job
          MaxCheckpoints  \* bound: checkpoints one tool function reports

Modes == {"sync", "async", "switchable"}

ASSUME ConstantsAssumption ==
    /\ Mode \in [Calls -> Modes]
    /\ PoolSize \in Nat \ {0}
    /\ MaxCancels \in Nat
    /\ MaxCheckpoints \in Nat

VARIABLES
    pc,       \* where the thread inside invoke stands, per call
    answer,   \* what invoke handed to its caller
    job,      \* the JobRecord
    fut,      \* the Future the pool keeps for the job
    queue,    \* the pool's work queue
    wpc,      \* where the worker inside _run_job stands
    cpc,      \* where the thread inside JobRuntime.cancel stands
    cancels,  \* how often cancel was called
    log,      \* the events published about a call, in order
    adding,   \* a thread inside EventBus.subscribe: "no", "inserting", "done"
    down      \* ToolRuntime.shutdown was called

callerVars == <<pc, answer>>
poolVars   == <<fut, queue, wpc>>
cancelVars == <<cpc, cancels>>
busVars    == <<log, adding>>
vars       == <<callerVars, job, poolVars, cancelVars, busVars, down>>

-----------------------------------------------------------------------------
\* Nothing sets "timeout", which jobs.py:10 allows too.
JobStates == {"none", "created", "running", "succeeded", "failed", "cancelled"}
Terminal  == {"succeeded", "failed", "cancelled"}

\* state "none": the call has no job (yet).  result and error say whether the
\* field has been written; future, whether job.future has been assigned.
JobRecord == [state  : JobStates,
              view   : {"foreground", "background"},
              result : BOOLEAN,
              error  : BOOLEAN,
              cancel : BOOLEAN,
              future : BOOLEAN]

NewJob(view) == [state |-> "created", view |-> view, result |-> FALSE,
                 error |-> FALSE, cancel |-> FALSE, future |-> FALSE]
NoJob        == [NewJob("background") EXCEPT !.state = "none"]

EventTypes == {"call_started", "call_finished", "call_failed", "job_started",
               "wait_started", "switched", "checkpoint",
               "job_finished", "job_failed", "job_cancelled"}
Outcomes   == {"job_finished", "job_failed", "job_cancelled"}

CallerSteps == {"idle", "validating", "executing", "starting", "submitting",
                "assigning", "announcing", "polling", "answering",
                "leaving", "switching", "reporting", "returned"}
WorkerSteps == {"idle", "starting", "checking", "executing", "storing",
                "announcing", "failing", "recording", "reporting", "done"}

NoAnswer == [kind |-> "none", detail |-> "none"]
Answers  == [kind   : {"none", "ok", "error", "accepted", "switched", "raised"},
             detail : JobStates \cup {"result", "missing", "bus", "shutdown",
                          "not_found", "schema_error", "runtime_error"}]

Published(c) == {log[c][i] : i \in DOMAIN log[c]}
Busy         == {c \in Calls : fut[c] = "running"}

Init ==
    /\ pc      = [c \in Calls |-> "idle"]
    /\ answer  = [c \in Calls |-> NoAnswer]
    /\ job     = [c \in Calls |-> NoJob]
    /\ fut     = [c \in Calls |-> "none"]
    /\ queue   = <<>>
    /\ wpc     = [c \in Calls |-> "idle"]
    /\ cpc     = [c \in Calls |-> "idle"]
    /\ cancels = [c \in Calls |-> 0]
    /\ log     = [c \in Calls |-> <<>>]
    /\ adding  = "no"
    /\ down    = FALSE

-----------------------------------------------------------------------------
(* EventBus.publish records the event and then walks the dictionary of     *)
(* subscribers; when another thread inserts a subscriber meanwhile, the    *)
(* walk raises RuntimeError with the event already recorded.               *)
Publish(c, e) == log' = [log EXCEPT ![c] = Append(@, e)]
BusRaises     == adding = "inserting"

Subscribe ==
    /\ \/ adding = "no" /\ adding' = "inserting"
       \/ adding = "inserting" /\ adding' = "done"
    /\ UNCHANGED <<callerVars, job, poolVars, cancelVars, log, down>>

-----------------------------------------------------------------------------
(* The thread inside invoke.                                               *)
Goto(c, step) == pc' = [pc EXCEPT ![c] = step] /\ UNCHANGED answer

Return(c, kind, detail) ==
    /\ pc' = [pc EXCEPT ![c] = "returned"]
    /\ answer' = [answer EXCEPT ![c] = [kind |-> kind, detail |-> detail]]

\* Publish and go on; an exception of publish leaves invoke.
PublishThen(c, e, step) ==
    /\ Publish(c, e)
    /\ \/ Goto(c, step)
       \/ BusRaises /\ Return(c, "raised", "bus")

\* _error: announce the failure and hand it to the caller.
Fail(c, type) ==
    /\ Publish(c, "call_failed")
    /\ \/ Return(c, "error", type)
       \/ BusRaises /\ Return(c, "raised", "bus")

OnlyCaller == UNCHANGED <<job, poolVars, cancelVars, adding, down>>

Invoke(c) ==
    /\ pc[c] = "idle"
    /\ \/ Fail(c, "not_found")
       \/ PublishThen(c, "call_started", "validating")
    /\ OnlyCaller

Validate(c) ==
    /\ pc[c] = "validating"
    /\ \/ Fail(c, "schema_error") /\ UNCHANGED job
       \/ /\ Mode[c] = "sync"
          /\ Goto(c, "executing")
          /\ UNCHANGED <<job, log>>
       \/ /\ Mode[c] # "sync"
          /\ job' = [job EXCEPT ![c] = NewJob(IF Mode[c] = "async"
                                              THEN "background" ELSE "foreground")]
          /\ Goto(c, "starting")
          /\ UNCHANGED log
    /\ UNCHANGED <<poolVars, cancelVars, adding, down>>

\* _invoke_sync: the tool runs in the calling thread.  An exception of the
\* last publish is caught like one of the tool.
SyncReturns(c) ==
    /\ pc[c] = "executing"
    /\ Publish(c, "call_finished")
    /\ \/ Return(c, "ok", "result")
       \/ BusRaises /\ Goto(c, "reporting")
    /\ OnlyCaller

SyncFails(c) ==
    /\ pc[c] \in {"executing", "reporting"}
    /\ Fail(c, "runtime_error")
    /\ OnlyCaller

AnnounceJob(c) ==
    /\ pc[c] = "starting"
    /\ PublishThen(c, "job_started", "submitting")
    /\ OnlyCaller

\* Executor.submit refuses work after shutdown; the job stays "created".
Submit(c) ==
    /\ pc[c] = "submitting"
    /\ \/ /\ down
          /\ Return(c, "raised", "shutdown")
          /\ UNCHANGED <<fut, queue>>
       \/ /\ ~down
          /\ fut' = [fut EXCEPT ![c] = "pending"]
          /\ queue' = Append(queue, c)
          /\ Goto(c, "assigning")
    /\ UNCHANGED <<job, wpc, cancelVars, busVars, down>>

AssignFuture(c) ==
    /\ pc[c] = "assigning"
    /\ job' = [job EXCEPT ![c].future = TRUE]
    /\ \/ Mode[c] = "async" /\ Return(c, "accepted", "running")
       \/ Mode[c] = "switchable" /\ Goto(c, "announcing")
    /\ UNCHANGED <<poolVars, cancelVars, busVars, down>>

AnnounceWait(c) ==
    /\ pc[c] = "announcing"
    /\ PublishThen(c, "wait_started", "polling")
    /\ OnlyCaller

\* A round of the foreground loop that leaves it.  State and view are read in
\* one step: a switch between the two reads acts as one just before them.
Poll(c) ==
    /\ pc[c] = "polling"
    /\ \/ job[c].state \in Terminal /\ Goto(c, "answering")
       \/ /\ job[c].state \notin Terminal
          /\ job[c].view = "background"
          /\ Goto(c, "switching")
    /\ UNCHANGED log
    /\ OnlyCaller

\* MUTANT: whatever did not fail is taken for a success.
AnswerForegroundUnlessFailed(c) ==
    /\ pc[c] = "answering"
    /\ \/ /\ job[c].state # "failed"
          /\ Return(c, "ok", IF job[c].result THEN "result" ELSE "missing")
          /\ UNCHANGED log
       \/ job[c].state = "failed" /\ Fail(c, "failed")
    /\ OnlyCaller

\* MUTANT: the answer goes by cancel_requested, not by the state.
AnswerForegroundByRequest(c) ==
    /\ pc[c] = "answering"
    /\ \/ /\ job[c].state = "succeeded"
          /\ ~job[c].cancel
          /\ Return(c, "ok", IF job[c].result THEN "result" ELSE "missing")
          /\ UNCHANGED log
       \/ job[c].cancel /\ Fail(c, "cancelled")
       \/ job[c].state # "succeeded" /\ ~job[c].cancel /\ Fail(c, job[c].state)
    /\ OnlyCaller

\* The record is read again after Poll has seen it finished.
AnswerForeground(c) ==
    /\ pc[c] = "answering"
    /\ \/ /\ job[c].state = "succeeded"
          /\ Return(c, "ok", IF job[c].result THEN "result" ELSE "missing")
          /\ UNCHANGED log
       \/ job[c].state # "succeeded" /\ Fail(c, job[c].state)
    /\ OnlyCaller

\* MUTANT: a foreground timeout is taken for a timeout of the job.
ForegroundTimeoutEndsJob(c) ==
    /\ pc[c] = "polling"
    /\ job' = [job EXCEPT ![c].view = "background", ![c].state = "timeout"]
    /\ Goto(c, "leaving")
    /\ UNCHANGED <<poolVars, cancelVars, busVars, down>>

\* MUTANT: the deadline is only looked at once the job runs.
ForegroundTimeoutOfRunning(c) ==
    /\ pc[c] = "polling"
    /\ job[c].state = "running"
    /\ job' = [job EXCEPT ![c].view = "background"]
    /\ Goto(c, "leaving")
    /\ UNCHANGED <<poolVars, cancelVars, busVars, down>>

\* The deadline may pass before any round of the loop.
ForegroundTimeout(c) ==
    /\ pc[c] = "polling"
    /\ job' = [job EXCEPT ![c].view = "background"]
    /\ Goto(c, "leaving")
    /\ UNCHANGED <<poolVars, cancelVars, busVars, down>>

AnnounceSwitch(c) ==
    /\ pc[c] = "leaving"
    /\ PublishThen(c, "switched", "switching")
    /\ OnlyCaller

AnswerSwitched(c) ==
    /\ pc[c] = "switching"
    /\ Return(c, "switched", job[c].state)
    /\ UNCHANGED log
    /\ OnlyCaller

-----------------------------------------------------------------------------
(* The pool's worker: a free thread takes the oldest work item and skips   *)
(* the cancelled ones; _run_job never lets an exception out.               *)
TakeWork ==
    /\ queue # <<>>
    /\ Cardinality(Busy) < PoolSize
    /\ queue' = Tail(queue)
    /\ LET c == Head(queue) IN
         \/ /\ fut[c] = "pending"
            /\ fut' = [fut EXCEPT ![c] = "running"]
            /\ wpc' = [wpc EXCEPT ![c] = "starting"]
         \/ /\ fut[c] = "cancelled"
            /\ UNCHANGED <<fut, wpc>>
    /\ UNCHANGED <<callerVars, job, cancelVars, busVars, down>>

WorkerGoto(c, step) == wpc' = [wpc EXCEPT ![c] = step]
OnlyWorker == UNCHANGED <<callerVars, queue, cancelVars, adding, down>>

SetRunning(c) ==
    /\ wpc[c] = "starting"
    /\ job' = [job EXCEPT ![c].state = "running"]
    /\ WorkerGoto(c, "checking")
    /\ UNCHANGED <<fut, log>>
    /\ OnlyWorker

CheckCancel(c) ==
    /\ wpc[c] = "checking"
    /\ WorkerGoto(c, IF job[c].cancel THEN "failing" ELSE "executing")
    /\ UNCHANGED <<job, fut, log>>
    /\ OnlyWorker

\* ToolContext.checkpoint, from the worker or, in sync mode, from the caller.
Checkpoint(c) ==
    /\ Cardinality({i \in DOMAIN log[c] : log[c][i] = "checkpoint"}) < MaxCheckpoints
    /\ Publish(c, "checkpoint")
    /\ \/ /\ pc[c] = "executing"
          /\ \/ UNCHANGED pc
             \/ BusRaises /\ pc' = [pc EXCEPT ![c] = "reporting"]
          /\ UNCHANGED wpc
       \/ /\ wpc[c] = "executing"
          /\ \/ UNCHANGED wpc
             \/ BusRaises /\ WorkerGoto(c, "failing")
          /\ UNCHANGED pc
    /\ UNCHANGED <<answer, job, fut, queue, cancelVars, adding, down>>

\* The tool raises, returns what its output schema refuses, or gives up in
\* raise_if_cancelled.
ToolFails(c) ==
    /\ wpc[c] = "executing"
    /\ WorkerGoto(c, "failing")
    /\ UNCHANGED <<job, fut, log>>
    /\ OnlyWorker

\* set_succeeded writes the state first and the result after it.
SetSucceeded(c) ==
    /\ wpc[c] = "executing"
    /\ job' = [job EXCEPT ![c].state = "succeeded"]
    /\ WorkerGoto(c, "storing")
    /\ UNCHANGED <<fut, log>>
    /\ OnlyWorker

StoreResult(c) ==
    /\ wpc[c] = "storing"
    /\ job' = [job EXCEPT ![c].result = TRUE]
    /\ WorkerGoto(c, "announcing")
    /\ UNCHANGED <<fut, log>>
    /\ OnlyWorker

\* Still inside the try: an exception of publish makes the job fail.
AnnounceFinished(c) ==
    /\ wpc[c] = "announcing"
    /\ Publish(c, "job_finished")
    /\ \/ WorkerGoto(c, "done") /\ fut' = [fut EXCEPT ![c] = "finished"]
       \/ BusRaises /\ WorkerGoto(c, "failing") /\ UNCHANGED fut
    /\ UNCHANGED job
    /\ OnlyWorker

\* set_failed reads cancel_requested and writes the state, then the error.
SetFailed(c) ==
    /\ wpc[c] = "failing"
    /\ job' = [job EXCEPT ![c].state = IF job[c].cancel THEN "cancelled" ELSE "failed"]
    /\ WorkerGoto(c, "recording")
    /\ UNCHANGED <<fut, log>>
    /\ OnlyWorker

StoreError(c) ==
    /\ wpc[c] = "recording"
    /\ job' = [job EXCEPT ![c].error = TRUE]
    /\ WorkerGoto(c, "reporting")
    /\ UNCHANGED <<fut, log>>
    /\ OnlyWorker

\* MUTANT: every exception is announced as a failure.
ReportFailureIgnoringCancel(c) ==
    /\ wpc[c] = "reporting"
    /\ Publish(c, "job_failed")
    /\ WorkerGoto(c, "done")
    /\ fut' = [fut EXCEPT ![c] = "finished"]
    /\ UNCHANGED job
    /\ OnlyWorker

\* MUTANT: a failure that could not be announced is handled once more.
ReportFailureAgain(c) ==
    /\ wpc[c] = "reporting"
    /\ Publish(c, IF job[c].cancel THEN "job_cancelled" ELSE "job_failed")
    /\ \/ WorkerGoto(c, "done") /\ fut' = [fut EXCEPT ![c] = "finished"]
       \/ BusRaises /\ WorkerGoto(c, "failing") /\ UNCHANGED fut
    /\ UNCHANGED job
    /\ OnlyWorker

\* MUTANT: an exception in the handler takes the worker's thread with it.
ReportFailureLosesWorker(c) ==
    /\ wpc[c] = "reporting"
    /\ Publish(c, IF job[c].cancel THEN "job_cancelled" ELSE "job_failed")
    /\ WorkerGoto(c, "done")
    /\ fut' = [fut EXCEPT ![c] = IF BusRaises THEN @ ELSE "finished"]
    /\ UNCHANGED job
    /\ OnlyWorker

\* cancel_requested is read a second time to choose the event.  An exception
\* of this publish ends in the Future, where nobody looks.
ReportFailure(c) ==
    /\ wpc[c] = "reporting"
    /\ Publish(c, IF job[c].cancel THEN "job_cancelled" ELSE "job_failed")
    /\ WorkerGoto(c, "done")
    /\ fut' = [fut EXCEPT ![c] = "finished"]
    /\ UNCHANGED job
    /\ OnlyWorker

-----------------------------------------------------------------------------
\* MUTANT: cancel marks the job at once, whatever the pool does with it.
RequestCancelMarks(c) ==
    /\ job[c].state # "none"
    /\ cpc[c] = "idle"
    /\ cancels[c] < MaxCancels
    /\ cancels' = [cancels EXCEPT ![c] = @ + 1]
    /\ job' = [job EXCEPT ![c].cancel = TRUE,
                          ![c].state = IF @ \in Terminal THEN @ ELSE "cancelled"]
    /\ cpc' = [cpc EXCEPT ![c] = "checking"]
    /\ UNCHANGED <<callerVars, poolVars, busVars, down>>

(* JobRuntime.cancel and switch_to_background, from any other thread once  *)
(* the job is listed.  Cancels of one job run one after the other: two     *)
(* overlapping ones only repeat each other's writes.                       *)
RequestCancel(c) ==
    /\ job[c].state # "none"
    /\ cpc[c] = "idle"
    /\ cancels[c] < MaxCancels
    /\ cancels' = [cancels EXCEPT ![c] = @ + 1]
    /\ job' = [job EXCEPT ![c].cancel = TRUE]
    /\ cpc' = [cpc EXCEPT ![c] = "checking"]
    /\ UNCHANGED <<callerVars, poolVars, busVars, down>>

\* MUTANT: the answer of Future.cancel is not looked at.
TryCancelIgnoringAnswer(c) ==
    /\ cpc[c] = "checking"
    /\ IF job[c].state \in {"created", "running"} /\ job[c].future
       THEN /\ fut' = [fut EXCEPT ![c] = IF @ = "pending" THEN "cancelled" ELSE @]
            /\ cpc' = [cpc EXCEPT ![c] = "marking"]
       ELSE /\ cpc' = [cpc EXCEPT ![c] = "idle"]
            /\ UNCHANGED fut
    /\ UNCHANGED <<callerVars, job, queue, wpc, cancels, busVars, down>>

\* MUTANT: the state is left to a worker that will never see the job.
TryCancelWithoutMark(c) ==
    /\ cpc[c] = "checking"
    /\ cpc' = [cpc EXCEPT ![c] = "idle"]
    /\ fut' = [fut EXCEPT ![c] = IF job[c].future /\ @ = "pending" THEN "cancelled" ELSE @]
    /\ UNCHANGED <<callerVars, job, queue, wpc, cancels, busVars, down>>

\* Future.cancel is atomic and refuses a future that runs or has finished.
TryCancelFuture(c) ==
    /\ cpc[c] = "checking"
    /\ IF /\ job[c].state \in {"created", "running"}
          /\ job[c].future
          /\ fut[c] \in {"pending", "cancelled"}
       THEN /\ fut' = [fut EXCEPT ![c] = "cancelled"]
            /\ cpc' = [cpc EXCEPT ![c] = "marking"]
       ELSE /\ cpc' = [cpc EXCEPT ![c] = "idle"]
            /\ UNCHANGED fut
    /\ UNCHANGED <<callerVars, job, queue, wpc, cancels, busVars, down>>

MarkCancelled(c) ==
    /\ cpc[c] = "marking"
    /\ job' = [job EXCEPT ![c].state = "cancelled"]
    /\ cpc' = [cpc EXCEPT ![c] = "idle"]
    /\ UNCHANGED <<callerVars, poolVars, cancels, busVars, down>>

SwitchToBackground(c) ==
    /\ job[c].state # "none"
    /\ job[c].view = "foreground"
    /\ job' = [job EXCEPT ![c].view = "background"]
    /\ UNCHANGED <<callerVars, poolVars, cancelVars, busVars, down>>

\* shutdown(wait=False, cancel_futures=True): queued futures are cancelled,
\* their jobs are told nothing.
Shutdown ==
    /\ ~down
    /\ down' = TRUE
    /\ queue' = <<>>
    /\ fut' = [c \in Calls |-> IF fut[c] = "pending" THEN "cancelled" ELSE fut[c]]
    /\ UNCHANGED <<callerVars, job, wpc, cancelVars, busVars>>

-----------------------------------------------------------------------------
CallerStep(c) ==
    \/ Validate(c)    \/ SyncReturns(c)      \/ SyncFails(c)
    \/ AnnounceJob(c) \/ Submit(c)           \/ AssignFuture(c)
    \/ AnnounceWait(c) \/ Poll(c)            \/ AnswerForeground(c)
    \/ ForegroundTimeout(c) \/ AnnounceSwitch(c) \/ AnswerSwitched(c)

WorkerStep(c) ==
    \/ SetRunning(c)   \/ CheckCancel(c) \/ ToolFails(c)
    \/ SetSucceeded(c) \/ StoreResult(c) \/ AnnounceFinished(c)
    \/ SetFailed(c)    \/ StoreError(c)  \/ ReportFailure(c)

CancelStep(c) == TryCancelFuture(c) \/ MarkCancelled(c)

Next ==
    \/ \E c \in Calls : \/ Invoke(c) \/ CallerStep(c) \/ WorkerStep(c)
                        \/ Checkpoint(c) \/ RequestCancel(c) \/ CancelStep(c)
                        \/ SwitchToBackground(c)
    \/ TakeWork
    \/ Subscribe
    \/ Shutdown

Spec == Init /\ [][Next]_vars

-----------------------------------------------------------------------------
(* Fairness.  Threads of a running process are scheduled, and the deadline *)
(* of the foreground loop passes, so a step of invoke that stays possible  *)
(* is taken (WaitingCallers: the calls whose steps do not wait for a tool).*)
(* That workers step, in FairSpec, also assumes that tool functions        *)
(* return.  Nobody has to cancel, switch, subscribe or shut down.          *)
WaitingCallers == {c \in Calls : Mode[c] # "sync"}
FairCallers    == \A c \in WaitingCallers : WF_vars(CallerStep(c))
FairWorkers    == /\ WF_vars(TakeWork)
                  /\ \A c \in Calls : WF_vars(WorkerStep(c)) /\ WF_vars(CancelStep(c))

CallerSpec == Spec /\ FairCallers
FairSpec   == Spec /\ FairCallers /\ FairWorkers

-----------------------------------------------------------------------------
TypeOK ==
    /\ pc \in [Calls -> CallerSteps]
    /\ answer \in [Calls -> Answers]
    /\ job \in [Calls -> JobRecord]
    /\ fut \in [Calls -> {"none", "pending", "running", "cancelled", "finished"}]
    /\ queue \in Seq(Calls)
    /\ wpc \in [Calls -> WorkerSteps]
    /\ cpc \in [Calls -> {"idle", "checking", "marking"}]
    /\ cancels \in [Calls -> 0..MaxCancels]
    /\ log \in [Calls -> Seq(EventTypes)]
    /\ adding \in {"no", "inserting", "done"}
    /\ down \in BOOLEAN

\* How the future, the worker, the cancelling thread and the record of one job
\* stand to each other: the worker owns the record while the future runs, the
\* cancelling thread when the future is cancelled, the caller before submit.
\* This is what makes the properties below inductive.
Agree(c) ==
    /\ fut[c] = "none"      => wpc[c] = "idle" /\ job[c].state \in {"none", "created"}
    /\ fut[c] = "pending"   => wpc[c] = "idle" /\ job[c].state = "created"
    /\ fut[c] = "cancelled" => wpc[c] = "idle" /\ job[c].state \in {"created", "cancelled"}
    /\ fut[c] = "running"   => wpc[c] \notin {"idle", "done"}
    /\ fut[c] = "finished"  => wpc[c] = "done"
    /\ wpc[c] = "starting"  => job[c].state = "created"
    /\ wpc[c] \in {"checking", "executing"} => job[c].state = "running"
    /\ wpc[c] \in {"storing", "announcing"} => job[c].state = "succeeded"
    /\ wpc[c] = "failing"   => \/ job[c].state = "running"
                               \/ job[c].state = "succeeded" /\ adding # "no"
    /\ wpc[c] \in {"recording", "reporting"} => job[c].state \in {"failed", "cancelled"}
    /\ wpc[c] = "done"      => job[c].state \in Terminal
    /\ cpc[c] = "marking"   => fut[c] = "cancelled"
    /\ cpc[c] # "idle"      => job[c].cancel
    /\ job[c].state = "cancelled" => job[c].cancel
    /\ job[c].state = "none" => cpc[c] = "idle" /\ ~job[c].cancel
    /\ pc[c] \in {"idle", "validating", "executing", "reporting",
                  "starting", "submitting"} => fut[c] = "none"
    /\ pc[c] \in {"starting", "submitting"} => job[c].state = "created"
    /\ pc[c] \in {"idle", "validating"} => job[c].state = "none"
    /\ pc[c] \in {"assigning", "announcing", "polling", "answering", "leaving",
                  "switching"} => fut[c] # "none"
    /\ pc[c] \in {"executing", "reporting"} => Mode[c] = "sync"
    /\ pc[c] \in {"starting", "submitting"} => Mode[c] # "sync"

Agreement == \A c \in Calls : Agree(c)

\* A call is answered when it returns, not before.
Unanswered == \A c \in Calls : pc[c] # "returned" => answer[c] = NoAnswer

\* A job marked cancelled is not executing and never will be: cancel() writes
\* the state only when the Future accepted the cancellation, and otherwise
\* leaves it to the worker, which writes it after the tool has stopped.
CancelledNeverExecutes ==
    \A c \in Calls : job[c].state = "cancelled" =>
        /\ job[c].cancel
        /\ wpc[c] \in {"idle", "recording", "reporting", "done"}
        /\ wpc[c] = "idle" => fut[c] = "cancelled"

\* A job that stands at "created" is on its way into the pool, in its queue,
\* with a worker or about to be marked; it is only ever forgotten there by
\* shutdown, or by an event that could not be published before submit.
CreatedIsUnderway ==
    \A c \in Calls : job[c].state = "created" =>
        \/ pc[c] \in {"starting", "submitting"}
        \/ fut[c] = "pending" /\ \E i \in DOMAIN queue : queue[i] = c
        \/ wpc[c] = "starting"
        \/ cpc[c] = "marking"
        \/ down
        \/ answer[c].kind = "raised"

\* What invoke told its caller about a finished job is what the job record
\* says from then on, although the record is read several times without a
\* lock; a success is only withdrawn when announcing it raised.
AnswerMatchesJob ==
    \A c \in Calls :
        /\ answer[c].kind = "error" /\ answer[c].detail \in JobStates =>
               answer[c].detail = job[c].state /\ job[c].state \in {"failed", "cancelled"}
        /\ answer[c].kind = "ok" /\ Mode[c] = "switchable" =>
               \/ job[c].state = "succeeded"
               \/ "job_finished" \in Published(c) /\ adding # "no"
        /\ answer[c].kind = "switched" => job[c].view = "background"

\* What is known of a job is true: what its caller was told is what the record
\* says from then on, and a record that says created is not forgotten.
RecordIsTrue == AnswerMatchesJob /\ CreatedIsUnderway

\* The outcome events a subscriber sees agree with the record: finished only
\* with a stored result, failed only for a job that is not cancelled, and
\* cancelled only when somebody asked; a worker that is done has told one.
EventsAgree ==
    \A c \in Calls :
        /\ "job_finished" \in Published(c) => job[c].result
        /\ "job_failed" \in Published(c) => job[c].state = "failed"
        /\ "job_cancelled" \in Published(c) => job[c].cancel
        /\ wpc[c] = "done" => Published(c) \cap Outcomes # {}

\* Subscribers see job_started before anything of the job, and one outcome as
\* the job's last word: only the waiting caller still speaks after it.
LogInOrder ==
    \A c \in WaitingCallers : \A i \in DOMAIN log[c] :
        /\ log[c][i] \in Outcomes \cup {"checkpoint"} =>
               \E k \in 1..(i - 1) : log[c][k] = "job_started"
        /\ log[c][i] \in Outcomes =>
               \A k \in (i + 1)..Len(log[c]) :
                   \/ log[c][k] \in {"wait_started", "switched", "call_failed"}
                   \/ log[c][i] = "job_finished" /\ adding # "no"

\* A subscriber to the bus is told the truth about a job, and in its order.
Announcements == EventsAgree /\ LogInOrder

\* A terminal state is final, whatever cancel, switch and shutdown do later;
\* the one exception is a success whose announcement raised.
KeepsTerminal(c) ==
    job[c].state \in Terminal =>
        \/ job'[c].state = job[c].state
        \/ job[c].state = "succeeded" /\ wpc[c] = "failing" /\ adding # "no"

TerminalIsFinal == [][\A c \in Calls : KeepsTerminal(c)]_vars

\* An async or switchable invoke returns even when the pool never gets to the
\* job or the tool never returns: only callers are fair.
EveryCallReturns ==
    \A c \in WaitingCallers : pc[c] # "idle" ~> pc[c] = "returned"

\* Every job the pool accepted reaches a terminal state, and its cancellation
\* does not get in the way, unless the pool is shut down.
EveryJobSettles ==
    \A c \in Calls : fut[c] = "pending" ~> (job[c].state \in Terminal \/ down)

-----------------------------------------------------------------------------
(* Claims of the source that the threads' interleavings refute.            *)

\* runtime.py:193 checks every result against the tool's output schema before
\* it is given out, so a successful foreground answer carries that result.
ForegroundOkIsWhole ==
    \A c \in Calls : answer[c].kind = "ok" => answer[c].detail = "result"

=============================================================================
