--------------------------- MODULE ToolJobsProofs ---------------------------
(***************************************************************************)
(* Proofs about ToolJobs, for any set of calls, any pool size and any      *)
(* number of cancels and checkpoints.                                      *)
(***************************************************************************)
EXTENDS ToolJobsRefinement, TLAPS

-----------------------------------------------------------------------------
(* The building blocks of the caller's steps keep the types of the         *)
(* variables they write.                                                   *)
CallerTypes == /\ pc \in [Calls -> CallerSteps]
               /\ answer \in [Calls -> Answers]
LogType     == log \in [Calls -> Seq(EventTypes)]

\* Publish appends one event to one log.
LEMMA PublishType ==
    ASSUME LogType, NEW c \in Calls, NEW e \in EventTypes, Publish(c, e)
    PROVE  LogType'
<1>1. Append(log[c], e) \in Seq(EventTypes)
  BY DEF LogType
<1> QED
  BY <1>1 DEF LogType, Publish

\* Goto moves one program counter.
LEMMA GotoType ==
    ASSUME CallerTypes, NEW c \in Calls, NEW step \in CallerSteps, Goto(c, step)
    PROVE  CallerTypes'
BY DEF CallerTypes, Goto

\* Return ends a call with an answer of the given kind.
LEMMA ReturnType ==
    ASSUME CallerTypes, NEW c \in Calls, NEW kind, NEW detail,
           [kind |-> kind, detail |-> detail] \in Answers,
           Return(c, kind, detail)
    PROVE  CallerTypes'
<1> DEFINE a == [kind |-> kind, detail |-> detail]
<1>1. a \in Answers
  OBVIOUS
<1>2. pc' \in [Calls -> CallerSteps]
  BY DEF CallerTypes, Return, CallerSteps
<1> HIDE DEF a
<1>3. answer' = [answer EXCEPT ![c] = a]
  BY DEF Return, a
<1>4. answer' \in [Calls -> Answers]
  BY <1>1, <1>3 DEF CallerTypes
<1> QED
  BY <1>2, <1>4 DEF CallerTypes

\* The answer of a raising event bus.
LEMMA RaisedAnswer == [kind |-> "raised", detail |-> "bus"] \in Answers
BY DEF Answers

\* PublishThen and Fail publish and move on or return.
LEMMA PublishThenType ==
    ASSUME CallerTypes, LogType, NEW c \in Calls, NEW e \in EventTypes,
           NEW step \in CallerSteps, PublishThen(c, e, step)
    PROVE  CallerTypes' /\ LogType'
BY PublishType, GotoType, ReturnType, RaisedAnswer DEF PublishThen

\* Fail publishes and returns, or raises.
LEMMA FailType ==
    ASSUME CallerTypes, LogType, NEW c \in Calls, NEW type,
           [kind |-> "error", detail |-> type] \in Answers, Fail(c, type)
    PROVE  CallerTypes' /\ LogType'
<1>1. "call_failed" \in EventTypes
  BY DEF EventTypes
<1> QED
  BY <1>1, PublishType, ReturnType, RaisedAnswer DEF Fail

\* A job record with one field assigned is a job record.
LEMMA RecordType ==
    ASSUME NEW r \in JobRecord
    PROVE  /\ \A s \in JobStates : [r EXCEPT !.state = s] \in JobRecord
           /\ [r EXCEPT !.view = "background"] \in JobRecord
           /\ [r EXCEPT !.result = TRUE] \in JobRecord
           /\ [r EXCEPT !.error = TRUE] \in JobRecord
           /\ [r EXCEPT !.cancel = TRUE] \in JobRecord
           /\ [r EXCEPT !.future = TRUE] \in JobRecord
BY DEF JobRecord

-----------------------------------------------------------------------------
(* Type correctness.                                                       *)

\* The initial state has the types.
LEMMA InitType == Init => TypeOK
<1> SUFFICES ASSUME Init PROVE TypeOK
  OBVIOUS
<1>1. NoJob \in JobRecord /\ NoAnswer \in Answers
  BY DEF NoJob, NewJob, JobRecord, JobStates, NoAnswer, Answers
<1>2. job \in [Calls -> JobRecord] /\ answer \in [Calls -> Answers]
  BY <1>1 DEF Init
<1>3. queue \in Seq(Calls) /\ log \in [Calls -> Seq(EventTypes)]
  BY DEF Init
<1>4. cancels \in [Calls -> 0..MaxCancels]
  BY ConstantsAssumption DEF Init
<1> QED
  BY <1>2, <1>3, <1>4 DEF Init, TypeOK, CallerSteps, WorkerSteps

\* Each step of the thread inside invoke keeps the types.
LEMMA CallerStepType ==
    ASSUME TypeOK, NEW c \in Calls, Invoke(c) \/ CallerStep(c)
    PROVE  TypeOK'
<1> DEFINE Rest == /\ job \in [Calls -> JobRecord]
                   /\ fut \in [Calls -> {"none", "pending", "running", "cancelled", "finished"}]
                   /\ queue \in Seq(Calls)
                   /\ wpc \in [Calls -> WorkerSteps]
                   /\ cpc \in [Calls -> {"idle", "checking", "marking"}]
                   /\ cancels \in [Calls -> 0..MaxCancels]
                   /\ adding \in {"no", "inserting", "done"}
                   /\ down \in BOOLEAN
<1>0. CallerTypes /\ LogType /\ Rest
  BY DEF TypeOK, CallerTypes, LogType
<1>a. ASSUME OnlyCaller
      PROVE  Rest'
  BY <1>0, <1>a DEF OnlyCaller, poolVars, cancelVars
<1>b. ASSUME UNCHANGED log
      PROVE  LogType'
  BY <1>0, <1>b DEF LogType
<1>c. ASSUME CallerTypes', LogType', Rest'
      PROVE  TypeOK'
  BY <1>c DEF TypeOK, CallerTypes, LogType
<1>d. \A s \in JobStates : [kind |-> "error", detail |-> s] \in Answers
                        /\ [kind |-> "switched", detail |-> s] \in Answers
  BY DEF Answers
<1>e. job[c].state \in JobStates /\ job[c].result \in BOOLEAN
  BY <1>0 DEF JobRecord
<1> HIDE DEF Rest
<1>1. CASE Invoke(c)
  <2>1. CallerTypes' /\ LogType'
    <3>1. CASE Fail(c, "not_found")
      BY <1>0, <3>1, FailType DEF Answers
    <3>2. CASE PublishThen(c, "call_started", "validating")
      BY <1>0, <3>2, PublishThenType DEF EventTypes, CallerSteps
    <3> QED
      BY <1>1, <3>1, <3>2 DEF Invoke
  <2> QED
    BY <1>1, <2>1, <1>a, <1>c DEF Invoke
<1>2. CASE Validate(c)
  <2>0. \A v \in {"foreground", "background"} : NewJob(v) \in JobRecord
    BY DEF NewJob, JobRecord, JobStates
  <2>1. job' \in [Calls -> JobRecord]
    BY <1>2, <1>0, <2>0 DEF Validate, Rest
  <2>3. Rest'
    BY <1>2, <1>0, <2>1 DEF Validate, Rest, poolVars, cancelVars
  <2>2. CallerTypes' /\ LogType'
    <3>1. CASE Fail(c, "schema_error")
      BY <1>0, <3>1, FailType DEF Answers
    <3>2. CASE Goto(c, "executing") /\ UNCHANGED log
      BY <1>0, <1>b, <3>2, GotoType DEF CallerSteps
    <3>3. CASE Goto(c, "starting") /\ UNCHANGED log
      BY <1>0, <1>b, <3>3, GotoType DEF CallerSteps
    <3> QED
      BY <1>2, <3>1, <3>2, <3>3 DEF Validate
  <2> QED
    BY <2>3, <2>2, <1>c
<1>3. CASE SyncReturns(c)
  <2>1. LogType'
    BY <1>3, <1>0, PublishType DEF SyncReturns, EventTypes
  <2>2. [kind |-> "ok", detail |-> "result"] \in Answers /\ "reporting" \in CallerSteps
    BY DEF Answers, CallerSteps
  <2>3. CallerTypes'
    BY <1>3, <1>0, <2>2, ReturnType, GotoType DEF SyncReturns
  <2> QED
    BY <1>3, <2>1, <2>3, <1>a, <1>c DEF SyncReturns
<1>4. CASE SyncFails(c)
  <2>1. CallerTypes' /\ LogType'
    BY <1>4, <1>0, FailType DEF SyncFails, Answers
  <2> QED
    BY <1>4, <2>1, <1>a, <1>c DEF SyncFails
<1>5. CASE AnnounceJob(c)
  <2>1. CallerTypes' /\ LogType'
    BY <1>5, <1>0, PublishThenType DEF AnnounceJob, EventTypes, CallerSteps
  <2> QED
    BY <1>5, <2>1, <1>a, <1>c DEF AnnounceJob
<1>6. CASE Submit(c)
  <2>0. queue' \in Seq(Calls)
    <3>1. queue \in Seq(Calls) /\ Append(queue, c) \in Seq(Calls)
      BY <1>0 DEF Rest
    <3>2. queue' = queue \/ queue' = Append(queue, c)
      BY <1>6 DEF Submit
    <3> QED
      BY <3>1, <3>2
  <2>a. fut' \in [Calls -> {"none", "pending", "running", "cancelled", "finished"}]
    BY <1>6, <1>0 DEF Submit, Rest
  <2>1. Rest'
    BY <1>6, <1>0, <2>0, <2>a DEF Submit, Rest, cancelVars, busVars
  <2>2. [kind |-> "raised", detail |-> "shutdown"] \in Answers /\ "assigning" \in CallerSteps
    BY DEF Answers, CallerSteps
  <2>3. CallerTypes'
    BY <1>6, <1>0, <2>2, ReturnType, GotoType DEF Submit
  <2> QED
    BY <1>6, <2>1, <2>3, <1>b, <1>c DEF Submit, busVars
<1>7. CASE AssignFuture(c)
  <2>0. job' \in [Calls -> JobRecord]
    <3>1. [job[c] EXCEPT !.future = TRUE] \in JobRecord
      BY <1>0, RecordType DEF Rest
    <3> QED
      BY <1>7, <1>0, <3>1 DEF AssignFuture, Rest
  <2>1. Rest'
    BY <1>7, <1>0, <2>0 DEF AssignFuture, Rest, poolVars, cancelVars, busVars
  <2>2. [kind |-> "accepted", detail |-> "running"] \in Answers /\ "announcing" \in CallerSteps
    BY DEF Answers, CallerSteps, JobStates
  <2>3. CallerTypes'
    BY <1>7, <1>0, <2>2, ReturnType, GotoType DEF AssignFuture
  <2> QED
    BY <1>7, <2>1, <2>3, <1>b, <1>c DEF AssignFuture, busVars
<1>8. CASE AnnounceWait(c)
  <2>1. CallerTypes' /\ LogType'
    BY <1>8, <1>0, PublishThenType DEF AnnounceWait, EventTypes, CallerSteps
  <2> QED
    BY <1>8, <2>1, <1>a, <1>c DEF AnnounceWait
<1>9. CASE Poll(c)
  <2>1. "answering" \in CallerSteps /\ "switching" \in CallerSteps
    BY DEF CallerSteps
  <2>2. CallerTypes'
    BY <1>9, <1>0, <2>1, GotoType DEF Poll
  <2> QED
    BY <1>9, <2>2, <1>a, <1>b, <1>c DEF Poll
<1>10. CASE AnswerForeground(c)
  <2>1. CASE /\ Return(c, "ok", IF job[c].result THEN "result" ELSE "missing")
             /\ UNCHANGED log
    <3> DEFINE d == IF job[c].result THEN "result" ELSE "missing"
    <3>1. d \in {"result", "missing"}
      OBVIOUS
    <3>2. Return(c, "ok", d)
      BY <2>1
    <3> HIDE DEF d
    <3>3. [kind |-> "ok", detail |-> d] \in Answers
      BY <3>1 DEF Answers
    <3>4. CallerTypes'
      BY <1>0, <3>2, <3>3, ReturnType
    <3> QED
      BY <1>10, <1>a, <1>b, <1>c, <2>1, <3>4 DEF AnswerForeground
  <2>2. CASE Fail(c, job[c].state)
    <3>1. CallerTypes' /\ LogType'
      BY <1>0, <1>d, <1>e, <2>2, FailType
    <3> QED
      BY <1>10, <1>a, <1>c, <3>1 DEF AnswerForeground
  <2> QED
    BY <1>10, <2>1, <2>2 DEF AnswerForeground
<1>11. CASE ForegroundTimeout(c)
  <2>1. Rest'
    BY <1>11, <1>0 DEF ForegroundTimeout, Rest, poolVars, cancelVars, busVars, JobRecord
  <2>2. CallerTypes'
    BY <1>11, <1>0, GotoType DEF ForegroundTimeout, CallerSteps
  <2> QED
    BY <1>11, <2>1, <2>2, <1>b, <1>c DEF ForegroundTimeout, busVars
<1>12. CASE AnnounceSwitch(c)
  <2>1. CallerTypes' /\ LogType'
    BY <1>12, <1>0, PublishThenType DEF AnnounceSwitch, EventTypes, CallerSteps
  <2> QED
    BY <1>12, <2>1, <1>a, <1>c DEF AnnounceSwitch
<1>13. CASE AnswerSwitched(c)
  <2>1. CallerTypes'
    BY <1>13, <1>0, <1>d, <1>e, ReturnType DEF AnswerSwitched
  <2> QED
    BY <1>13, <2>1, <1>a, <1>b, <1>c DEF AnswerSwitched
<1> QED
  BY <1>1, <1>2, <1>3, <1>4, <1>5, <1>6, <1>7, <1>8, <1>9, <1>10, <1>11, <1>12, <1>13
     DEF CallerStep

\* Each step of a worker keeps the types.
LEMMA WorkerStepType ==
    ASSUME TypeOK, NEW c \in Calls, WorkerStep(c)
    PROVE  TypeOK'
<1> DEFINE Rest == /\ CallerTypes
                   /\ queue \in Seq(Calls)
                   /\ cpc \in [Calls -> {"idle", "checking", "marking"}]
                   /\ cancels \in [Calls -> 0..MaxCancels]
                   /\ adding \in {"no", "inserting", "done"}
                   /\ down \in BOOLEAN
           Work == /\ job \in [Calls -> JobRecord]
                   /\ fut \in [Calls -> {"none", "pending", "running", "cancelled", "finished"}]
                   /\ wpc \in [Calls -> WorkerSteps]
<1>0. Rest /\ Work /\ LogType
  BY DEF TypeOK, CallerTypes, LogType
<1>a. ASSUME OnlyWorker
      PROVE  Rest'
  BY <1>0, <1>a DEF OnlyWorker, callerVars, cancelVars, CallerTypes
<1>b. ASSUME UNCHANGED log
      PROVE  LogType'
  BY <1>0, <1>b DEF LogType
<1>c. ASSUME Rest', Work', LogType'
      PROVE  TypeOK'
  BY <1>c DEF TypeOK, CallerTypes, LogType
<1> HIDE DEF Rest
<1> USE DEF WorkerGoto, WorkerSteps
<1>1. CASE SetRunning(c)
  BY <1>1, <1>0, <1>a, <1>b, <1>c DEF SetRunning, JobRecord, JobStates
<1>2. CASE CheckCancel(c)
  BY <1>2, <1>0, <1>a, <1>b, <1>c DEF CheckCancel
<1>3. CASE ToolFails(c)
  BY <1>3, <1>0, <1>a, <1>b, <1>c DEF ToolFails
<1>4. CASE SetSucceeded(c)
  BY <1>4, <1>0, <1>a, <1>b, <1>c DEF SetSucceeded, JobRecord, JobStates
<1>5. CASE StoreResult(c)
  BY <1>5, <1>0, <1>a, <1>b, <1>c DEF StoreResult, JobRecord
<1>6. CASE AnnounceFinished(c)
  <2>1. LogType'
    BY <1>6, <1>0, PublishType DEF AnnounceFinished, EventTypes
  <2> QED
    BY <1>6, <2>1, <1>0, <1>a, <1>c DEF AnnounceFinished
<1>7. CASE SetFailed(c)
  BY <1>7, <1>0, <1>a, <1>b, <1>c DEF SetFailed, JobRecord, JobStates
<1>8. CASE StoreError(c)
  BY <1>8, <1>0, <1>a, <1>b, <1>c DEF StoreError, JobRecord
<1>9. CASE ReportFailure(c)
  <2>1. (IF job[c].cancel THEN "job_cancelled" ELSE "job_failed") \in EventTypes
    BY DEF EventTypes
  <2>2. LogType'
    BY <1>9, <2>1, <1>0, PublishType DEF ReportFailure
  <2> QED
    BY <1>9, <2>2, <1>0, <1>a, <1>c DEF ReportFailure
<1> QED
  BY <1>1, <1>2, <1>3, <1>4, <1>5, <1>6, <1>7, <1>8, <1>9 DEF WorkerStep

\* So do the tool's checkpoints and everybody outside the call.
LEMMA OtherStepType ==
    ASSUME TypeOK,
           \/ \E c \in Calls : \/ Checkpoint(c) \/ RequestCancel(c) \/ CancelStep(c)
                               \/ SwitchToBackground(c)
           \/ TakeWork \/ Subscribe \/ Shutdown
    PROVE  TypeOK'
<1> USE DEF TypeOK, callerVars, poolVars, cancelVars, busVars
<1>1. ASSUME NEW c \in Calls, Checkpoint(c)
      PROVE  TypeOK'
  <2>1. LogType'
    BY <1>1, PublishType DEF Checkpoint, EventTypes, LogType
  <2> QED
    BY <1>1, <2>1 DEF Checkpoint, LogType, WorkerGoto, CallerSteps, WorkerSteps
<1>2. ASSUME NEW c \in Calls, RequestCancel(c)
      PROVE  TypeOK'
  <2>1. cancels[c] + 1 \in 0..MaxCancels
    BY <1>2, ConstantsAssumption DEF RequestCancel
  <2> QED
    BY <1>2, <2>1, RecordType DEF RequestCancel
<1>3. ASSUME NEW c \in Calls, CancelStep(c)
      PROVE  TypeOK'
  <2>1. CASE TryCancelFuture(c)
    BY <2>1 DEF TryCancelFuture
  <2>2. CASE MarkCancelled(c)
    BY <2>2, RecordType DEF MarkCancelled, JobStates
  <2> QED
    BY <1>3, <2>1, <2>2 DEF CancelStep
<1>4. ASSUME NEW c \in Calls, SwitchToBackground(c)
      PROVE  TypeOK'
  BY <1>4 DEF SwitchToBackground, JobRecord
<1>5. CASE TakeWork
  <2>1. queue' \in Seq(Calls)
    BY <1>5 DEF TakeWork
  <2>2. /\ fut' \in [Calls -> {"none", "pending", "running", "cancelled", "finished"}]
        /\ wpc' \in [Calls -> WorkerSteps]
    BY <1>5 DEF TakeWork, WorkerSteps
  <2> QED
    BY <1>5, <2>1, <2>2 DEF TakeWork
<1>6. CASE Subscribe
  BY <1>6 DEF Subscribe
<1>7. CASE Shutdown
  BY <1>7 DEF Shutdown
<1> QED
  BY <1>1, <1>2, <1>3, <1>4, <1>5, <1>6, <1>7

\* Every variable of the runtime keeps its type, whatever the threads do.
THEOREM TypeCorrect == Spec => []TypeOK
<1>1. TypeOK /\ [Next]_vars => TypeOK'
  <2> SUFFICES ASSUME TypeOK, [Next]_vars PROVE TypeOK'
    OBVIOUS
  <2>1. CASE Next
    BY <2>1, CallerStepType, WorkerStepType, OtherStepType DEF Next
  <2>2. CASE UNCHANGED vars
    BY <2>2 DEF TypeOK, vars, callerVars, poolVars, cancelVars, busVars
  <2> QED
    BY <2>1, <2>2
<1> QED
  BY <1>1, InitType, PTL DEF Spec

-----------------------------------------------------------------------------
(* The agreement of future, worker, canceller and record is inductive.     *)

\* Initially there is no job.
LEMMA InitAgreement == Init => Agreement
BY DEF Init, Agreement, Agree, NoJob, NewJob

\* A caller's step on c keeps the agreement for every call d.
LEMMA CallerStepAgreement ==
    ASSUME TypeOK, Agreement, NEW c \in Calls, Invoke(c) \/ CallerStep(c), NEW d \in Calls
    PROVE  Agree(d)'
<1> USE DEF Agreement, Agree, TypeOK, OnlyCaller, poolVars, cancelVars, busVars,
            Goto, Return, PublishThen, Fail
<1>1. CASE Invoke(c)
  BY <1>1 DEF Invoke
<1>2. CASE Validate(c)
  BY <1>2 DEF Validate, NewJob
<1>3. CASE SyncReturns(c)
  BY <1>3 DEF SyncReturns
<1>4. CASE SyncFails(c)
  BY <1>4 DEF SyncFails
<1>5. CASE AnnounceJob(c)
  BY <1>5 DEF AnnounceJob
<1>6. CASE Submit(c)
  BY <1>6 DEF Submit
<1>7. CASE AssignFuture(c)
  BY <1>7 DEF AssignFuture
<1>8. CASE AnnounceWait(c)
  BY <1>8 DEF AnnounceWait
<1>9. CASE Poll(c)
  BY <1>9 DEF Poll
<1>10. CASE AnswerForeground(c)
  BY <1>10 DEF AnswerForeground
<1>11. CASE ForegroundTimeout(c)
  BY <1>11 DEF ForegroundTimeout
<1>12. CASE AnnounceSwitch(c)
  BY <1>12 DEF AnnounceSwitch
<1>13. CASE AnswerSwitched(c)
  BY <1>13 DEF AnswerSwitched
<1> QED
  BY <1>1, <1>2, <1>3, <1>4, <1>5, <1>6, <1>7, <1>8, <1>9, <1>10, <1>11, <1>12, <1>13
     DEF CallerStep

\* So does a worker's step on c.
LEMMA WorkerStepAgreement ==
    ASSUME TypeOK, Agreement, NEW c \in Calls, WorkerStep(c), NEW d \in Calls
    PROVE  Agree(d)'
<1> USE DEF Agreement, Agree, TypeOK, OnlyWorker, callerVars, cancelVars, WorkerGoto,
            Terminal, JobRecord, BusRaises
<1>1. CASE SetRunning(c)
  BY <1>1 DEF SetRunning
<1>2. CASE CheckCancel(c)
  BY <1>2 DEF CheckCancel
<1>3. CASE ToolFails(c)
  BY <1>3 DEF ToolFails
<1>4. CASE SetSucceeded(c)
  BY <1>4 DEF SetSucceeded
<1>5. CASE StoreResult(c)
  BY <1>5 DEF StoreResult
<1>6. CASE AnnounceFinished(c)
  BY <1>6 DEF AnnounceFinished
<1>7. CASE SetFailed(c)
  BY <1>7 DEF SetFailed
<1>8. CASE StoreError(c)
  BY <1>8 DEF StoreError
<1>9. CASE ReportFailure(c)
  BY <1>9 DEF ReportFailure
<1> QED
  BY <1>1, <1>2, <1>3, <1>4, <1>5, <1>6, <1>7, <1>8, <1>9 DEF WorkerStep

\* And so do checkpoints and the steps of everybody outside the call.
LEMMA OtherStepAgreement ==
    ASSUME TypeOK, Agreement, NEW d \in Calls,
           \/ \E c \in Calls : \/ Checkpoint(c) \/ RequestCancel(c) \/ CancelStep(c)
                               \/ SwitchToBackground(c)
           \/ TakeWork \/ Subscribe \/ Shutdown
    PROVE  Agree(d)'
<1> USE DEF Agreement, Agree, TypeOK, callerVars, poolVars, cancelVars, busVars, JobRecord
<1>1. ASSUME NEW c \in Calls, Checkpoint(c)
      PROVE  Agree(d)'
  BY <1>1 DEF Checkpoint, WorkerGoto, BusRaises
<1>2. ASSUME NEW c \in Calls, RequestCancel(c)
      PROVE  Agree(d)'
  BY <1>2 DEF RequestCancel
<1>3. ASSUME NEW c \in Calls, CancelStep(c)
      PROVE  Agree(d)'
  <2>1. CASE TryCancelFuture(c)
    BY <2>1 DEF TryCancelFuture
  <2>2. CASE MarkCancelled(c)
    BY <2>2 DEF MarkCancelled
  <2> QED
    BY <1>3, <2>1, <2>2 DEF CancelStep
<1>4. ASSUME NEW c \in Calls, SwitchToBackground(c)
      PROVE  Agree(d)'
  BY <1>4 DEF SwitchToBackground
<1>5. CASE TakeWork
  <2>1. PICK c \in Calls : \/ /\ fut[c] = "pending"
                              /\ fut' = [fut EXCEPT ![c] = "running"]
                              /\ wpc' = [wpc EXCEPT ![c] = "starting"]
                           \/ UNCHANGED <<fut, wpc>>
    <3>1. Head(queue) \in Calls
      BY <1>5 DEF TakeWork
    <3> QED
      BY <1>5, <3>1 DEF TakeWork
  <2> QED
    BY <1>5, <2>1 DEF TakeWork
<1>6. CASE Subscribe
  BY <1>6 DEF Subscribe
<1>7. CASE Shutdown
  BY <1>7 DEF Shutdown
<1> QED
  BY <1>1, <1>2, <1>3, <1>4, <1>5, <1>6, <1>7

\* Every step keeps the agreement, for all calls.
LEMMA AgreementStep == TypeOK /\ Agreement /\ [Next]_vars => Agreement'
<1> SUFFICES ASSUME TypeOK, Agreement, [Next]_vars, NEW d \in Calls
             PROVE  Agree(d)'
  BY DEF Agreement
<1>1. CASE Next
  BY <1>1, CallerStepAgreement, WorkerStepAgreement, OtherStepAgreement DEF Next
<1>2. CASE UNCHANGED vars
  BY <1>2 DEF Agreement, Agree, vars, callerVars, poolVars, cancelVars, busVars
<1> QED
  BY <1>1, <1>2

\* Future, worker, canceller and record never come to disagree about a job.
THEOREM AgreementCorrect == Spec => []Agreement
<1>1. Spec => []TypeOK
  BY TypeCorrect
<1> QED
  BY <1>1, InitAgreement, AgreementStep, PTL DEF Spec

\* A job marked cancelled is not executing and never will be, for any number
\* of calls, workers and cancels: only a cancelled future or the worker
\* itself leads to the mark.
THEOREM CancelledSafe == Spec => []CancelledNeverExecutes
<1>1. TypeOK /\ Agreement => CancelledNeverExecutes
  BY DEF TypeOK, Agreement, Agree, CancelledNeverExecutes, WorkerSteps, Terminal
<1> QED
  BY <1>1, TypeCorrect, AgreementCorrect, PTL

\* Assigning another field of a record leaves every record's state alone.
LEMMA StateKept ==
    ASSUME job \in [Calls -> JobRecord], NEW c \in Calls, NEW d \in Calls,
           \/ job' = job
           \/ job' = [job EXCEPT ![c].view = "background"]
           \/ job' = [job EXCEPT ![c].result = TRUE]
           \/ job' = [job EXCEPT ![c].error = TRUE]
           \/ job' = [job EXCEPT ![c].cancel = TRUE]
           \/ job' = [job EXCEPT ![c].future = TRUE]
    PROVE  job'[d].state = job[d].state
<1>1. CASE d = c
  BY <1>1 DEF JobRecord
<1>2. CASE d # c
  BY <1>2
<1> QED
  BY <1>1, <1>2

\* A step of a call either leaves all states alone or assigns one state.
LEMMA KeepsTerminalStep ==
    ASSUME TypeOK, Agreement, Next, NEW d \in Calls
    PROVE  KeepsTerminal(d)
<1> SUFFICES ASSUME job[d].state \in Terminal
             PROVE  \/ job'[d].state = job[d].state
                    \/ job[d].state = "succeeded" /\ wpc[d] = "failing" /\ adding # "no"
  BY DEF KeepsTerminal
<1>0. job \in [Calls -> JobRecord] /\ Agree(d)
  BY DEF TypeOK, Agreement
<1>1. ASSUME NEW c \in Calls, Invoke(c) \/ CallerStep(c)
      PROVE  job'[d].state = job[d].state
  <2>1. CASE Validate(c)
    <3>1. Agree(c)
      BY DEF Agreement
    <3>2. UNCHANGED job \/ d # c
      BY <2>1, <3>1 DEF Validate, Agree, Terminal
    <3> QED
      BY <1>0, <2>1, <3>2 DEF Validate
  <2> QED
    BY <1>0, <1>1, <2>1, StateKept
       DEF Invoke, CallerStep, SyncReturns, SyncFails, AnnounceJob, Submit, AssignFuture,
           AnnounceWait, Poll, AnswerForeground, ForegroundTimeout, AnnounceSwitch,
           AnswerSwitched, OnlyCaller
<1>2. ASSUME NEW c \in Calls, WorkerStep(c)
      PROVE  \/ job'[d].state = job[d].state
             \/ job[d].state = "succeeded" /\ wpc[d] = "failing" /\ adding # "no"
  <2>1. CASE SetRunning(c) \/ SetSucceeded(c) \/ SetFailed(c)
    <3>1. CASE d # c
      BY <1>0, <2>1, <3>1 DEF SetRunning, SetSucceeded, SetFailed
    <3>2. CASE d = c
      BY <1>0, <2>1, <3>2 DEF SetRunning, SetSucceeded, SetFailed, Agree, Terminal
    <3> QED
      BY <3>1, <3>2
  <2> QED
    BY <1>0, <1>2, <2>1, StateKept
       DEF WorkerStep, CheckCancel, ToolFails, StoreResult, AnnounceFinished, StoreError,
           ReportFailure
<1>3. ASSUME NEW c \in Calls,
             \/ Checkpoint(c) \/ RequestCancel(c) \/ CancelStep(c) \/ SwitchToBackground(c)
      PROVE  job'[d].state = job[d].state
  <2>1. CASE MarkCancelled(c)
    <3>1. CASE d # c
      BY <1>0, <2>1, <3>1 DEF MarkCancelled
    <3>2. CASE d = c
      BY <1>0, <2>1, <3>2 DEF MarkCancelled, Agree, Terminal, JobRecord
    <3> QED
      BY <3>1, <3>2
  <2> QED
    BY <1>0, <1>3, <2>1, StateKept
       DEF Checkpoint, RequestCancel, CancelStep, TryCancelFuture, SwitchToBackground
<1>4. CASE TakeWork \/ Subscribe \/ Shutdown
  BY <1>4 DEF TakeWork, Subscribe, Shutdown
<1> QED
  BY <1>1, <1>2, <1>3, <1>4 DEF Next

\* No later cancel, switch, checkpoint or shutdown changes how a job ended.
THEOREM TerminalFinal == Spec => TerminalIsFinal
<1>1. TypeOK /\ Agreement /\ [Next]_vars => [\A c \in Calls : KeepsTerminal(c)]_vars
  BY KeepsTerminalStep
<1> QED
  BY <1>1, TypeCorrect, AgreementCorrect, PTL DEF Spec, TerminalIsFinal

-----------------------------------------------------------------------------
(* ToolJobs implements ToolCallContract.                                   *)

\* A step inside invoke either moves on or answers.
CallerMove(c) ==
    /\ pc[c] # "returned"
    /\ \/ /\ \E step \in CallerSteps : pc' = [pc EXCEPT ![c] = step]
          /\ UNCHANGED answer
       \/ \E kind, detail : Return(c, kind, detail)

\* Every step inside invoke is such a move.
LEMMA CallerMoves ==
    ASSUME NEW c \in Calls, Invoke(c) \/ CallerStep(c)
    PROVE  CallerMove(c)
<1> USE DEF CallerMove, Goto, PublishThen, Fail, CallerSteps
<1>1. CASE Invoke(c) \/ Validate(c)
  BY <1>1 DEF Invoke, Validate
<1>2. CASE SyncReturns(c) \/ SyncFails(c)
  BY <1>2 DEF SyncReturns, SyncFails
<1>3. CASE AnnounceJob(c) \/ Submit(c) \/ AssignFuture(c) \/ AnnounceWait(c)
  BY <1>3 DEF AnnounceJob, Submit, AssignFuture, AnnounceWait
<1>4. CASE Poll(c) \/ AnswerForeground(c)
  BY <1>4 DEF Poll, AnswerForeground
<1>5. CASE ForegroundTimeout(c) \/ AnnounceSwitch(c) \/ AnswerSwitched(c)
  BY <1>5 DEF ForegroundTimeout, AnnounceSwitch, AnswerSwitched
<1> QED
  BY <1>1, <1>2, <1>3, <1>4, <1>5 DEF CallerStep

\* Steps of everybody else answer nobody and take no call out of "returned".
LEMMA OthersDoNotAnswer ==
    ASSUME TypeOK,
           \/ \E c \in Calls : \/ WorkerStep(c) \/ Checkpoint(c) \/ RequestCancel(c)
                               \/ CancelStep(c) \/ SwitchToBackground(c)
           \/ TakeWork \/ Subscribe \/ Shutdown
    PROVE  /\ UNCHANGED answer
           /\ \A d \in Calls : pc[d] = "returned" => pc'[d] = "returned"
<1>1. ASSUME NEW c \in Calls, Checkpoint(c)
      PROVE  UNCHANGED answer /\ \A d \in Calls : pc[d] = "returned" => pc'[d] = "returned"
  BY <1>1 DEF Checkpoint, TypeOK
<1>2. ASSUME \/ \E c \in Calls : \/ WorkerStep(c) \/ RequestCancel(c)
                                 \/ CancelStep(c) \/ SwitchToBackground(c)
             \/ TakeWork \/ Subscribe \/ Shutdown
      PROVE  UNCHANGED <<pc, answer>>
  BY <1>2 DEF WorkerStep, SetRunning, CheckCancel, ToolFails, SetSucceeded, StoreResult,
     AnnounceFinished, SetFailed, StoreError, ReportFailure, OnlyWorker, callerVars,
     RequestCancel, CancelStep, TryCancelFuture, MarkCancelled, SwitchToBackground,
     TakeWork, Subscribe, Shutdown
<1> QED
  BY <1>1, <1>2

\* No answer before the return, for every interleaving.
LEMMA UnansweredCorrect == Spec => []Unanswered
<1>1. Init => Unanswered
  BY DEF Init, Unanswered
<1>2. TypeOK /\ Unanswered /\ [Next]_vars => Unanswered'
  <2> SUFFICES ASSUME TypeOK, Unanswered, [Next]_vars, NEW d \in Calls,
                      pc'[d] # "returned"
               PROVE  answer'[d] = NoAnswer
    BY DEF Unanswered
  <2>0. pc \in [Calls -> CallerSteps] /\ answer \in [Calls -> Answers]
    BY DEF TypeOK
  <2>1. ASSUME NEW c \in Calls, CallerMove(c)
        PROVE  answer'[d] = NoAnswer
    BY <2>0, <2>1 DEF CallerMove, Unanswered, Return
  <2>2. ASSUME UNCHANGED answer,
               \A e \in Calls : pc[e] = "returned" => pc'[e] = "returned"
        PROVE  answer'[d] = NoAnswer
    BY <2>2 DEF Unanswered
  <2>3. CASE Next
    BY <2>1, <2>2, <2>3, CallerMoves, OthersDoNotAnswer DEF Next
  <2>4. CASE UNCHANGED vars
    BY <2>2, <2>4 DEF vars, callerVars
  <2> QED
    BY <2>3, <2>4
<1> QED
  BY <1>1, <1>2, TypeCorrect, PTL DEF Spec

\* The initial state maps to an initial state of the contract.
LEMMA InitContract == Init => Contract!Init
BY DEF Init, Contract!Init, NoJob, NewJob, NoAnswer, ReplyOf, Terminal

\* A step that accepts, asks and settles nothing for call d.
Still(d) == /\ fut'[d] = "none" <=> fut[d] = "none"
            /\ job'[d].cancel = job[d].cancel
            /\ job'[d].state \in Terminal \/ job[d].state \in Terminal =>
                   job'[d].state = job[d].state

\* The contract's variables, as ToolJobs shows them.
Accepted == {c \in Calls : fut[c] # "none"}
Asked    == {c \in Calls : job[c].cancel}
Outcome  == [c \in Calls |-> IF job[c].state \in Terminal THEN job[c].state ELSE "none"]
Replied  == [c \in Calls |-> ReplyOf(answer[c])]

\* What shows the contract nothing new is a stuttering step of it.
LEMMA StillStep ==
    ASSUME \A d \in Calls : Still(d)
    PROVE  UNCHANGED <<Accepted, Asked, Outcome>>
BY DEF Still, Accepted, Asked, Outcome

\* If nobody is answered either, the contract does not notice the step.
LEMMA SilentStep ==
    ASSUME \A d \in Calls : Still(d), UNCHANGED answer
    PROVE  UNCHANGED Contract!vars
<1>1. UNCHANGED Replied
  BY DEF Replied
<1> QED
  BY <1>1, StillStep DEF Contract!vars, Accepted, Asked, Outcome, Replied

\* A return with nothing else to notice is a reply of the contract, if what it
\* says is so.
LEMMA ReplyStep ==
    ASSUME TypeOK, Unanswered, NEW c \in Calls, NEW kind, NEW detail,
           pc[c] # "returned", Return(c, kind, detail),
           \A d \in Calls : Still(d),
           NEW r \in {"refused", "later", "succeeded", "failed", "cancelled"},
           r = ReplyOf([kind |-> kind, detail |-> detail]),
           \/ r = "refused"
           \/ r = "later" /\ c \in Accepted
           \/ r = "succeeded" /\ Mode[c] = "sync"
           \/ r = Outcome[c]
    PROVE  Contract!Next
<1> DEFINE a == [kind |-> kind, detail |-> detail]
<1>1. answer' = [answer EXCEPT ![c] = a] /\ answer \in [Calls -> Answers]
  BY DEF Return, TypeOK
<1>2. Replied[c] = "none"
  BY DEF Unanswered, Replied, ReplyOf, NoAnswer
<1> HIDE DEF a
<1>3. Replied' = [Replied EXCEPT ![c] = r]
  BY <1>1 DEF Replied, a
<1>4. Contract!Reply(c, r)
  BY <1>2, <1>3, StillStep DEF Contract!Reply, Accepted, Asked, Outcome, Replied
<1> QED
  BY <1>4 DEF Contract!Next, Contract!Failures

\* The replies that are not outcomes of a job.
LEMMA RefusedReplies ==
    /\ ReplyOf([kind |-> "raised", detail |-> "bus"]) = "refused"
    /\ ReplyOf([kind |-> "raised", detail |-> "shutdown"]) = "refused"
    /\ \A t \in {"not_found", "schema_error", "runtime_error"} :
           ReplyOf([kind |-> "error", detail |-> t]) = "refused"
BY DEF ReplyOf

\* The replies of the other calls stay as they are.
LEMMA OtherReplies ==
    ASSUME NEW s
    PROVE  /\ ReplyOf([kind |-> "ok", detail |-> s]) = "succeeded"
           /\ ReplyOf([kind |-> "accepted", detail |-> s]) = "later"
           /\ ReplyOf([kind |-> "switched", detail |-> s]) = "later"
           /\ ReplyOf([kind |-> "error", detail |-> s]) =
                  IF s \in {"failed", "cancelled"} THEN s ELSE "refused"
BY DEF ReplyOf

\* Publishing and moving on is invisible, raising is a refusal.
LEMMA PublishThenContract ==
    ASSUME TypeOK, Unanswered, NEW c \in Calls, NEW e, NEW step, pc[c] # "returned",
           PublishThen(c, e, step), \A d \in Calls : Still(d)
    PROVE  Contract!Next \/ UNCHANGED Contract!vars
<1>1. CASE Goto(c, step)
  BY <1>1, SilentStep DEF Goto
<1>2. CASE Return(c, "raised", "bus")
  BY <1>2, ReplyStep, RefusedReplies
<1> QED
  BY <1>1, <1>2 DEF PublishThen

\* An error of invoke itself is a refusal.
LEMMA FailContract ==
    ASSUME TypeOK, Unanswered, NEW c \in Calls,
           NEW t \in {"not_found", "schema_error", "runtime_error"}, pc[c] # "returned",
           Fail(c, t), \A d \in Calls : Still(d)
    PROVE  Contract!Next
<1>1. CASE Return(c, "error", t)
  BY <1>1, ReplyStep, RefusedReplies
<1>2. CASE Return(c, "raised", "bus")
  BY <1>2, ReplyStep, RefusedReplies
<1> QED
  BY <1>1, <1>2 DEF Fail

\* A step inside invoke is a step of the contract or a stutter.
LEMMA CallerContract ==
    ASSUME TypeOK, Agreement, Unanswered, NEW c \in Calls, Invoke(c) \/ CallerStep(c)
    PROVE  Contract!Next \/ UNCHANGED Contract!vars
<1>0. /\ job \in [Calls -> JobRecord]
      /\ fut \in [Calls -> {"none", "pending", "running", "cancelled", "finished"}]
      /\ \A d \in Calls : Agree(d)
  BY DEF TypeOK, Agreement
<1>a. ASSUME UNCHANGED <<job, fut>>
      PROVE  \A d \in Calls : Still(d)
  BY <1>a DEF Still
<1>b. ASSUME OnlyCaller
      PROVE  \A d \in Calls : Still(d)
  BY <1>b, <1>a DEF OnlyCaller, poolVars
<1>1. CASE Invoke(c)
  BY <1>1, <1>b, FailContract, PublishThenContract DEF Invoke
<1>2. CASE Validate(c)
  <2>1. ASSUME NEW d \in Calls
        PROVE  Still(d)
    <3>1. CASE UNCHANGED job
      BY <1>2, <1>a, <3>1 DEF Validate, poolVars
    <3>2. CASE \E v : job' = [job EXCEPT ![c] = NewJob(v)]
      <4>1. fut' = fut /\ job[c].state = "none" /\ ~job[c].cancel
        BY <1>0, <1>2 DEF Validate, Agree, poolVars
      <4>2. CASE d = c
        <5>1. job'[d].state = "created" /\ job'[d].cancel = FALSE
          BY <1>0, <3>2, <4>2 DEF NewJob
        <5>2. job[d].cancel = FALSE
          BY <1>0, <4>1, <4>2 DEF JobRecord
        <5> QED
          BY <4>1, <4>2, <5>1, <5>2 DEF Still, Terminal
      <4>3. CASE d # c
        BY <1>0, <3>2, <4>1, <4>3 DEF Still
      <4> QED
        BY <4>2, <4>3
    <3> QED
      BY <1>2, <3>1, <3>2 DEF Validate
  <2> QED
    BY <1>2, <2>1, FailContract, SilentStep DEF Validate, Goto
<1>3. CASE SyncReturns(c)
  <2>1. Mode[c] = "sync" /\ \A d \in Calls : Still(d)
    BY <1>0, <1>3, <1>b DEF SyncReturns, Agree
  <2>2. CASE Return(c, "ok", "result")
    <3>1. ReplyOf([kind |-> "ok", detail |-> "result"]) = "succeeded"
      BY OtherReplies
    <3> QED
      BY <1>3, <2>1, <2>2, <3>1, ReplyStep DEF SyncReturns
  <2>3. CASE Goto(c, "reporting")
    BY <2>1, <2>3, SilentStep DEF Goto
  <2> QED
    BY <1>3, <2>2, <2>3 DEF SyncReturns
<1>4. CASE SyncFails(c)
  BY <1>4, <1>b, FailContract DEF SyncFails
<1>5. CASE AnnounceJob(c)
  BY <1>5, <1>b, PublishThenContract DEF AnnounceJob
<1>6. CASE Submit(c)
  <2>1. CASE UNCHANGED fut /\ Return(c, "raised", "shutdown")
    BY <1>6, <2>1, <1>a, ReplyStep, RefusedReplies DEF Submit
  <2>2. CASE fut' = [fut EXCEPT ![c] = "pending"] /\ Goto(c, "assigning")
    <3>1. Mode[c] # "sync" /\ Replied[c] = "none"
      BY <1>0, <1>6 DEF Submit, Agree, Unanswered, Replied, ReplyOf, NoAnswer
    <3>2. Accepted' = Accepted \cup {c}
      BY <1>0, <2>2 DEF Accepted
    <3>3. UNCHANGED <<Asked, Outcome, Replied>>
      BY <1>6, <2>2 DEF Submit, Goto, Asked, Outcome, Replied
    <3>4. Contract!Accept(c)
      BY <3>1, <3>2, <3>3 DEF Contract!Accept, Accepted, Asked, Outcome, Replied
    <3> QED
      BY <3>4 DEF Contract!Next
  <2> QED
    BY <1>6, <2>1, <2>2 DEF Submit
<1>7. CASE AssignFuture(c)
  <2>1. c \in Accepted
    BY <1>0, <1>7 DEF AssignFuture, Agree, Accepted
  <2>2. \A d \in Calls : Still(d)
    BY <1>0, <1>7 DEF AssignFuture, Still, JobRecord, poolVars
  <2>3. CASE Return(c, "accepted", "running")
    BY <1>7, <2>1, <2>2, <2>3, ReplyStep, OtherReplies DEF AssignFuture
  <2>4. CASE Goto(c, "announcing")
    BY <2>2, <2>4, SilentStep DEF Goto
  <2> QED
    BY <1>7, <2>3, <2>4 DEF AssignFuture
<1>8. CASE AnnounceWait(c)
  BY <1>8, <1>b, PublishThenContract DEF AnnounceWait
<1>9. CASE Poll(c)
  BY <1>9, <1>b, SilentStep DEF Poll, Goto
<1>10. CASE AnswerForeground(c)
  <2>0. pc[c] # "returned" /\ \A d \in Calls : Still(d)
    BY <1>10, <1>b DEF AnswerForeground
  <2>1. CASE /\ job[c].state = "succeeded"
             /\ Return(c, "ok", IF job[c].result THEN "result" ELSE "missing")
    <3>1. Outcome[c] = "succeeded"
      BY <2>1 DEF Outcome, Terminal
    <3> DEFINE s == IF job[c].result THEN "result" ELSE "missing"
    <3>2. Return(c, "ok", s)
      BY <2>1
    <3> HIDE DEF s
    <3>3. ReplyOf([kind |-> "ok", detail |-> s]) = "succeeded"
      BY OtherReplies
    <3> QED
      BY <2>0, <3>1, <3>2, <3>3, ReplyStep
  <2>2. CASE Return(c, "raised", "bus")
    BY <2>0, <2>2, ReplyStep, RefusedReplies
  <2>3. CASE Return(c, "error", job[c].state)
    <3>1. job[c].state \in {"failed", "cancelled"} => Outcome[c] = job[c].state
      BY DEF Outcome, Terminal
    <3> DEFINE s == job[c].state
    <3>a. Return(c, "error", s)
      BY <2>3
    <3>b. ReplyOf([kind |-> "error", detail |-> s]) =
              IF s \in {"failed", "cancelled"} THEN s ELSE "refused"
      BY OtherReplies
    <3> HIDE DEF s
    <3>2. CASE s \in {"failed", "cancelled"}
      <4>1. Outcome[c] = s
        BY <3>1, <3>2 DEF s
      <4> QED
        BY <2>0, <3>a, <3>b, <3>2, <4>1, ReplyStep
    <3>3. CASE s \notin {"failed", "cancelled"}
      BY <2>0, <3>a, <3>b, <3>3, ReplyStep
    <3> QED
      BY <3>2, <3>3
  <2> QED
    BY <1>10, <2>1, <2>2, <2>3 DEF AnswerForeground, Fail
<1>11. CASE ForegroundTimeout(c)
  <2>1. \A d \in Calls : Still(d)
    BY <1>0, <1>11 DEF ForegroundTimeout, Still, JobRecord, poolVars
  <2> QED
    BY <1>11, <2>1, SilentStep DEF ForegroundTimeout, Goto
<1>12. CASE AnnounceSwitch(c)
  BY <1>12, <1>b, PublishThenContract DEF AnnounceSwitch
<1>13. CASE AnswerSwitched(c)
  <2>1. c \in Accepted
    BY <1>0, <1>13 DEF AnswerSwitched, Agree, Accepted
  <2> QED
    BY <1>13, <2>1, <1>b, ReplyStep, OtherReplies DEF AnswerSwitched
<1> QED
  BY <1>1, <1>2, <1>3, <1>4, <1>5, <1>6, <1>7, <1>8, <1>9, <1>10, <1>11, <1>12, <1>13
     DEF CallerStep

\* Assigning a terminal state shows as one outcome.
LEMMA OutcomeStep ==
    ASSUME job \in [Calls -> JobRecord], NEW c \in Calls, NEW s \in Terminal,
           job' = [job EXCEPT ![c].state = s]
    PROVE  Outcome' = [Outcome EXCEPT ![c] = s]
<1>1. job'[c].state = s /\ \A d \in Calls \ {c} : job'[d] = job[d]
  BY DEF JobRecord
<1>2. ASSUME NEW d \in Calls
      PROVE  Outcome'[d] = [Outcome EXCEPT ![c] = s][d]
  <2>1. CASE d = c
    BY <1>1, <2>1 DEF Outcome
  <2>2. CASE d # c
    BY <1>1, <2>2 DEF Outcome
  <2> QED
    BY <2>1, <2>2
<1> QED
  BY <1>2 DEF Outcome

\* So is a step of the worker.
LEMMA WorkerContract ==
    ASSUME TypeOK, Agreement, NEW c \in Calls, WorkerStep(c)
    PROVE  Contract!Next \/ UNCHANGED Contract!vars
<1>0. /\ job \in [Calls -> JobRecord]
      /\ fut \in [Calls -> {"none", "pending", "running", "cancelled", "finished"}]
      /\ \A d \in Calls : Agree(d)
      /\ UNCHANGED answer
  BY DEF TypeOK, Agreement, WorkerStep, SetRunning, CheckCancel, ToolFails, SetSucceeded,
     StoreResult, AnnounceFinished, SetFailed, StoreError, ReportFailure, OnlyWorker, callerVars
<1>1. CASE SetRunning(c)
  <2>1. \A d \in Calls : Still(d)
    BY <1>0, <1>1 DEF SetRunning, Still, Agree, Terminal, JobRecord
  <2> QED
    BY <1>0, <2>1, SilentStep
<1>2. CASE CheckCancel(c) \/ ToolFails(c)
  BY <1>0, <1>2, SilentStep DEF CheckCancel, ToolFails, Still
<1>3. CASE SetSucceeded(c)
  <2>1. c \in Accepted /\ Outcome[c] = "none"
    BY <1>0, <1>3 DEF SetSucceeded, Agree, Accepted, Outcome, Terminal
  <2>2. Outcome' = [Outcome EXCEPT ![c] = "succeeded"]
    BY <1>0, <1>3, OutcomeStep DEF SetSucceeded, Terminal
  <2>3. UNCHANGED <<Accepted, Asked, Replied>>
    BY <1>0, <1>3 DEF SetSucceeded, Accepted, Asked, Replied, JobRecord
  <2>4. Contract!Settle(c, "succeeded")
    BY <2>1, <2>2, <2>3 DEF Contract!Settle, Accepted, Asked, Outcome, Replied
  <2> QED
    BY <2>4 DEF Contract!Next
<1>4. CASE StoreResult(c) \/ StoreError(c)
  <2>1. \A d \in Calls : Still(d)
    BY <1>0, <1>4 DEF StoreResult, StoreError, Still, JobRecord
  <2> QED
    BY <1>0, <2>1, SilentStep
<1>5. CASE AnnounceFinished(c)
  <2>1. \A d \in Calls : Still(d)
    BY <1>0, <1>5 DEF AnnounceFinished, Still, Agree
  <2> QED
    BY <1>0, <2>1, SilentStep
<1>6. CASE SetFailed(c)
  <2>1. /\ c \in Accepted
        /\ Outcome[c] = "none" \/ Outcome[c] = "succeeded"
    BY <1>0, <1>6 DEF SetFailed, Agree, Accepted, Outcome, Terminal
  <2>2. PICK o \in {"failed", "cancelled"} :
               /\ o = "cancelled" => c \in Asked
               /\ job' = [job EXCEPT ![c].state = o]
    BY <1>6 DEF SetFailed, Asked
  <2>3. Outcome' = [Outcome EXCEPT ![c] = o]
    BY <1>0, <2>2, OutcomeStep DEF Terminal
  <2>4. UNCHANGED <<Accepted, Asked, Replied>>
    BY <1>0, <1>6, <2>2 DEF SetFailed, Accepted, Asked, Replied, JobRecord
  <2>5. Contract!Settle(c, o) \/ Contract!Withdraw(c, o)
    BY <2>1, <2>2, <2>3, <2>4
       DEF Contract!Settle, Contract!Withdraw, Accepted, Asked, Outcome, Replied
  <2> QED
    BY <2>5 DEF Contract!Next, Contract!Failures
<1>7. CASE ReportFailure(c)
  <2>1. \A d \in Calls : Still(d)
    BY <1>0, <1>7 DEF ReportFailure, Still, Agree
  <2> QED
    BY <1>0, <2>1, SilentStep
<1> QED
  BY <1>1, <1>2, <1>3, <1>4, <1>5, <1>6, <1>7 DEF WorkerStep

\* So are checkpoints, cancels, switches, and the steps of pool, bus and shutdown.
LEMMA OtherContract ==
    ASSUME TypeOK, Agreement,
           \/ \E c \in Calls : \/ Checkpoint(c) \/ RequestCancel(c) \/ CancelStep(c)
                               \/ SwitchToBackground(c)
           \/ TakeWork \/ Subscribe \/ Shutdown
    PROVE  Contract!Next \/ UNCHANGED Contract!vars
<1>0. /\ job \in [Calls -> JobRecord]
      /\ fut \in [Calls -> {"none", "pending", "running", "cancelled", "finished"}]
      /\ \A d \in Calls : Agree(d)
      /\ UNCHANGED answer
  BY OthersDoNotAnswer DEF TypeOK, Agreement
<1>1. ASSUME NEW c \in Calls, Checkpoint(c)
      PROVE  UNCHANGED Contract!vars
  BY <1>0, <1>1, SilentStep DEF Checkpoint, Still
<1>2. ASSUME NEW c \in Calls, RequestCancel(c)
      PROVE  Contract!Next
  <2>1. Asked' = Asked \cup {c}
    BY <1>0, <1>2 DEF RequestCancel, Asked, JobRecord
  <2>2. UNCHANGED Outcome
    BY <1>0, <1>2 DEF RequestCancel, Outcome, JobRecord
  <2>3. UNCHANGED <<Accepted, Replied>>
    BY <1>2 DEF RequestCancel, Accepted, Replied, poolVars, callerVars
  <2>4. Contract!Ask(c)
    BY <2>1, <2>2, <2>3 DEF Contract!Ask, Accepted, Asked, Outcome, Replied
  <2> QED
    BY <2>4 DEF Contract!Next
<1>3. ASSUME NEW c \in Calls, TryCancelFuture(c)
      PROVE  UNCHANGED Contract!vars
  BY <1>0, <1>3, SilentStep DEF TryCancelFuture, Still
<1>4. ASSUME NEW c \in Calls, MarkCancelled(c)
      PROVE  Contract!Next \/ UNCHANGED Contract!vars
  <2>1. /\ c \in Accepted /\ c \in Asked
        /\ job[c].state \in {"created", "cancelled"}
    BY <1>0, <1>4 DEF MarkCancelled, Agree, Accepted, Asked
  <2>2. UNCHANGED <<Accepted, Asked, Replied>>
    BY <1>0, <1>4 DEF MarkCancelled, Accepted, Asked, Replied, JobRecord, poolVars
  <2>3. Outcome' = [Outcome EXCEPT ![c] = "cancelled"]
    BY <1>0, <1>4, OutcomeStep DEF MarkCancelled, Terminal
  <2>4. CASE job[c].state = "created"
    <3>1. Outcome[c] = "none"
      BY <2>4 DEF Outcome, Terminal
    <3>2. Contract!Settle(c, "cancelled")
      BY <2>1, <2>2, <2>3, <3>1 DEF Contract!Settle, Accepted, Asked, Outcome, Replied
    <3> QED
      BY <3>2 DEF Contract!Next, Contract!Failures
  <2>5. CASE job[c].state = "cancelled"
    <3>1. \A d \in Calls : Still(d)
      BY <1>0, <1>4, <2>5 DEF MarkCancelled, Still, JobRecord, poolVars
    <3> QED
      BY <1>0, <3>1, SilentStep
  <2> QED
    BY <2>1, <2>4, <2>5
<1>5. ASSUME NEW c \in Calls, SwitchToBackground(c)
      PROVE  UNCHANGED Contract!vars
  <2>1. \A d \in Calls : Still(d)
    BY <1>0, <1>5 DEF SwitchToBackground, Still, JobRecord, poolVars
  <2> QED
    BY <1>0, <2>1, SilentStep
<1>6. CASE TakeWork
  <2>1. \A d \in Calls : Still(d)
    <3>1. Head(queue) \in Calls
      BY <1>6 DEF TakeWork, TypeOK
    <3> QED
      BY <1>0, <1>6, <3>1 DEF TakeWork, Still
  <2> QED
    BY <1>0, <2>1, SilentStep
<1>7. CASE Subscribe
  BY <1>0, <1>7, SilentStep DEF Subscribe, Still, poolVars
<1>8. CASE Shutdown
  BY <1>0, <1>8, SilentStep DEF Shutdown, Still
<1> QED
  BY <1>1, <1>2, <1>3, <1>4, <1>5, <1>6, <1>7, <1>8 DEF CancelStep

\* Whatever the threads do, callers are told what the contract allows: an
\* answer is given once and names the job's outcome; jobs settle once, as
\* cancelled only if asked, and only a success can be withdrawn.
THEOREM ContractKept == Spec => KeepsContract
<1>1. TypeOK /\ Agreement /\ Unanswered /\ [Next]_vars => [Contract!Next]_Contract!vars
  <2> SUFFICES ASSUME TypeOK, Agreement, Unanswered, [Next]_vars
               PROVE  Contract!Next \/ UNCHANGED Contract!vars
    OBVIOUS
  <2>1. CASE Next
    BY <2>1, CallerContract, WorkerContract, OtherContract DEF Next
  <2>2. CASE UNCHANGED vars
    BY <2>2, SilentStep DEF vars, callerVars, poolVars, Still
  <2> QED
    BY <2>1, <2>2
<1> QED
  BY <1>1, InitContract, TypeCorrect, AgreementCorrect, UnansweredCorrect, PTL
     DEF Spec, KeepsContract, Contract!Spec

-----------------------------------------------------------------------------
(* What callers and subscribers are told is true.                          *)

\* The two properties, call by call.
AnswerOK(c) ==
    /\ answer[c].kind = "error" /\ answer[c].detail \in JobStates =>
           answer[c].detail = job[c].state /\ job[c].state \in {"failed", "cancelled"}
    /\ answer[c].kind = "ok" /\ Mode[c] = "switchable" =>
           \/ job[c].state = "succeeded"
           \/ "job_finished" \in Published(c) /\ adding # "no"
    /\ answer[c].kind = "switched" => job[c].view = "background"

Queued(c) == \E i \in DOMAIN queue : queue[i] = c

UnderwayOK(c) ==
    job[c].state = "created" =>
        \/ pc[c] \in {"starting", "submitting"}
        \/ fut[c] = "pending" /\ Queued(c)
        \/ wpc[c] = "starting"
        \/ cpc[c] = "marking"
        \/ down
        \/ answer[c].kind = "raised"

EventsOK(c) ==
    /\ "job_finished" \in Published(c) => job[c].result
    /\ "job_failed" \in Published(c) => job[c].state = "failed"
    /\ "job_cancelled" \in Published(c) => job[c].cancel
    /\ wpc[c] = "done" => Published(c) \cap Outcomes # {}

Begun(s)       == \A i \in DOMAIN s : s[i] \in Outcomes \cup {"checkpoint"} =>
                      \E k \in 1..(i - 1) : s[k] = "job_started"
Closed(s, how) == \A i \in DOMAIN s : s[i] \in Outcomes =>
                      \A k \in (i + 1)..Len(s) :
                          \/ s[k] \in {"wait_started", "switched", "call_failed"}
                          \/ s[i] = "job_finished" /\ how # "no"

OrderOK(c) == Mode[c] # "sync" => Begun(log[c]) /\ Closed(log[c], adding)

\* What makes them inductive: how far the threads are limits what the record
\* says and what has been published.
PlaceOK(c) ==
    /\ pc[c] = "answering" => job[c].state \in Terminal
    /\ pc[c] \in {"leaving", "switching"} => job[c].view = "background"
    /\ wpc[c] = "failing" /\ job[c].state = "succeeded" => "job_finished" \in Published(c)
    /\ wpc[c] = "announcing" => job[c].result
    /\ pc[c] = "submitting" \/ fut[c] # "none" => "job_started" \in Published(c)
    /\ fut[c] = "none" => Published(c) \cap Outcomes = {}
    /\ \A o \in Published(c) \cap Outcomes :
           wpc[c] = "done" \/ (o = "job_finished" /\ adding # "no")

TruthAt(c) == AnswerOK(c) /\ UnderwayOK(c) /\ EventsOK(c) /\ OrderOK(c) /\ PlaceOK(c)
Truth      == \A c \in Calls : TruthAt(c)

\* What the steps of other threads leave alone.
SameAt(d) == /\ pc'[d] = pc[d] /\ answer'[d] = answer[d] /\ job'[d] = job[d]
             /\ fut'[d] = fut[d] /\ wpc'[d] = wpc[d] /\ cpc'[d] = cpc[d]
             /\ log'[d] = log[d]
Onwards(d) == /\ adding # "no" => adding' # "no"
              /\ down => down'
              /\ Queued(d) => Queued(d)' \/ fut'[d] # "pending" \/ down'

\* A longer log keeps the order when the new event may stand at its end.
LEMMA OrderGrows ==
    ASSUME NEW s \in Seq(EventTypes), NEW e \in EventTypes, NEW how, NEW how2,
           how # "no" => how2 # "no", Begun(s), Closed(s, how),
           e \in Outcomes \cup {"checkpoint"} => \E k \in DOMAIN s : s[k] = "job_started",
           \A i \in DOMAIN s : s[i] \in Outcomes =>
               \/ e \in {"wait_started", "switched", "call_failed"}
               \/ s[i] = "job_finished" /\ how2 # "no"
    PROVE  Begun(Append(s, e)) /\ Closed(Append(s, e), how2)
<1> DEFINE t == Append(s, e)
           n == Len(s)
<1>1. /\ t \in Seq(EventTypes) /\ n \in Nat /\ Len(t) = n + 1
      /\ DOMAIN s = 1..n /\ DOMAIN t = 1..(n + 1)
      /\ t[n + 1] = e /\ \A i \in 1..n : t[i] = s[i]
  OBVIOUS
<1> HIDE DEF t, n
<1>2. Begun(t)
  <2> SUFFICES ASSUME NEW i \in 1..(n + 1), t[i] \in Outcomes \cup {"checkpoint"}
               PROVE  \E k \in 1..(i - 1) : t[k] = "job_started"
    BY <1>1 DEF Begun
  <2>1. CASE i = n + 1
    <3>1. PICK k \in 1..n : s[k] = "job_started"
      BY <1>1, <2>1
    <3>2. k \in 1..(i - 1) /\ t[k] = "job_started"
      BY <1>1, <2>1, <3>1
    <3> QED
      BY <3>2
  <2>2. CASE i \in 1..n
    <3>1. PICK k \in 1..(i - 1) : s[k] = "job_started"
      BY <1>1, <2>2 DEF Begun
    <3>2. k \in 1..n
      BY <1>1, <2>2, <3>1
    <3> QED
      BY <1>1, <3>1, <3>2
  <2> QED
    BY <1>1, <2>1, <2>2
<1>3. Closed(t, how2)
  <2> SUFFICES ASSUME NEW i \in 1..(n + 1), t[i] \in Outcomes, NEW k \in (i + 1)..(n + 1)
               PROVE  \/ t[k] \in {"wait_started", "switched", "call_failed"}
                      \/ t[i] = "job_finished" /\ how2 # "no"
    BY <1>1 DEF Closed
  <2>1. i \in 1..n /\ t[i] = s[i]
    BY <1>1
  <2>2. CASE k = n + 1
    BY <1>1, <2>1, <2>2
  <2>3. CASE k # n + 1
    <3>1. k \in (i + 1)..n /\ k \in 1..n
      BY <1>1, <2>1, <2>3
    <3>2. n = Len(s)
      BY DEF n
    <3> QED
      BY <1>1, <2>1, <3>1, <3>2 DEF Closed
  <2> QED
    BY <2>2, <2>3
<1> QED
  BY <1>2, <1>3 DEF t

\* What a publication adds.
LEMMA PublishAdds ==
    ASSUME LogType, NEW c \in Calls, NEW e \in EventTypes, Publish(c, e)
    PROVE  /\ log'[c] = Append(log[c], e)
           /\ Published(c)' = Published(c) \cup {e}
           /\ \A d \in Calls : d # c => log'[d] = log[d]
<1>1. log[c] \in Seq(EventTypes)
  BY DEF LogType
<1>2. log'[c] = Append(log[c], e) /\ \A d \in Calls : d # c => log'[d] = log[d]
  BY DEF LogType, Publish
<1> DEFINE s == log[c]
           t == log'[c]
           n == Len(s)
<1>3. /\ n \in Nat /\ DOMAIN s = 1..n /\ DOMAIN t = 1..(n + 1)
      /\ t[n + 1] = e /\ \A i \in 1..n : t[i] = s[i]
  BY <1>1, <1>2
<1>4. Published(c) = {s[i] : i \in 1..n} /\ Published(c)' = {t[i] : i \in 1..(n + 1)}
  BY <1>3 DEF Published
<1> HIDE DEF s, t, n
<1>5. {t[i] : i \in 1..(n + 1)} = {s[i] : i \in 1..n} \cup {e}
  BY <1>3
<1> QED
  BY <1>2, <1>4, <1>5

\* A call keeps its truth while others step.
LEMMA TruthKept ==
    ASSUME NEW d \in Calls, TruthAt(d), SameAt(d), Onwards(d)
    PROVE  TruthAt(d)'
<1>1. Published(d)' = Published(d)
  BY DEF SameAt, Published
<1>2. OrderOK(d)'
  BY DEF TruthAt, OrderOK, SameAt, Onwards, Begun, Closed
<1> QED
  BY <1>1, <1>2 DEF TruthAt, AnswerOK, UnderwayOK, EventsOK, PlaceOK, SameAt, Onwards

\* The log of a call when an event is published about it.
LEMMA OrderPublish ==
    ASSUME LogType, NEW c \in Calls, NEW e \in EventTypes, Publish(c, e), OrderOK(c),
           adding' = adding,
           Mode[c] # "sync" /\ e \in Outcomes \cup {"checkpoint"} =>
               "job_started" \in Published(c),
           Mode[c] # "sync" => \A o \in Published(c) \cap Outcomes :
               \/ e \in {"wait_started", "switched", "call_failed"}
               \/ o = "job_finished" /\ adding # "no"
    PROVE  OrderOK(c)'
<1> SUFFICES ASSUME Mode[c] # "sync"
             PROVE  Begun(log'[c]) /\ Closed(log'[c], adding)
  BY DEF OrderOK
<1>1. log[c] \in Seq(EventTypes) /\ log'[c] = Append(log[c], e)
  BY PublishAdds DEF LogType
<1>2. \A i \in DOMAIN log[c] : log[c][i] \in Published(c)
  BY DEF Published
<1>3. "job_started" \in Published(c) => \E k \in DOMAIN log[c] : log[c][k] = "job_started"
  BY DEF Published
<1>4. Begun(log[c]) /\ Closed(log[c], adding)
  BY DEF OrderOK
<1> QED
  BY <1>1, <1>2, <1>3, <1>4, OrderGrows
\* What an event of the caller does to the log: the caller only speaks after
\* an outcome of the job with the words that may follow one.
LEMMA CallerSpeaks ==
    ASSUME TypeOK, NEW c \in Calls, TruthAt(c), Agree(c), adding' = adding,
           NEW e \in EventTypes \ (Outcomes \cup {"checkpoint"}), Publish(c, e),
           e \in {"wait_started", "switched", "call_failed"} \/ fut[c] = "none"
    PROVE  OrderOK(c)' /\ Published(c)' = Published(c) \cup {e}
<1>1. Published(c)' = Published(c) \cup {e}
  BY PublishAdds DEF TypeOK, LogType
<1>2. fut[c] = "none" => Published(c) \cap Outcomes = {}
  BY DEF TruthAt, PlaceOK
<1> QED
  BY <1>1, <1>2, OrderPublish DEF TypeOK, LogType, TruthAt

\* A step inside invoke keeps what is told about its call true.
LEMMA CallerTruth ==
    ASSUME TypeOK, NEW c \in Calls, Agree(c), TruthAt(c),
           pc[c] # "returned" => answer[c] = NoAnswer,
           Invoke(c) \/ CallerStep(c)
    PROVE  TruthAt(c)'
<1> DEFINE Silent == UNCHANGED log
<1>0. /\ pc \in [Calls -> CallerSteps] /\ answer \in [Calls -> Answers]
      /\ job \in [Calls -> JobRecord] /\ job[c] \in JobRecord
  BY DEF TypeOK
<1>s. ASSUME UNCHANGED <<log, adding>>
      PROVE  OrderOK(c)' /\ Published(c)' = Published(c)
  BY <1>s DEF OrderOK, Published, TruthAt
<1>t. /\ OrderOK(c) /\ AnswerOK(c) /\ UnderwayOK(c) /\ EventsOK(c) /\ PlaceOK(c)
  BY DEF TruthAt
<1>q. ASSUME UNCHANGED queue
      PROVE  Queued(c)' <=> Queued(c)
  BY <1>q DEF Queued
<1>n. NoAnswer.kind = "none"
  BY DEF NoAnswer
<1>e. {"call_started", "call_failed", "call_finished", "job_started", "wait_started", "switched"}
          \subseteq EventTypes \ (Outcomes \cup {"checkpoint"})
  BY DEF EventTypes, Outcomes
<1> USE DEF AnswerOK, UnderwayOK, EventsOK, PlaceOK, OnlyCaller, poolVars, cancelVars,
            Goto, Return, PublishThen, Fail, Terminal
<1>1. CASE Invoke(c)
  <2>1. PICK e \in {"call_failed", "call_started"} : Publish(c, e)
    BY <1>1 DEF Invoke
  <2>2. OrderOK(c)' /\ Published(c)' = Published(c) \cup {e}
    BY <1>1, <1>e, <2>1, CallerSpeaks DEF Invoke, Agree
  <2> QED
    BY <1>0, <1>t, <1>q, <1>n, <1>1, <2>1, <2>2 DEF Invoke, TruthAt, Agree, JobStates, Outcomes
<1>2. CASE Validate(c)
  <2>1. CASE Fail(c, "schema_error") /\ UNCHANGED job
    <3>1. OrderOK(c)' /\ Published(c)' = Published(c) \cup {"call_failed"}
      BY <1>2, <1>e, <2>1, CallerSpeaks DEF Validate, Agree
    <3> QED
      BY <1>0, <1>t, <1>q, <1>n, <1>2, <2>1, <3>1
         DEF Validate, TruthAt, Agree, JobStates, Outcomes
  <2>2. CASE UNCHANGED log /\ ~(Fail(c, "schema_error") /\ UNCHANGED job)
    <3>1. OrderOK(c)' /\ Published(c)' = Published(c)
      BY <1>s, <1>2, <2>2 DEF Validate
    <3>2. fut[c] = "none" /\ wpc[c] = "idle" /\ job[c].state = "none"
      BY <1>2 DEF Validate, Agree
    <3>3. /\ "job_finished" \notin Published(c) /\ "job_failed" \notin Published(c)
          /\ "job_cancelled" \notin Published(c) /\ Published(c) \cap Outcomes = {}
      BY <1>t, <3>2 DEF Outcomes
    <3>4. /\ pc' = [pc EXCEPT ![c] = "executing"] \/ pc' = [pc EXCEPT ![c] = "starting"]
          /\ pc'[c] = "executing" => job'[c] = job[c]
          /\ pc'[c] = "starting" => job'[c].state = "created"
          /\ UNCHANGED <<answer, fut, wpc, cpc, log, adding, down>> /\ pc[c] = "validating"
      BY <1>0, <1>2, <2>2 DEF Validate, NewJob
    <3>5. pc'[c] \in {"executing", "starting"} /\ answer'[c].kind = "none"
      BY <1>0, <1>n, <3>4
    <3> QED
      BY <1>0, <3>1, <3>2, <3>3, <3>4, <3>5 DEF TruthAt
  <2> QED
    BY <1>2, <2>1, <2>2 DEF Validate
<1>3. CASE SyncReturns(c)
  <2>1. Publish(c, "call_finished")
    BY <1>3 DEF SyncReturns
  <2>2. OrderOK(c)' /\ Published(c)' = Published(c) \cup {"call_finished"}
    BY <1>3, <1>e, <2>1, CallerSpeaks DEF SyncReturns, Agree
  <2> QED
    BY <1>0, <1>t, <1>q, <1>n, <1>3, <2>1, <2>2
       DEF SyncReturns, TruthAt, Agree, JobStates, Outcomes
<1>4. CASE SyncFails(c)
  <2>1. Publish(c, "call_failed")
    BY <1>4 DEF SyncFails
  <2>2. OrderOK(c)' /\ Published(c)' = Published(c) \cup {"call_failed"}
    BY <1>4, <1>e, <2>1, CallerSpeaks DEF SyncFails, Agree
  <2> QED
    BY <1>0, <1>t, <1>q, <1>n, <1>4, <2>1, <2>2
       DEF SyncFails, TruthAt, Agree, JobStates, Outcomes
<1>5. CASE AnnounceJob(c)
  <2>1. Publish(c, "job_started")
    BY <1>5 DEF AnnounceJob
  <2>2. OrderOK(c)' /\ Published(c)' = Published(c) \cup {"job_started"}
    BY <1>5, <1>e, <2>1, CallerSpeaks DEF AnnounceJob, Agree
  <2> QED
    BY <1>0, <1>t, <1>q, <1>n, <1>5, <2>1, <2>2
       DEF AnnounceJob, TruthAt, Agree, JobStates, Outcomes
<1>6. CASE Submit(c)
  <2>1. OrderOK(c)' /\ Published(c)' = Published(c)
    BY <1>s, <1>6 DEF Submit, busVars
  <2>2. CASE down
    BY <1>0, <1>t, <1>q, <1>n, <1>6, <2>1, <2>2 DEF Submit, busVars, TruthAt, Agree, JobStates
  <2>3. CASE ~down
    <3>1. Queued(c)'
      <4>1. queue \in Seq(Calls) /\ queue' = Append(queue, c)
        BY <1>6, <2>3 DEF Submit, TypeOK
      <4>2. Len(queue) + 1 \in DOMAIN queue' /\ queue'[Len(queue) + 1] = c
        BY <4>1
      <4> QED
        BY <4>2 DEF Queued
    <3>2. fut'[c] = "pending" /\ pc'[c] = "assigning"
      BY <1>0, <1>6, <2>3 DEF Submit, TypeOK
    <3> QED
      BY <1>0, <1>t, <1>6, <2>1, <2>3, <3>1, <3>2
         DEF Submit, busVars, TruthAt, Agree, JobStates
  <2> QED
    BY <2>2, <2>3
<1>7. CASE AssignFuture(c)
  <2>1. OrderOK(c)' /\ Published(c)' = Published(c)
    BY <1>s, <1>7 DEF AssignFuture, busVars
  <2> QED
    BY <1>0, <1>t, <1>q, <1>n, <1>7, <2>1
       DEF AssignFuture, busVars, TruthAt, Agree, JobStates, JobRecord
<1>8. CASE AnnounceWait(c)
  <2>1. Publish(c, "wait_started")
    BY <1>8 DEF AnnounceWait
  <2>2. OrderOK(c)' /\ Published(c)' = Published(c) \cup {"wait_started"}
    BY <1>8, <1>e, <2>1, CallerSpeaks DEF AnnounceWait, Agree
  <2> QED
    BY <1>0, <1>t, <1>q, <1>n, <1>8, <2>1, <2>2
       DEF AnnounceWait, TruthAt, Agree, JobStates, Outcomes
<1>9. CASE Poll(c)
  <2>1. OrderOK(c)' /\ Published(c)' = Published(c)
    BY <1>s, <1>9 DEF Poll, busVars
  <2> QED
    BY <1>0, <1>t, <1>q, <1>n, <1>9, <2>1
       DEF Poll, busVars, TruthAt, Agree, JobStates, JobRecord
<1>10. CASE AnswerForeground(c)
  <2>1. CASE UNCHANGED log
    <3>1. OrderOK(c)' /\ Published(c)' = Published(c)
      BY <1>s, <1>10, <2>1 DEF AnswerForeground
    <3> QED
      BY <1>0, <1>t, <1>q, <1>n, <1>10, <2>1, <3>1
         DEF AnswerForeground, TruthAt, Agree, JobStates
  <2>2. CASE job[c].state # "succeeded" /\ Fail(c, job[c].state)
    <3>1. OrderOK(c)' /\ Published(c)' = Published(c) \cup {"call_failed"}
      BY <1>10, <1>e, <2>2, CallerSpeaks DEF AnswerForeground
    <3> QED
      BY <1>0, <1>t, <1>q, <1>n, <1>10, <2>2, <3>1
         DEF AnswerForeground, TruthAt, Agree, JobStates, Outcomes
  <2> QED
    BY <1>10, <2>1, <2>2 DEF AnswerForeground
<1>11. CASE ForegroundTimeout(c)
  <2>1. OrderOK(c)' /\ Published(c)' = Published(c)
    BY <1>s, <1>11 DEF ForegroundTimeout, busVars
  <2> QED
    BY <1>0, <1>t, <1>q, <1>n, <1>11, <2>1
       DEF ForegroundTimeout, busVars, TruthAt, Agree, JobStates, JobRecord
<1>12. CASE AnnounceSwitch(c)
  <2>1. Publish(c, "switched")
    BY <1>12 DEF AnnounceSwitch
  <2>2. OrderOK(c)' /\ Published(c)' = Published(c) \cup {"switched"}
    BY <1>12, <1>e, <2>1, CallerSpeaks DEF AnnounceSwitch, Agree
  <2> QED
    BY <1>0, <1>t, <1>q, <1>n, <1>12, <2>1, <2>2
       DEF AnnounceSwitch, TruthAt, Agree, JobStates, Outcomes
<1>13. CASE AnswerSwitched(c)
  <2>1. OrderOK(c)' /\ Published(c)' = Published(c)
    BY <1>s, <1>13 DEF AnswerSwitched, busVars
  <2> QED
    BY <1>0, <1>t, <1>q, <1>n, <1>13, <2>1
       DEF AnswerSwitched, busVars, TruthAt, Agree, JobStates, JobRecord
<1> QED
  BY <1>1, <1>2, <1>3, <1>4, <1>5, <1>6, <1>7, <1>8, <1>9, <1>10, <1>11, <1>12, <1>13 DEF CallerStep

\* A step of the job's worker keeps it true.
LEMMA WorkerTruth ==
    ASSUME TypeOK, NEW c \in Calls, Agree(c), TruthAt(c), WorkerStep(c)
    PROVE  TruthAt(c)'
<1>0. /\ wpc \in [Calls -> WorkerSteps]
      /\ fut \in [Calls -> {"none", "pending", "running", "cancelled", "finished"}]
      /\ job \in [Calls -> JobRecord] /\ job[c] \in JobRecord
  BY DEF TypeOK
<1>s. ASSUME UNCHANGED <<log, adding>>
      PROVE  OrderOK(c)' /\ Published(c)' = Published(c)
  BY <1>s DEF OrderOK, Published, TruthAt
<1>t. /\ OrderOK(c) /\ AnswerOK(c) /\ UnderwayOK(c) /\ EventsOK(c) /\ PlaceOK(c)
  BY DEF TruthAt
<1>a. UNCHANGED <<pc, answer, cpc, adding, down>> /\ Queued(c)' = Queued(c)
  BY DEF WorkerStep, SetRunning, CheckCancel, ToolFails, SetSucceeded, StoreResult,
         AnnounceFinished, SetFailed, StoreError, ReportFailure, OnlyWorker, callerVars,
         cancelVars, Queued
<1>p. ASSUME NEW e \in Outcomes, Publish(c, e), wpc[c] \notin {"idle", "done"}
      PROVE  OrderOK(c)' /\ Published(c)' = Published(c) \cup {e}
  <2>1. e \in EventTypes
    BY DEF EventTypes, Outcomes
  <2>2. "job_started" \in Published(c)
    BY <1>t, <1>p DEF Agree, PlaceOK
  <2>3. \A o \in Published(c) \cap Outcomes : o = "job_finished" /\ adding # "no"
    BY <1>t, <1>p DEF PlaceOK
  <2>4. OrderOK(c)'
    BY <1>t, <1>a, <1>p, <2>1, <2>2, <2>3, OrderPublish DEF TypeOK, LogType
  <2> QED
    BY <1>p, <2>1, <2>4, PublishAdds DEF TypeOK, LogType
<1> USE DEF AnswerOK, UnderwayOK, EventsOK, PlaceOK, Terminal, WorkerGoto
<1>1. CASE SetRunning(c)
  <2>1. OrderOK(c)' /\ Published(c)' = Published(c)
    BY <1>a, <1>s, <1>1 DEF SetRunning
  <2> QED
    BY <1>0, <1>t, <1>a, <1>1, <2>1 DEF SetRunning, TruthAt, Agree, JobRecord, Outcomes
<1>2. CASE CheckCancel(c)
  <2>1. OrderOK(c)' /\ Published(c)' = Published(c)
    BY <1>a, <1>s, <1>2 DEF CheckCancel
  <2> QED
    BY <1>0, <1>t, <1>a, <1>2, <2>1 DEF CheckCancel, TruthAt, Agree, JobRecord, Outcomes
<1>3. CASE ToolFails(c)
  <2>1. OrderOK(c)' /\ Published(c)' = Published(c)
    BY <1>a, <1>s, <1>3 DEF ToolFails
  <2> QED
    BY <1>0, <1>t, <1>a, <1>3, <2>1 DEF ToolFails, TruthAt, Agree, JobRecord, Outcomes
<1>4. CASE SetSucceeded(c)
  <2>1. OrderOK(c)' /\ Published(c)' = Published(c)
    BY <1>a, <1>s, <1>4 DEF SetSucceeded
  <2> QED
    BY <1>0, <1>t, <1>a, <1>4, <2>1 DEF SetSucceeded, TruthAt, Agree, JobRecord, Outcomes
<1>5. CASE StoreResult(c)
  <2>1. OrderOK(c)' /\ Published(c)' = Published(c)
    BY <1>a, <1>s, <1>5 DEF StoreResult
  <2> QED
    BY <1>0, <1>t, <1>a, <1>5, <2>1 DEF StoreResult, TruthAt, Agree, JobRecord, Outcomes
<1>6. CASE SetFailed(c)
  <2>1. OrderOK(c)' /\ Published(c)' = Published(c)
    BY <1>a, <1>s, <1>6 DEF SetFailed
  <2> QED
    BY <1>0, <1>t, <1>a, <1>6, <2>1 DEF SetFailed, TruthAt, Agree, JobRecord, Outcomes
<1>7. CASE StoreError(c)
  <2>1. OrderOK(c)' /\ Published(c)' = Published(c)
    BY <1>a, <1>s, <1>7 DEF StoreError
  <2> QED
    BY <1>0, <1>t, <1>a, <1>7, <2>1 DEF StoreError, TruthAt, Agree, JobRecord, Outcomes
<1>8. CASE AnnounceFinished(c)
  <2>1. OrderOK(c)' /\ Published(c)' = Published(c) \cup {"job_finished"}
    BY <1>p, <1>8 DEF AnnounceFinished, Outcomes
  <2> QED
    BY <1>0, <1>t, <1>a, <1>8, <2>1
       DEF AnnounceFinished, TruthAt, Agree, Outcomes, BusRaises
<1>9. CASE ReportFailure(c)
  <2>1. PICK e \in {"job_cancelled", "job_failed"} :
            /\ Publish(c, e)
            /\ e = IF job[c].cancel THEN "job_cancelled" ELSE "job_failed"
    BY <1>9 DEF ReportFailure
  <2>2. OrderOK(c)' /\ Published(c)' = Published(c) \cup {e}
    BY <1>p, <1>9, <2>1 DEF ReportFailure, Outcomes
  <2>3. e = "job_failed" => job[c].state = "failed"
    BY <1>9, <2>1 DEF ReportFailure, Agree
  <2> QED
    BY <1>0, <1>t, <1>a, <1>9, <2>1, <2>2, <2>3 DEF ReportFailure, TruthAt, Agree, Outcomes
<1> QED
  BY <1>1, <1>2, <1>3, <1>4, <1>5, <1>6, <1>7, <1>8, <1>9 DEF WorkerStep

\* So do the steps of whoever else acts on the job.
LEMMA OtherTruth ==
    ASSUME TypeOK, NEW c \in Calls, Agree(c), TruthAt(c),
           pc[c] # "returned" => answer[c] = NoAnswer,
           Checkpoint(c) \/ RequestCancel(c) \/ CancelStep(c) \/ SwitchToBackground(c)
    PROVE  TruthAt(c)'
<1>0. /\ pc \in [Calls -> CallerSteps] /\ wpc \in [Calls -> WorkerSteps]
      /\ fut \in [Calls -> {"none", "pending", "running", "cancelled", "finished"}]
      /\ cpc \in [Calls -> {"idle", "checking", "marking"}]
      /\ job \in [Calls -> JobRecord] /\ job[c] \in JobRecord
  BY DEF TypeOK
<1>s. ASSUME UNCHANGED <<log, adding>>
      PROVE  OrderOK(c)' /\ Published(c)' = Published(c)
  BY <1>s DEF OrderOK, Published, TruthAt
<1>t. /\ OrderOK(c) /\ AnswerOK(c) /\ UnderwayOK(c) /\ EventsOK(c) /\ PlaceOK(c)
  BY DEF TruthAt
<1>a. UNCHANGED <<answer, queue, adding, down>> /\ Queued(c)' = Queued(c)
  BY DEF Checkpoint, RequestCancel, CancelStep, TryCancelFuture, MarkCancelled,
         SwitchToBackground, callerVars, poolVars, busVars, cancelVars, Queued
<1> USE DEF AnswerOK, UnderwayOK, EventsOK, PlaceOK, Terminal
<1>1. CASE Checkpoint(c)
  <2>1. Publish(c, "checkpoint") /\ (pc[c] = "executing" \/ wpc[c] = "executing")
    BY <1>1 DEF Checkpoint
  <2>2. Published(c)' = Published(c) \cup {"checkpoint"}
    BY <2>1, PublishAdds DEF TypeOK, LogType, EventTypes
  <2>3. Mode[c] # "sync" => wpc[c] = "executing" /\ "job_started" \in Published(c)
    BY <1>t, <2>1 DEF Agree
  <2>4. OrderOK(c)'
    BY <1>t, <1>a, <2>1, <2>3, OrderPublish DEF TypeOK, LogType, EventTypes
  <2>5. /\ UNCHANGED <<job, fut, cpc>>
        /\ pc'[c] # pc[c] => pc[c] = "executing" /\ pc'[c] = "reporting"
        /\ wpc'[c] # wpc[c] => wpc[c] = "executing" /\ wpc'[c] = "failing"
    BY <1>0, <1>1 DEF Checkpoint, WorkerGoto, cancelVars
  <2> QED
    BY <1>0, <1>t, <1>a, <2>1, <2>2, <2>4, <2>5 DEF TruthAt, Agree, Outcomes
<1>2. CASE RequestCancel(c)
  <2>1. OrderOK(c)' /\ Published(c)' = Published(c)
    BY <1>s, <1>2 DEF RequestCancel, busVars
  <2> QED
    BY <1>0, <1>t, <1>a, <1>2, <2>1
       DEF RequestCancel, TruthAt, Agree, JobRecord, callerVars, poolVars
<1>3. CASE TryCancelFuture(c)
  <2>1. OrderOK(c)' /\ Published(c)' = Published(c)
    BY <1>s, <1>3 DEF TryCancelFuture, busVars
  <2> QED
    BY <1>0, <1>t, <1>a, <1>3, <2>1 DEF TryCancelFuture, TruthAt, Agree, callerVars
<1>4. CASE MarkCancelled(c)
  <2>1. OrderOK(c)' /\ Published(c)' = Published(c)
    BY <1>s, <1>4 DEF MarkCancelled, busVars
  <2> QED
    BY <1>0, <1>t, <1>a, <1>4, <2>1
       DEF MarkCancelled, TruthAt, Agree, JobRecord, callerVars, poolVars, Outcomes
<1>5. CASE SwitchToBackground(c)
  <2>1. OrderOK(c)' /\ Published(c)' = Published(c)
    BY <1>s, <1>5 DEF SwitchToBackground, busVars
  <2> QED
    BY <1>0, <1>t, <1>a, <1>5, <2>1
       DEF SwitchToBackground, TruthAt, Agree, JobRecord, callerVars, poolVars, cancelVars
<1> QED
  BY <1>1, <1>2, <1>3, <1>4, <1>5 DEF CancelStep

\* Every step keeps it for every call: the steps of one call do not reach the
\* others, and pool, bus and shutdown only go forward.
LEMMA TruthStep ==
    ASSUME TypeOK, Agreement, Unanswered, Truth, [Next]_vars, NEW d \in Calls
    PROVE  TruthAt(d)'
<1>0. Agree(d) /\ TruthAt(d)
  BY DEF Agreement, Truth
<1>t. /\ pc \in [Calls -> CallerSteps] /\ answer \in [Calls -> Answers]
      /\ job \in [Calls -> JobRecord] /\ wpc \in [Calls -> WorkerSteps]
      /\ fut \in [Calls -> {"none", "pending", "running", "cancelled", "finished"}]
      /\ cpc \in [Calls -> {"idle", "checking", "marking"}]
      /\ log \in [Calls -> Seq(EventTypes)] /\ queue \in Seq(Calls)
  BY DEF TypeOK
<1>k. ASSUME SameAt(d), Onwards(d)
      PROVE  TruthAt(d)'
  BY <1>0, <1>k, TruthKept
<1>o. ASSUME UNCHANGED <<queue, adding, down>>
      PROVE  Onwards(d)
  BY <1>o DEF Onwards, Queued
<1>1. ASSUME NEW c \in Calls, Invoke(c) \/ CallerStep(c)
      PROVE  TruthAt(d)'
  <2>1. CASE c = d
    BY <1>0, <1>1, <2>1, CallerTruth DEF Unanswered
  <2>2. CASE c # d
    <3>1. SameAt(d)
      BY <1>t, <1>1, <2>2
         DEF SameAt, Invoke, CallerStep, Validate, SyncReturns, SyncFails, AnnounceJob, Submit,
             AssignFuture, AnnounceWait, Poll, AnswerForeground, ForegroundTimeout,
             AnnounceSwitch, AnswerSwitched, OnlyCaller, poolVars, cancelVars, busVars, Goto,
             Return, PublishThen, Fail, Publish
    <3>2. Onwards(d)
      <4>1. CASE Submit(c) /\ ~down
        <5>1. queue' = Append(queue, c) /\ UNCHANGED <<adding, down>>
          BY <4>1 DEF Submit, busVars
        <5>2. Queued(d) => Queued(d)'
          <6>1. \A i \in DOMAIN queue : i \in DOMAIN queue' /\ queue'[i] = queue[i]
            BY <1>t, <5>1
          <6> QED
            BY <6>1 DEF Queued
        <5> QED
          BY <5>1, <5>2 DEF Onwards
      <4>2. CASE ~(Submit(c) /\ ~down)
        BY <1>1, <1>o, <4>2
           DEF Invoke, CallerStep, Validate, SyncReturns, SyncFails, AnnounceJob, Submit,
               AssignFuture, AnnounceWait, Poll, AnswerForeground, ForegroundTimeout,
               AnnounceSwitch, AnswerSwitched, OnlyCaller, poolVars, cancelVars, busVars
      <4> QED
        BY <4>1, <4>2
    <3> QED
      BY <1>k, <3>1, <3>2
  <2> QED
    BY <2>1, <2>2
<1>2. ASSUME NEW c \in Calls, WorkerStep(c)
      PROVE  TruthAt(d)'
  <2>1. CASE c = d
    BY <1>0, <1>2, <2>1, WorkerTruth
  <2>2. CASE c # d
    <3>1. SameAt(d) /\ UNCHANGED <<queue, adding, down>>
      BY <1>t, <1>2, <2>2
         DEF SameAt, WorkerStep, SetRunning, CheckCancel, ToolFails, SetSucceeded, StoreResult,
             AnnounceFinished, SetFailed, StoreError, ReportFailure, OnlyWorker, callerVars,
             cancelVars, Publish, WorkerGoto
    <3> QED
      BY <1>k, <1>o, <3>1
  <2> QED
    BY <2>1, <2>2
<1>3. ASSUME NEW c \in Calls,
             Checkpoint(c) \/ RequestCancel(c) \/ CancelStep(c) \/ SwitchToBackground(c)
      PROVE  TruthAt(d)'
  <2>1. CASE c = d
    BY <1>0, <1>3, <2>1, OtherTruth DEF Unanswered
  <2>2. CASE c # d
    <3>1. SameAt(d) /\ UNCHANGED <<queue, adding, down>>
      BY <1>t, <1>3, <2>2
         DEF SameAt, Checkpoint, RequestCancel, CancelStep, TryCancelFuture, MarkCancelled,
             SwitchToBackground, callerVars, poolVars, busVars, cancelVars, Publish, WorkerGoto
    <3> QED
      BY <1>k, <1>o, <3>1
  <2> QED
    BY <2>1, <2>2
<1>4. CASE TakeWork
  <2>1. Head(queue) \in Calls /\ Tail(queue) \in Seq(Calls) /\ queue # <<>>
    BY <1>4 DEF TakeWork, TypeOK
  <2>2. /\ UNCHANGED <<pc, answer, job, cpc, log, adding, down>>
        /\ queue' = Tail(queue)
    BY <1>4 DEF TakeWork, callerVars, cancelVars, busVars
  <2>3. \A e \in Calls : Queued(e) => e = Head(queue) \/ Queued(e)'
    <3> SUFFICES ASSUME NEW e \in Calls, Queued(e), e # Head(queue)
                 PROVE  \E i \in DOMAIN Tail(queue) : Tail(queue)[i] = e
      BY <2>2 DEF Queued
    <3>1. PICK i \in DOMAIN queue : queue[i] = e
      BY DEF Queued
    <3>2. i # 1 /\ queue[1] = Head(queue)
      BY <2>1, <3>1
    <3>3. i - 1 \in DOMAIN Tail(queue) /\ Tail(queue)[i - 1] = e
      BY <1>t, <2>1, <3>1, <3>2
    <3> QED
      BY <3>3
  <2>4. CASE d = Head(queue) /\ fut[d] = "pending" /\ wpc'[d] = "starting"
    <3>1. OrderOK(d)' /\ Published(d)' = Published(d) /\ fut'[d] = "running"
      BY <1>0, <1>t, <1>4, <2>2, <2>4 DEF TakeWork, OrderOK, Published, TruthAt
    <3> QED
      BY <1>0, <2>2, <2>4, <3>1
         DEF TruthAt, AnswerOK, UnderwayOK, EventsOK, PlaceOK, Agree, Outcomes
  <2>5. CASE d = Head(queue) /\ UNCHANGED <<fut, wpc>> /\ fut[d] = "cancelled"
    BY <1>k, <2>2, <2>5 DEF SameAt, Onwards
  <2>6. CASE d # Head(queue)
    <3>1. fut'[d] = fut[d] /\ wpc'[d] = wpc[d]
      BY <1>t, <1>4, <2>1, <2>6 DEF TakeWork
    <3> QED
      BY <1>k, <2>2, <2>3, <2>6, <3>1 DEF SameAt, Onwards
  <2> QED
    BY <1>t, <1>4, <2>4, <2>5, <2>6 DEF TakeWork
<1>5. CASE Subscribe
  <2>1. SameAt(d) /\ Onwards(d)
    BY <1>5 DEF Subscribe, SameAt, Onwards, callerVars, poolVars, cancelVars, Queued
  <2> QED
    BY <1>k, <2>1
<1>6. CASE Shutdown
  <2>1. /\ UNCHANGED <<pc, answer, job, wpc, cpc, log, adding>> /\ down'
        /\ fut'[d] = "none" <=> fut[d] = "none"
    BY <1>6 DEF Shutdown, callerVars, cancelVars, busVars
  <2>2. OrderOK(d)' /\ Published(d)' = Published(d)
    BY <1>0, <2>1 DEF OrderOK, Published, TruthAt
  <2> QED
    BY <1>0, <2>1, <2>2 DEF TruthAt, AnswerOK, UnderwayOK, EventsOK, PlaceOK
<1>7. CASE UNCHANGED vars
  <2>1. SameAt(d) /\ Onwards(d)
    BY <1>7 DEF vars, callerVars, poolVars, cancelVars, busVars, SameAt, Onwards, Queued
  <2> QED
    BY <1>k, <2>1
<1> QED
  BY <1>1, <1>2, <1>3, <1>4, <1>5, <1>6, <1>7 DEF Next

\* Nothing is told before anything is done.
LEMMA InitTruth == Init => Truth
BY DEF Init, Truth, TruthAt, AnswerOK, UnderwayOK, EventsOK, OrderOK, PlaceOK, Begun, Closed,
       Published, NoAnswer, NoJob, NewJob

\* Truth is kept by the specification.
LEMMA TruthCorrect == Spec => []Truth
<1>1. TypeOK /\ Agreement /\ Unanswered /\ Truth /\ [Next]_vars => Truth'
  BY TruthStep DEF Truth
<1> QED
  BY <1>1, InitTruth, TypeCorrect, AgreementCorrect, UnansweredCorrect, PTL DEF Spec

\* What a caller was told of its job is what the record says from then on, and
\* no record that says "created" is forgotten, whatever is read without a lock.
THEOREM RecordTrue == Spec => []RecordIsTrue
<1>1. Truth => RecordIsTrue
  BY DEF Truth, TruthAt, AnswerOK, UnderwayOK, Queued, RecordIsTrue, AnswerMatchesJob,
         CreatedIsUnderway
<1> QED
  BY <1>1, TruthCorrect, PTL

\* The events a subscriber sees agree with the record and come in order.
THEOREM AnnouncementsTrue == Spec => []Announcements
<1>1. Truth => EventsAgree
  BY DEF Truth, TruthAt, EventsOK, EventsAgree
<1>2. Truth => LogInOrder
  BY DEF Truth, TruthAt, OrderOK, Begun, Closed, LogInOrder, WaitingCallers
<1> QED
  BY <1>1, <1>2, TruthCorrect, PTL DEF Announcements

=============================================================================
