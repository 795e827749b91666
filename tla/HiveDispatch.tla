---------------------------- MODULE HiveDispatch ----------------------------
(***************************************************************************)
(* agent_hive.runtime: HiveRuntime.dispatch, which runs a root agent for   *)
(* an event, then the agents it asks for and the tool agents both delegate *)
(* to; AgentRunner.run with the AgentSession of every run; and the         *)
(* shutdown of serve around the dispatches in progress.                    *)
(*                                                                         *)
(* A dispatch is run by the daemon's loop, by the Feishu bridge of serve,  *)
(* or by another caller, all tasks of one event loop: a task is left only  *)
(* while an agent works (at = "running") or between two events.  (ImBridge *)
(* shows that today's bridge dies before its first dispatch; here it does  *)
(* what it is written for.)                                                *)
(*                                                                         *)
(* What an agent puts into its output comes from a language model: any     *)
(* output its class can build is possible.  Left out: payloads, contexts,  *)
(* the steps an agent logs, and how targets are written; a target that no  *)
(* lookup accepts is Nobody.                                               *)
(***************************************************************************)
EXTENDS Naturals, Sequences, FiniteSets, SequencesExt

CONSTANTS
    Agents,         \* the configured agents
    Orchestrators,  \* those with entrypoint orchestrator
    ToolAgents,     \* those with entrypoint tool_agent
    Remembers,      \* those whose run summaries are written to memory
    Dispatchers,    \* the tasks that call dispatch
    Loop,           \* the daemon's dispatch loop, which serve stops first
    Nobody,         \* a target that leads to an exception
    MaxIntents,     \* bound: tool intents in one output
    Loads           \* what is configured, and the bounds of the rest: a set of
                    \* records with the fields below

ASSUME ConstantsAssumption ==
    /\ Orchestrators \subseteq Agents
    /\ ToolAgents \subseteq Agents \ Orchestrators
    /\ Remembers \subseteq Agents
    /\ Loop \in Dispatchers
    /\ Nobody \notin Agents
    /\ MaxIntents \in Nat
    /\ \A l \in Loads :
          /\ l.children \in [Agents -> Nat \ {0}]  \* runtime_limits.max_child_runs
          /\ l.actions \in Nat \ {0}              \* bound: actions in one output
          /\ l.events \in [Dispatchers -> Nat]    \* bound: events of each dispatcher

VARIABLES
    at,        \* where each dispatcher's task stands
    events,    \* how many events it was handed
    sessions,  \* the AgentSessions of its event, in the order they were created
    todo,      \* the actions and intents still to be carried out, in order
    outcome,   \* how dispatch ended
    saved,     \* the sessions whose summary is in the memory store
    cancelled, \* the tasks that Task.cancel was called on
    serving,   \* "up", "stopping" (daemon.stop), "closed" (memory store closed)
    load       \* one of the Loads

taskVars == <<at, events, outcome>>
runVars  == <<sessions, todo, saved>>
vars     == <<taskVars, runVars, cancelled, serving, load>>

-----------------------------------------------------------------------------
Targets == Agents \cup {Nobody}

Session(agent, kind, parent) ==
    [agent |-> agent, kind |-> kind, parent |-> parent, status |-> "running"]

Item(kind, parent) == [target |-> Nobody, kind |-> kind, parent |-> parent]
Items(targets, kind, parent) ==
    [i \in DOMAIN targets |-> [Item(kind, parent) EXCEPT !.target = targets[i]]]

\* LLMAgent proposes no actions and ToolAgent nothing at all; an orchestrator
\* that decides on no action falls back to one.
Outputs(a) ==
    [actions : IF a \in Orchestrators THEN SeqOf(Targets, load.actions) \ {<<>>} ELSE {<<>>},
     intents : IF a \in ToolAgents THEN {<<>>} ELSE SeqOf(Targets, MaxIntents)]

Current(d) == Len(sessions[d])
Root(d)    == sessions[d][1]

Init ==
    /\ at        = [d \in Dispatchers |-> "idle"]
    /\ events    = [d \in Dispatchers |-> 0]
    /\ outcome   = [d \in Dispatchers |-> "none"]
    /\ sessions  = [d \in Dispatchers |-> <<>>]
    /\ todo      = [d \in Dispatchers |-> <<>>]
    /\ saved     = [d \in Dispatchers |-> {}]
    /\ cancelled = {}
    /\ serving   = "up"
    /\ load     \in Loads

\* The event loop lets a task go on until it waits.
Scheduled(d) == \A e \in Dispatchers \ {d} : at[e] # "next"

End(d, how) ==
    /\ at' = [at EXCEPT ![d] = "idle"]
    /\ outcome' = [outcome EXCEPT ![d] = how]

\* AgentRunner.run up to its first await: an unknown agent raises before there
\* is a session.
Start(d, agent, kind, parent) ==
    /\ sessions' = [sessions EXCEPT ![d] = Append(@, Session(agent, kind, parent))]
    /\ at' = [at EXCEPT ![d] = "running"]
    /\ UNCHANGED outcome

-----------------------------------------------------------------------------
\* dispatch is called: the root is the event's target, the orchestrator or the
\* first subscriber.
Dispatch(d) ==
    /\ at[d] = "idle"
    /\ events[d] < load.events[d]
    /\ d \notin cancelled
    /\ Scheduled(d)
    /\ events' = [events EXCEPT ![d] = @ + 1]
    /\ todo' = [todo EXCEPT ![d] = <<>>]
    /\ saved' = [saved EXCEPT ![d] = {}]
    /\ \/ /\ sessions' = [sessions EXCEPT ![d] = <<>>]
          /\ End(d, "raised")
       \/ \E root \in Agents :
             /\ sessions' = [sessions EXCEPT ![d] = <<Session(root, "root", 0)>>]
             /\ at' = [at EXCEPT ![d] = "running"]
             /\ outcome' = [outcome EXCEPT ![d] = "none"]
    /\ UNCHANGED <<cancelled, serving, load>>

\* The first actions of an output, as many as the agent may start.
CutOff(d, actions) ==
    LET room == load.children[sessions[d][Current(d)].agent] IN
    SubSeq(actions, 1, IF Len(actions) < room THEN Len(actions) ELSE room)

\* The work an output adds: the root's actions before its intents; a child's
\* intents before whatever else is left; the actions of a child and everything
\* a tool agent says are ignored.
FollowWith(d, actions, intents, later) ==
    LET n     == Current(d)
        tools == Items(intents, "tool", n)
    IN  CASE sessions[d][n].kind = "root"  -> Items(actions, "child", n) \o tools
          [] sessions[d][n].kind = "child" -> IF later THEN todo[d] \o tools ELSE tools \o todo[d]
          [] sessions[d][n].kind = "tool"  -> todo[d]

\* MUTANT: the actions are not cut off.
FollowUncut(d, out) == FollowWith(d, out.actions, out.intents, FALSE)

\* MUTANT: the intents of a child are put off to the end.
FollowLater(d, out) == FollowWith(d, CutOff(d, out.actions), out.intents, TRUE)

Follow(d, out) == FollowWith(d, CutOff(d, out.actions), out.intents, FALSE)

\* The agent comes back, the session is marked and its summary written, if
\* there is one: a tool result may come without.
RunSucceeds(d) ==
    /\ at[d] = "running"
    /\ d \notin cancelled
    /\ Scheduled(d)
    /\ LET n == Current(d)
           a == sessions[d][n].agent
       IN  /\ \E out \in Outputs(a) : todo' = [todo EXCEPT ![d] = Follow(d, out)]
           /\ sessions' = [sessions EXCEPT ![d][n].status = "success"]
           /\ \/ a \in Remembers /\ serving # "closed"
                 /\ saved' = [saved EXCEPT ![d] = @ \cup {n}]
              \/ a \notin Remembers \ ToolAgents /\ UNCHANGED saved
    /\ at' = [at EXCEPT ![d] = "next"]
    /\ UNCHANGED <<events, outcome, cancelled, serving, load>>

\* The current run is over with an exception.
RunEnds(d, status) ==
    /\ at[d] = "running"
    /\ d \notin cancelled
    /\ Scheduled(d)
    /\ sessions' = [sessions EXCEPT ![d][Current(d)].status = status]
    /\ UNCHANGED <<events, todo, saved, cancelled, serving, load>>

\* MUTANT: a summary that could not be written leaves the session a success.
RunFailsQuietly(d) ==
    /\ RunEnds(d, IF sessions[d][Current(d)].agent \in Remembers THEN "success" ELSE "failed")
    /\ End(d, "raised")

\* MUTANT: a failed run is skipped and the dispatch goes on.
RunFailsSkipped(d) ==
    /\ RunEnds(d, "failed")
    /\ at' = [at EXCEPT ![d] = "next"]
    /\ UNCHANGED outcome

\* An exception of the agent or, after mark_success, of the summary's write:
\* the session is marked failed and the dispatch ends with the exception.
RunFails(d) == RunEnds(d, "failed") /\ End(d, "raised")

\* What cannot be resolved, and what dispatch refuses to run again.
Unknown(item)      == item.target = Nobody
Recursive(d, item) == item.kind = "child" /\ item.target = Root(d).agent

\* The next action or intent is run, or refused with an exception.
Proceed(d, refused) ==
    /\ at[d] = "next"
    /\ todo[d] # <<>>
    /\ todo' = [todo EXCEPT ![d] = Tail(@)]
    /\ LET item == Head(todo[d]) IN
         IF refused THEN End(d, "raised") /\ UNCHANGED sessions
                    ELSE Start(d, item.target, item.kind, item.parent)
    /\ UNCHANGED <<events, saved, cancelled, serving, load>>

\* MUTANT: an action may name the agent that proposed it.
RunNextRecursive(d) == Proceed(d, Unknown(Head(todo[d])))

\* MUTANT: the target is not looked up before its session is created.
RunNextUnchecked(d) == Proceed(d, Recursive(d, Head(todo[d])))

RunNext(d) == Proceed(d, Unknown(Head(todo[d])) \/ Recursive(d, Head(todo[d])))

Return(d) ==
    /\ at[d] = "next"
    /\ todo[d] = <<>>
    /\ End(d, "returned")
    /\ UNCHANGED <<events, runVars, cancelled, serving, load>>

\* MUTANT: a cancellation is only looked at between two events.
InterruptedBetweenEvents(d) ==
    /\ d \in cancelled
    /\ at[d] = "idle"
    /\ Scheduled(d)
    /\ at' = [at EXCEPT ![d] = "ended"]
    /\ UNCHANGED <<events, outcome, runVars, cancelled, serving, load>>

\* CancelledError is no Exception: nothing marks the session.
Interrupted(d) ==
    /\ d \in cancelled
    /\ at[d] \in {"idle", "running"}
    /\ Scheduled(d)
    /\ at' = [at EXCEPT ![d] = "ended"]
    /\ outcome' = IF at[d] = "running" THEN [outcome EXCEPT ![d] = "cancelled"] ELSE outcome
    /\ UNCHANGED <<events, runVars, cancelled, serving, load>>

-----------------------------------------------------------------------------
(* The end of serve: daemon.stop cancels the dispatch loop and waits for   *)
(* it; then the bridge is cancelled and, without an await in between, the  *)
(* memory store closed.                                                    *)
StopDaemon ==
    /\ serving = "up"
    /\ \A d \in Dispatchers : at[d] # "next"
    /\ serving' = "stopping"
    /\ cancelled' = cancelled \cup {Loop}
    /\ UNCHANGED <<taskVars, runVars, load>>

\* MUTANT: the store is closed under the dispatches of the bridge.
CloseRuntimeFirst ==
    /\ serving = "stopping"
    /\ at[Loop] = "ended"
    /\ \A d \in Dispatchers : at[d] # "next"
    /\ serving' = "closed"
    /\ UNCHANGED <<taskVars, runVars, cancelled, load>>

CloseRuntime ==
    /\ serving = "stopping"
    /\ at[Loop] = "ended"
    /\ \A d \in Dispatchers : at[d] # "next"
    /\ serving' = "closed"
    /\ cancelled' = Dispatchers
    /\ UNCHANGED <<taskVars, runVars, load>>

-----------------------------------------------------------------------------
Step(d) == RunSucceeds(d) \/ RunFails(d) \/ RunNext(d) \/ Return(d) \/ Interrupted(d)

Next ==
    \/ \E d \in Dispatchers : Dispatch(d) \/ Step(d)
    \/ StopDaemon \/ CloseRuntime

Spec == Init /\ [][Next]_vars

\* Agent runs come to an end (the clients of models and of Feishu have
\* timeouts) and tasks that are ready run.  Nobody has to dispatch or stop.
FairSpec == Spec /\ \A d \in Dispatchers : WF_vars(Step(d))

-----------------------------------------------------------------------------
Sessions == [agent : Agents, kind : {"root", "child", "tool"}, parent : Nat,
             status : {"running", "success", "failed"}]

TypeOK ==
    /\ at \in [Dispatchers -> {"idle", "running", "next", "ended"}]
    /\ events \in [Dispatchers -> Nat]
    /\ \A d \in Dispatchers : events[d] <= load.events[d]
    /\ outcome \in [Dispatchers -> {"none", "returned", "raised", "cancelled"}]
    /\ sessions \in [Dispatchers -> Seq(Sessions)]
    /\ todo \in [Dispatchers ->
                    Seq([target : Targets, kind : {"child", "tool"}, parent : Nat])]
    /\ saved \in [Dispatchers -> SUBSET (Nat \ {0})]
    /\ cancelled \subseteq Dispatchers
    /\ serving \in {"up", "stopping", "closed"}

\* The runs of an event form the tree the runtime intends: one root; children
\* of the root that are not the root's agent; tool runs under the root or a
\* child; a run starts only after the one it belongs to has succeeded.
TreeShape ==
    \A d \in Dispatchers : \A i \in DOMAIN sessions[d] :
        LET s == sessions[d][i] IN
        IF i = 1 THEN s.kind = "root" /\ s.parent = 0
        ELSE /\ s.parent \in 1..(i - 1)
             /\ sessions[d][s.parent].status = "success"
             /\ s.kind = "child" => s.parent = 1 /\ s.agent # Root(d).agent
             /\ s.kind = "tool" => sessions[d][s.parent].kind # "tool"

\* Whatever the models put into their outputs, an event leads to a bounded
\* number of runs: delegation does not feed on itself.
RunsBounded ==
    \A d \in Dispatchers : sessions[d] # <<>> =>
        Len(sessions[d]) <=
            1 + load.children[Root(d).agent] * (1 + MaxIntents) + MaxIntents

\* The tool runs of a child come directly after it: a child's intents are
\* carried out before the next action starts, so the next agent finds them done.
IntentsBeforeNextAction ==
    \A d \in Dispatchers : \A i, j \in DOMAIN sessions[d] :
        (i < j /\ sessions[d][j].kind = "child") =>
            \A k \in DOMAIN todo[d] : todo[d][k].parent = i => i = 1

\* The runs of an event are the bounded tree that the runtime intends, in the order
\* it intends, whatever the models put into their outputs.
RunTree == TreeShape /\ RunsBounded /\ IntentsBeforeNextAction

\* A failure is the last thing that happens to an event, and says so: no run
\* follows a failed one, a dispatch that returned has only successes behind
\* it, and one that is over has no run open unless it was cancelled.
FailureEnds ==
    \A d \in Dispatchers :
        /\ \A i \in DOMAIN sessions[d] :
              /\ sessions[d][i].status = "failed" => i = Current(d) /\ outcome[d] = "raised"
              /\ sessions[d][i].status = "running" =>
                     i = Current(d) /\ (at[d] = "running" \/ outcome[d] = "cancelled")
        /\ outcome[d] = "returned" =>
              /\ todo[d] = <<>>
              /\ \A i \in DOMAIN sessions[d] : sessions[d][i].status = "success"

\* The memory store remembers the runs whose sessions are successes and no
\* others, although the summary is written after the session was marked.
SummariesMatch ==
    \A d \in Dispatchers : \A i \in DOMAIN sessions[d] :
        LET s == sessions[d][i] IN
        /\ i \in saved[d] => s.status = "success"
        /\ s.status = "success" /\ s.agent \in Remembers \ ToolAgents => i \in saved[d]

\* Sessions and the memory store say of each run how it ended, also when the run
\* fails after it was marked a success, or is cancelled.
SessionsTellTheTruth == FailureEnds /\ SummariesMatch

\* Once the runtime is shut down no run starts, ends or fails for lack of its
\* memory store, although the bridge's task is cancelled without being awaited.
ClosedMeansQuiet == [][serving = "closed" => UNCHANGED runVars]_vars

\* Every event is done with: its dispatch returns, raises or is cancelled.
EveryDispatchEnds ==
    \A d \in Dispatchers : at[d] \in {"running", "next"} ~> at[d] \in {"idle", "ended"}

=============================================================================
