--------------------------- MODULE MCHiveDispatch ---------------------------
(* Instances for TLC: HiveDispatch, and AgentLoop, which shows what goes   *)
(* on inside one of its runs.                                              *)
EXTENDS HiveDispatch, AgentLoop, TLC

CONSTANTS orchestrator, secretary, feishu, loop, bridge

\* The orchestrator, a business agent and the Feishu tool agent.
ThreeAgents  == {orchestrator, secretary, feishu}
Orchestrator == {orchestrator}
ToolAgent    == {feishu}
\* Every agent but the secretary writes its summaries, so that both occur.
Rememberers  == {orchestrator, feishu}

LoopAndBridge == {loop, bridge}

\* Two events one after the other that lead to many runs; an event each for two
\* dispatchers at the same time; and no event, for a look into one run.
Deep == [children |-> [a \in ThreeAgents |-> 2], actions |-> 3,
         events   |-> [d \in LoopAndBridge |-> IF d = loop THEN 2 ELSE 0]]
Wide == [children |-> [a \in ThreeAgents |-> 1], actions |-> 1,
         events   |-> [d \in LoopAndBridge |-> 1]]
Quiet == [Wide EXCEPT !.events = [d \in LoopAndBridge |-> 0]]

AllLoads == {Deep, Wide, Quiet}

MCInit == Init /\ LoopInit

MCNext ==
    \/ load # Quiet /\ Next /\ UNCHANGED loopVars
    \/ load = Quiet /\ LoopNext /\ UNCHANGED vars

MCSpec ==
    /\ MCInit /\ [][MCNext]_<<vars, loopVars>>
    /\ \A d \in Dispatchers : WF_vars(Step(d))
    /\ WF_loopVars(LoopStep)

\* Nothing that an event starts goes on for ever: neither its dispatch nor, when
\* the model never decides to finish, a run.
EverythingEnds == EveryDispatchEnds /\ RunEndsInTime

=============================================================================
