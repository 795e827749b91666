------------------------- MODULE HiveDispatchProofs -------------------------
(***************************************************************************)
(* Proofs about HiveDispatch, for any agents, any number of dispatchers    *)
(* and events, any limits on child runs, and outputs of any size; and      *)
(* about AgentLoop, for any number of steps and calls and any budget of    *)
(* the context.                                                            *)
(***************************************************************************)
EXTENDS HiveDispatch, AgentLoop, ListTheorems, FiniteSetTheorems

-----------------------------------------------------------------------------
(* The inductive invariant, dispatcher by dispatcher.                      *)

Works == [target : Targets, kind : {"child", "tool"}, parent : Nat]

\* Where the task stands says which sessions are open and how dispatch ended.
StatusOK(d) ==
    /\ at[d] \in {"running", "next"} => sessions[d] # <<>> /\ outcome[d] = "none"
    /\ at[d] = "running" => sessions[d][Current(d)].status = "running"
    /\ \A i \in DOMAIN sessions[d] :
          /\ sessions[d][i].status = "failed" => i = Current(d) /\ outcome[d] = "raised"
          /\ sessions[d][i].status = "running" =>
                 i = Current(d) /\ (at[d] = "running" \/ outcome[d] = "cancelled")
    /\ outcome[d] = "returned" => todo[d] = <<>>

SavedOK(d) ==
    /\ saved[d] \subseteq DOMAIN sessions[d]
    /\ \A i \in DOMAIN sessions[d] :
          LET s == sessions[d][i] IN
          /\ i \in saved[d] => s.status = "success"
          /\ s.status = "success" /\ s.agent \in Remembers \ ToolAgents => i \in saved[d]

\* The sessions are a tree, and the work that is left belongs to runs that
\* have succeeded and that are no tool runs.
TreeOK(d) ==
    /\ \A i \in DOMAIN sessions[d] :
          LET s == sessions[d][i] IN
          IF i = 1 THEN s.kind = "root" /\ s.parent = 0
          ELSE /\ s.parent \in 1..(i - 1)
               /\ sessions[d][s.parent].status = "success"
               /\ s.kind = "child" => s.parent = 1 /\ s.agent # Root(d).agent
               /\ s.kind = "tool" => sessions[d][s.parent].kind # "tool"
    /\ \A k \in DOMAIN todo[d] :
          LET p == todo[d][k].parent IN
          /\ p \in DOMAIN sessions[d]
          /\ sessions[d][p].status = "success" /\ sessions[d][p].kind # "tool"

Bound(d) == 1 + load.children[Root(d).agent] * (1 + MaxIntents) + MaxIntents

\* What is left is, in this order: a intents of the last child, b actions of
\* the root, and intents of the root.  Each of the actions may still bring
\* MaxIntents more, and so may a child that is at work.
PlanOK(d, a, b) ==
    /\ a + b <= Len(todo[d])
    /\ \A k \in DOMAIN todo[d] :
          LET item == todo[d][k] IN
          /\ k <= a => /\ item.kind = "tool"
                       /\ \A j \in DOMAIN sessions[d] :
                              sessions[d][j].kind = "child" => j <= item.parent
          /\ k > a /\ k <= a + b => item.kind = "child" /\ item.parent = 1
          /\ k > a + b => item.kind = "tool" /\ item.parent = 1
    /\ at[d] = "running" /\ sessions[d][Current(d)].kind = "root" =>
           todo[d] = <<>> /\ Len(sessions[d]) = 1
    /\ at[d] = "running" /\ sessions[d][Current(d)].kind = "child" =>
           a = 0 /\ Len(sessions[d]) + Len(todo[d]) + MaxIntents * b + MaxIntents <= Bound(d)
    /\ sessions[d] # <<>> => Len(sessions[d]) + Len(todo[d]) + MaxIntents * b <= Bound(d)

DispatchOK(d) == StatusOK(d) /\ SavedOK(d) /\ TreeOK(d) /\ \E a, b \in Nat : PlanOK(d, a, b)

\* When the memory store is closed every task has been told, and none is
\* between two runs.
ClosedOK ==
    serving = "closed" => cancelled = Dispatchers /\ \A d \in Dispatchers : at[d] # "next"

IInv ==
    /\ TypeOK
    /\ load \in Loads
    /\ ClosedOK
    /\ \A d \in Dispatchers : DispatchOK(d)

-----------------------------------------------------------------------------
(* Type correctness.                                                       *)

\* What the configuration gives.
LEMMA LoadType ==
    ASSUME load \in Loads
    PROVE  /\ load.children \in [Agents -> Nat \ {0}]
           /\ load.actions \in Nat \ {0}
           /\ load.events \in [Dispatchers -> Nat]
BY ConstantsAssumption

\* Items turns the targets of an output into work, one for one.
LEMMA ItemsType ==
    ASSUME NEW targets \in Seq(Targets), NEW kind \in {"child", "tool"}, NEW n \in Nat
    PROVE  /\ Items(targets, kind, n) \in Seq(Works)
           /\ Len(Items(targets, kind, n)) = Len(targets)
           /\ \A k \in 1..Len(targets) :
                 /\ Items(targets, kind, n)[k].kind = kind
                 /\ Items(targets, kind, n)[k].parent = n
<1>1. DOMAIN targets = 1..Len(targets) /\ Len(targets) \in Nat
      /\ \A i \in 1..Len(targets) : targets[i] \in Targets
  BY LenProperties, ElementOfSeq
<1> DEFINE w(i) == [Item(kind, n) EXCEPT !.target = targets[i]]
           f == [i \in 1..Len(targets) |-> w(i)]
<1>2. ASSUME NEW i \in 1..Len(targets)
      PROVE  w(i) \in Works /\ w(i).kind = kind /\ w(i).parent = n
  BY <1>1 DEF Item, Works
<1> HIDE DEF w
<1>3. f \in [1..Len(targets) -> Works]
  BY <1>2
<1>4. f \in Seq(Works) /\ Len(f) = Len(targets)
  BY <1>1, <1>3
<1>5. Items(targets, kind, n) = f
  BY <1>1 DEF Items, w
<1> QED
  BY <1>2, <1>4, <1>5

\* Outputs are sequences of targets, and an output's actions are cut off.
LEMMA OutputType ==
    ASSUME load \in Loads, NEW a, NEW out \in Outputs(a)
    PROVE  /\ out.actions \in Seq(Targets)
           /\ out.intents \in Seq(Targets) /\ Len(out.intents) <= MaxIntents
<1>0. MaxIntents \in Nat /\ load.actions \in Nat
  BY ConstantsAssumption, LoadType
<1>1. \A n \in Nat : \A s \in SeqOf(Targets, n) : s \in Seq(Targets) /\ Len(s) <= n
  <2> SUFFICES ASSUME NEW n \in Nat, NEW m \in 0..n, NEW s \in [1..m -> Targets]
               PROVE  s \in Seq(Targets) /\ Len(s) <= n
    BY DEF SeqOf
  <2> QED
    OBVIOUS
<1>2. <<>> \in Seq(Targets) /\ Len(<<>>) = 0
  BY EmptySeq
<1>3. /\ out.actions \in SeqOf(Targets, load.actions) \/ out.actions = <<>>
      /\ out.intents \in SeqOf(Targets, MaxIntents) \/ out.intents = <<>>
  BY DEF Outputs
<1>4. out.actions \in Seq(Targets)
  BY <1>0, <1>1, <1>2, <1>3
<1>5. out.intents \in Seq(Targets) /\ Len(out.intents) <= MaxIntents
  <2>1. CASE out.intents = <<>>
    BY <1>0, <1>2, <2>1
  <2>2. CASE out.intents \in SeqOf(Targets, MaxIntents)
    BY <1>0, <1>1, <2>2
  <2> QED
    BY <1>3, <2>1, <2>2
<1> QED
  BY <1>4, <1>5

\* What is cut off of the actions of an output: targets, and no more than the limit.
LEMMA CutOffType ==
    ASSUME NEW d, NEW actions \in Seq(Targets),
           load.children[sessions[d][Current(d)].agent] \in Nat
    PROVE  /\ CutOff(d, actions) \in Seq(Targets)
           /\ Len(CutOff(d, actions)) <= load.children[sessions[d][Current(d)].agent]
<1> DEFINE room == load.children[sessions[d][Current(d)].agent]
           n == IF Len(actions) < room THEN Len(actions) ELSE room
<1>1. Len(actions) \in Nat /\ \A i \in 1..Len(actions) : actions[i] \in Targets
  BY LenProperties, ElementOfSeq
<1>2. n \in Nat /\ n <= Len(actions) /\ n <= room
  BY <1>1
<1> HIDE DEF n
<1>3. SubSeq(actions, 1, n) \in Seq(Targets) /\ Len(SubSeq(actions, 1, n)) = n
  BY <1>1, <1>2, SubSeqProperties
<1>4. CutOff(d, actions) = SubSeq(actions, 1, n)
  BY DEF CutOff, n
<1> QED
  BY <1>2, <1>3, <1>4

\* Nothing has run yet.
LEMMA InitType == Init => TypeOK
<1> SUFFICES ASSUME Init PROVE TypeOK
  OBVIOUS
<1>1. sessions \in [Dispatchers -> Seq(Sessions)]
      /\ todo \in [Dispatchers -> Seq([target : Targets, kind : {"child", "tool"}, parent : Nat])]
  BY EmptySeq DEF Init
<1>2. \A d \in Dispatchers : events[d] <= load.events[d]
  BY LoadType DEF Init
<1> QED
  BY <1>1, <1>2 DEF Init, TypeOK

\* What is known of a dispatcher whose agent is at work.
LEMMA CurrentType ==
    ASSUME IInv, NEW d \in Dispatchers, at[d] = "running"
    PROVE  /\ sessions[d] \in Seq(Sessions) /\ sessions[d] # <<>>
           /\ Current(d) \in 1..Len(sessions[d]) /\ Current(d) \in DOMAIN sessions[d]
           /\ Current(d) \in Nat \ {0}
           /\ sessions[d][Current(d)] \in Sessions
           /\ sessions[d][Current(d)].status = "running"
           /\ load.children[sessions[d][Current(d)].agent] \in Nat
<1>1. sessions[d] \in Seq(Sessions) /\ sessions[d] # <<>> /\ load \in Loads
      /\ sessions[d][Current(d)].status = "running"
  BY DEF IInv, TypeOK, DispatchOK, StatusOK
<1>2. Current(d) \in 1..Len(sessions[d]) /\ Current(d) \in DOMAIN sessions[d]
      /\ Current(d) \in Nat \ {0}
  BY <1>1, EmptySeq, LenProperties DEF Current
<1>3. sessions[d][Current(d)] \in Sessions
  BY <1>1, <1>2, ElementOfSeq
<1>4. sessions[d][Current(d)].agent \in Agents
  BY <1>3 DEF Sessions
<1> QED
  BY <1>1, <1>2, <1>3, <1>4, LoadType

\* What is to be run after a run is work.
LEMMA FollowType ==
    ASSUME IInv, NEW d \in Dispatchers, at[d] = "running", NEW a, NEW out \in Outputs(a)
    PROVE  Follow(d, out) \in Seq(Works)
<1>1. /\ out.actions \in Seq(Targets) /\ out.intents \in Seq(Targets)
      /\ CutOff(d, out.actions) \in Seq(Targets)
  BY OutputType, CutOffType, CurrentType DEF IInv
<1>2. todo[d] \in Seq(Works)
  BY DEF IInv, TypeOK, Works
<1>3. Items(CutOff(d, out.actions), "child", Current(d)) \in Seq(Works)
      /\ Items(out.intents, "tool", Current(d)) \in Seq(Works)
  BY <1>1, CurrentType, ItemsType
<1>4. sessions[d][Current(d)].kind \in {"root", "child", "tool"}
  BY CurrentType DEF Sessions
<1> QED
  BY <1>2, <1>3, <1>4, ConcatProperties DEF Follow, FollowWith

\* A step of one dispatcher writes these.
StepTypes ==
    /\ at \in [Dispatchers -> {"idle", "running", "next", "ended"}]
    /\ outcome \in [Dispatchers -> {"none", "returned", "raised", "cancelled"}]
    /\ sessions \in [Dispatchers -> Seq(Sessions)]
    /\ todo \in [Dispatchers -> Seq(Works)]
    /\ saved \in [Dispatchers -> SUBSET (Nat \ {0})]

\* A step of a dispatcher concerns its own task only.
LEMMA StepFrame ==
    ASSUME TypeOK, StepTypes', UNCHANGED <<events, cancelled, serving, load>>
    PROVE  TypeOK'
BY DEF TypeOK, StepTypes, Works

\* A dispatcher that takes an event.
LEMMA DispatchType ==
    ASSUME IInv, NEW d \in Dispatchers, Dispatch(d)
    PROVE  TypeOK'
<1>0. TypeOK /\ load \in Loads /\ StepTypes
  BY DEF IInv, TypeOK, StepTypes, Works
<1>1. events' \in [Dispatchers -> Nat] /\ load' = load
      /\ \A e \in Dispatchers : events'[e] <= load.events[e]
  BY <1>0, LoadType DEF Dispatch, TypeOK
<1>2. \A root \in Agents : <<Session(root, "root", 0)>> \in Seq(Sessions)
  BY DEF Session, Sessions
<1>3. <<>> \in Seq(Sessions) /\ <<>> \in Seq(Works) /\ {} \in SUBSET (Nat \ {0})
  BY EmptySeq
<1>4. todo' \in [Dispatchers -> Seq(Works)] /\ saved' \in [Dispatchers -> SUBSET (Nat \ {0})]
  BY <1>0, <1>3 DEF Dispatch, StepTypes
<1>5. sessions' \in [Dispatchers -> Seq(Sessions)]
  <2>1. CASE sessions' = [sessions EXCEPT ![d] = <<>>]
    BY <1>0, <1>3, <2>1 DEF StepTypes
  <2>2. ASSUME NEW root \in Agents,
               sessions' = [sessions EXCEPT ![d] = <<Session(root, "root", 0)>>]
        PROVE  sessions' \in [Dispatchers -> Seq(Sessions)]
    <3> DEFINE s == <<Session(root, "root", 0)>>
    <3>1. s \in Seq(Sessions)
      BY <1>2
    <3>2. sessions' = [sessions EXCEPT ![d] = s]
      BY <2>2
    <3> HIDE DEF s
    <3> QED
      BY <1>0, <3>1, <3>2 DEF StepTypes
  <2> QED
    BY <2>1, <2>2 DEF Dispatch
<1>6. at' \in [Dispatchers -> {"idle", "running", "next", "ended"}]
      /\ outcome' \in [Dispatchers -> {"none", "returned", "raised", "cancelled"}]
  BY <1>0 DEF Dispatch, End, StepTypes
<1> QED
  BY <1>0, <1>1, <1>4, <1>5, <1>6 DEF TypeOK, StepTypes, Dispatch, Works

\* A dispatcher that goes on.
LEMMA StepType ==
    ASSUME IInv, NEW d \in Dispatchers, Step(d)
    PROVE  TypeOK'
<1>0. TypeOK /\ StepTypes
  BY DEF IInv, TypeOK, StepTypes, Works
<1>a. UNCHANGED <<events, cancelled, serving, load>>
  BY DEF Step, RunSucceeds, RunFails, RunEnds, RunNext, Proceed, Return, Interrupted
<1>b. ASSUME NEW status \in {"success", "failed"}, at[d] = "running",
             sessions' = [sessions EXCEPT ![d][Current(d)].status = status]
      PROVE  sessions' \in [Dispatchers -> Seq(Sessions)]
  <2> DEFINE r == [sessions[d][Current(d)] EXCEPT !.status = status]
             s == [sessions[d] EXCEPT ![Current(d)] = r]
  <2>1. r \in Sessions
    BY <1>b, CurrentType DEF Sessions
  <2> HIDE DEF r
  <2>2. s \in Seq(Sessions)
    BY <1>b, <2>1, CurrentType, ExceptSeq
  <2>3. sessions' = [sessions EXCEPT ![d] = s]
    BY <1>b DEF r
  <2> HIDE DEF s
  <2> QED
    BY <1>0, <2>2, <2>3 DEF StepTypes
<1>1. CASE RunSucceeds(d)
  <2>1. at' \in [Dispatchers -> {"idle", "running", "next", "ended"}] /\ outcome' = outcome
    BY <1>0, <1>1 DEF RunSucceeds, StepTypes
  <2>2. sessions' \in [Dispatchers -> Seq(Sessions)]
    BY <1>1, <1>b DEF RunSucceeds
  <2>3. todo' \in [Dispatchers -> Seq(Works)]
    <3>1. PICK out \in Outputs(sessions[d][Current(d)].agent) :
              todo' = [todo EXCEPT ![d] = Follow(d, out)]
      BY <1>1 DEF RunSucceeds
    <3>2. Follow(d, out) \in Seq(Works)
      BY <1>1, FollowType DEF RunSucceeds
    <3> QED
      BY <1>0, <3>1, <3>2 DEF StepTypes
  <2>4. saved' \in [Dispatchers -> SUBSET (Nat \ {0})]
    <3>1. Current(d) \in Nat \ {0}
      BY <1>1, CurrentType DEF RunSucceeds
    <3>2. \/ saved' = [saved EXCEPT ![d] = saved[d] \cup {Current(d)}]
          \/ saved' = saved
      BY <1>1 DEF RunSucceeds
    <3>3. saved[d] \cup {Current(d)} \in SUBSET (Nat \ {0})
      BY <1>0, <3>1 DEF StepTypes
    <3> QED
      BY <1>0, <3>2, <3>3 DEF StepTypes
  <2> QED
    BY <1>0, <1>a, <2>1, <2>2, <2>3, <2>4, StepFrame DEF StepTypes
<1>2. CASE RunFails(d)
  <2>1. sessions' \in [Dispatchers -> Seq(Sessions)]
    BY <1>2, <1>b DEF RunFails, RunEnds
  <2> QED
    BY <1>0, <1>2, <1>a, <2>1, StepFrame DEF RunFails, RunEnds, End, StepTypes
<1>3. CASE RunNext(d)
  <2> DEFINE item == Head(todo[d])
  <2>1. item \in Works /\ Tail(todo[d]) \in Seq(Works)
    BY <1>0, <1>3, HeadTailProperties DEF RunNext, Proceed, StepTypes
  <2>2. todo' \in [Dispatchers -> Seq(Works)] /\ saved' \in [Dispatchers -> SUBSET (Nat \ {0})]
    BY <1>0, <1>3, <2>1 DEF RunNext, Proceed, StepTypes
  <2>3. CASE End(d, "raised") /\ UNCHANGED sessions
    BY <1>0, <1>a, <2>2, <2>3, StepFrame DEF End, StepTypes
  <2>4. CASE Start(d, item.target, item.kind, item.parent) /\ ~Unknown(item)
    <3>1. Session(item.target, item.kind, item.parent) \in Sessions
      BY <2>1, <2>4 DEF Session, Sessions, Works, Unknown, Targets
    <3> DEFINE s == Session(item.target, item.kind, item.parent)
    <3>2. sessions' = [sessions EXCEPT ![d] = Append(sessions[d], s)]
      BY <2>4 DEF Start
    <3> HIDE DEF s
    <3>3. sessions' \in [Dispatchers -> Seq(Sessions)]
      BY <1>0, <3>1, <3>2, AppendProperties DEF StepTypes, s
    <3>4. at' \in [Dispatchers -> {"idle", "running", "next", "ended"}] /\ outcome' = outcome
      BY <1>0, <2>4 DEF Start, StepTypes
    <3> QED
      BY <1>0, <1>a, <2>2, <3>3, <3>4, StepFrame DEF StepTypes
  <2> QED
    BY <1>3, <2>3, <2>4 DEF RunNext, Proceed
<1>4. CASE Return(d)
  BY <1>0, <1>4, <1>a, StepFrame DEF Return, End, StepTypes, runVars
<1>5. CASE Interrupted(d)
  BY <1>0, <1>5, <1>a, StepFrame DEF Interrupted, StepTypes, runVars
<1> QED
  BY <1>1, <1>2, <1>3, <1>4, <1>5 DEF Step

\* Types are kept, and nobody changes what the agents answer.
LEMMA NextType ==
    ASSUME IInv, [Next]_vars
    PROVE  TypeOK' /\ load' = load
<1>0. TypeOK
  BY DEF IInv
<1>1. CASE StopDaemon \/ CloseRuntime
  BY <1>0, <1>1, ConstantsAssumption DEF StopDaemon, CloseRuntime, taskVars, runVars, TypeOK
<1>2. CASE UNCHANGED vars
  BY <1>0, <1>2 DEF vars, taskVars, runVars, TypeOK
<1>3. ASSUME NEW d \in Dispatchers, Dispatch(d) \/ Step(d)
      PROVE  TypeOK' /\ load' = load
  BY <1>3, DispatchType, StepType DEF Dispatch, Step, RunSucceeds, RunFails, RunEnds, RunNext,
                                      Proceed, Return, Interrupted
<1> QED
  BY <1>1, <1>2, <1>3 DEF Next

-----------------------------------------------------------------------------
(* What the steps do to one dispatcher.                                    *)

\* A dispatcher that a step does not touch.
LEMMA OthersOK ==
    ASSUME NEW d, DispatchOK(d), load' = load, at'[d] = at[d], outcome'[d] = outcome[d],
           sessions'[d] = sessions[d], todo'[d] = todo[d], saved'[d] = saved[d]
    PROVE  DispatchOK(d)'
<1>1. Current(d)' = Current(d) /\ Root(d)' = Root(d) /\ Bound(d)' = Bound(d)
  BY DEF Current, Root, Bound
<1>2. StatusOK(d)'
  BY <1>1 DEF DispatchOK, StatusOK
<1>3. SavedOK(d)'
  BY DEF DispatchOK, SavedOK
<1>4. TreeOK(d)'
  BY <1>1 DEF DispatchOK, TreeOK
<1>5. PICK a \in Nat, b \in Nat : PlanOK(d, a, b)
  BY DEF DispatchOK
<1>6. PlanOK(d, a, b)'
  BY <1>1, <1>5 DEF PlanOK
<1> QED
  BY <1>2, <1>3, <1>4, <1>6 DEF DispatchOK

\* A session is marked: nothing else of it changes, and no other session.
LEMMA Marked ==
    ASSUME IInv, NEW d \in Dispatchers, at[d] = "running", NEW status,
           sessions' = [sessions EXCEPT ![d][Current(d)].status = status]
    PROVE  /\ DOMAIN sessions'[d] = DOMAIN sessions[d] /\ Len(sessions'[d]) = Len(sessions[d])
           /\ sessions'[d] # <<>> /\ Current(d)' = Current(d)
           /\ \A i \in DOMAIN sessions[d] :
                 /\ sessions'[d][i].agent = sessions[d][i].agent
                 /\ sessions'[d][i].kind = sessions[d][i].kind
                 /\ sessions'[d][i].parent = sessions[d][i].parent
                 /\ i # Current(d) => sessions'[d][i].status = sessions[d][i].status
           /\ sessions'[d][Current(d)].status = status
           /\ Root(d)'.agent = Root(d).agent /\ (load' = load => Bound(d)' = Bound(d))
<1> DEFINE n == Current(d)
           r == [sessions[d][n] EXCEPT !.status = status]
           s == [sessions[d] EXCEPT ![n] = r]
<1>1. /\ sessions \in [Dispatchers -> Seq(Sessions)] /\ sessions[d] \in Seq(Sessions)
      /\ n \in DOMAIN sessions[d] /\ sessions[d][n] \in Sessions /\ sessions[d] # <<>>
      /\ DOMAIN sessions[d] = 1..Len(sessions[d]) /\ Len(sessions[d]) \in Nat
  BY CurrentType, LenProperties DEF IInv, TypeOK
<1>2. sessions'[d] = s
  BY <1>1
<1>3. r.agent = sessions[d][n].agent /\ r.kind = sessions[d][n].kind
      /\ r.parent = sessions[d][n].parent /\ r.status = status
  BY <1>1 DEF Sessions
<1> HIDE DEF r
<1>4. DOMAIN s = DOMAIN sessions[d] /\ s[n] = r
      /\ \A i \in DOMAIN sessions[d] : i # n => s[i] = sessions[d][i]
  BY <1>1
<1>5. Len(s) = Len(sessions[d]) /\ s # <<>>
  BY <1>1, <1>4
<1> HIDE DEF s
<1>6. 1 \in DOMAIN sessions[d]
  BY <1>1, EmptySeq
<1>7. Current(d)' = n
  BY <1>2, <1>5 DEF Current
<1>8. Root(d)'.agent = Root(d).agent
  BY <1>2, <1>3, <1>4, <1>6 DEF Root
<1>9. load' = load => Bound(d)' = Bound(d)
  BY <1>8 DEF Bound
<1> QED
  BY <1>1, <1>2, <1>3, <1>4, <1>5, <1>7, <1>8, <1>9

\* A session is added at the end.
LEMMA Added ==
    ASSUME TypeOK, NEW d \in Dispatchers, NEW s, sessions[d] # <<>>,
           sessions' = [sessions EXCEPT ![d] = Append(sessions[d], s)]
    PROVE  /\ Len(sessions[d]) \in Nat \ {0}
           /\ DOMAIN sessions[d] = 1..Len(sessions[d])
           /\ DOMAIN sessions'[d] = 1..(Len(sessions[d]) + 1)
           /\ Len(sessions'[d]) = Len(sessions[d]) + 1 /\ sessions'[d] # <<>>
           /\ \A i \in DOMAIN sessions[d] : sessions'[d][i] = sessions[d][i]
           /\ sessions'[d][Len(sessions[d]) + 1] = s
           /\ Current(d)' = Len(sessions[d]) + 1
           /\ Root(d)' = Root(d) /\ (load' = load => Bound(d)' = Bound(d))
<1>1. /\ sessions[d] \in Seq(Sessions) /\ sessions'[d] = Append(sessions[d], s)
  BY DEF TypeOK
<1>2. Len(sessions[d]) \in Nat \ {0} /\ DOMAIN sessions[d] = 1..Len(sessions[d])
  BY <1>1, EmptySeq, LenProperties
<1>3. /\ Len(sessions'[d]) = Len(sessions[d]) + 1
      /\ DOMAIN sessions'[d] = 1..(Len(sessions[d]) + 1)
      /\ \A i \in DOMAIN sessions[d] : sessions'[d][i] = sessions[d][i]
      /\ sessions'[d][Len(sessions[d]) + 1] = s
  BY <1>1, <1>2
<1>4. Root(d)' = Root(d) /\ Current(d)' = Len(sessions[d]) + 1
  BY <1>2, <1>3 DEF Root, Current
<1>5. sessions'[d] # <<>>
  BY <1>2, <1>3
<1>6. load' = load => Bound(d)' = Bound(d)
  BY <1>4 DEF Bound
<1> QED
  BY <1>2, <1>3, <1>4, <1>5, <1>6

\* Work that is done in order: the first item goes.
LEMMA Taken ==
    ASSUME TypeOK, NEW d \in Dispatchers, todo[d] # <<>>,
           todo' = [todo EXCEPT ![d] = Tail(todo[d])]
    PROVE  /\ Len(todo[d]) \in Nat \ {0} /\ DOMAIN todo[d] = 1..Len(todo[d])
           /\ Len(todo'[d]) = Len(todo[d]) - 1 /\ DOMAIN todo'[d] = 1..(Len(todo[d]) - 1)
           /\ \A k \in DOMAIN todo'[d] : todo'[d][k] = todo[d][k + 1]
           /\ Head(todo[d]) = todo[d][1] /\ 1 \in DOMAIN todo[d] /\ todo[d][1] \in Works
<1>1. todo[d] \in Seq(Works) /\ todo'[d] = Tail(todo[d])
  BY DEF TypeOK, Works
<1>2. Len(todo[d]) \in Nat \ {0} /\ DOMAIN todo[d] = 1..Len(todo[d])
  BY <1>1, EmptySeq, LenProperties
<1>3. 1 \in DOMAIN todo[d] /\ todo[d][1] \in Works
  BY <1>1, <1>2, ElementOfSeq
<1>4. Tail(todo[d]) \in Seq(Works) /\ Len(Tail(todo[d])) = Len(todo[d]) - 1
      /\ \A k \in 1..Len(Tail(todo[d])) : Tail(todo[d])[k] = todo[d][k + 1]
  BY <1>1, HeadTailProperties
<1>5. DOMAIN todo'[d] = 1..Len(todo'[d])
  BY <1>1, <1>4, LenProperties
<1>6. Head(todo[d]) = todo[d][1]
  BY <1>1, <1>2
<1>7. /\ Len(todo'[d]) = Len(todo[d]) - 1
      /\ \A k \in DOMAIN todo'[d] : todo'[d][k] = todo[d][k + 1]
  BY <1>1, <1>4, <1>5
<1> QED
  BY <1>2, <1>3, <1>5, <1>6, <1>7

-----------------------------------------------------------------------------
(* The steps of a dispatcher keep its invariant.                           *)

\* The bound on the runs of an event is a number.
LEMMA BoundType ==
    ASSUME IInv, NEW d \in Dispatchers, sessions[d] # <<>>
    PROVE  /\ Bound(d) \in Nat /\ load.children[Root(d).agent] \in Nat /\ MaxIntents \in Nat
           /\ Bound(d) >= 1 + MaxIntents
<1>1. sessions[d] \in Seq(Sessions) /\ load \in Loads
  BY DEF IInv, TypeOK
<1>2. Root(d) \in Sessions
  BY <1>1, EmptySeq, ElementOfSeq DEF Root
<1>3. load.children[Root(d).agent] \in Nat /\ MaxIntents \in Nat
  BY <1>1, <1>2, LoadType, ConstantsAssumption DEF Sessions
<1>4. load.children[Root(d).agent] * (1 + MaxIntents) \in Nat
  BY <1>3
<1> QED
  BY <1>3, <1>4 DEF Bound

\* An event that is taken opens a root session, or none.
LEMMA DispatchStep ==
    ASSUME IInv, NEW d \in Dispatchers, Dispatch(d), TypeOK'
    PROVE  DispatchOK(d)'
<1>0. TypeOK /\ load \in Loads /\ load' = load
  BY DEF IInv, Dispatch
<1>1. todo'[d] = <<>> /\ saved'[d] = {} /\ DOMAIN todo'[d] = {} /\ Len(todo'[d]) = 0
  BY <1>0, EmptySeq DEF Dispatch, TypeOK
<1>2. CASE sessions' = [sessions EXCEPT ![d] = <<>>] /\ End(d, "raised")
  <2>1. sessions'[d] = <<>> /\ DOMAIN sessions'[d] = {} /\ at'[d] = "idle" /\ outcome'[d] = "raised"
    BY <1>0, <1>2 DEF TypeOK, End
  <2>2. StatusOK(d)' /\ SavedOK(d)' /\ TreeOK(d)'
    BY <1>1, <2>1 DEF StatusOK, SavedOK, TreeOK
  <2>3. PlanOK(d, 0, 0)'
    BY <1>1, <2>1 DEF PlanOK
  <2> QED
    BY <2>2, <2>3 DEF DispatchOK
<1>3. ASSUME NEW root \in Agents,
             sessions' = [sessions EXCEPT ![d] = <<Session(root, "root", 0)>>],
             at' = [at EXCEPT ![d] = "running"], outcome' = [outcome EXCEPT ![d] = "none"]
      PROVE  DispatchOK(d)'
  <2> DEFINE s == Session(root, "root", 0)
  <2>1. /\ sessions'[d] = <<s>> /\ at'[d] = "running" /\ outcome'[d] = "none"
    BY <1>0, <1>3 DEF TypeOK
  <2>2. s.kind = "root" /\ s.parent = 0 /\ s.status = "running" /\ s.agent = root
    BY DEF Session
  <2> HIDE DEF s
  <2>3. /\ DOMAIN sessions'[d] = {1} /\ Len(sessions'[d]) = 1 /\ sessions'[d][1] = s
        /\ sessions'[d] # <<>> /\ Current(d)' = 1 /\ Root(d)' = s
    BY <2>1 DEF Current, Root
  <2>4. StatusOK(d)'
    BY <1>1, <2>1, <2>2, <2>3 DEF StatusOK
  <2>5. SavedOK(d)'
    BY <1>1, <2>2, <2>3 DEF SavedOK
  <2>6. TreeOK(d)'
    BY <1>1, <2>2, <2>3 DEF TreeOK
  <2>7. Bound(d)' >= 1 /\ Bound(d)' \in Nat /\ MaxIntents \in Nat
    <3>1. load.children[root] \in Nat /\ MaxIntents \in Nat
      BY <1>0, LoadType, ConstantsAssumption
    <3>2. Bound(d)' = 1 + load.children[root] * (1 + MaxIntents) + MaxIntents
      BY <1>0, <2>2, <2>3 DEF Bound
    <3>3. load.children[root] * (1 + MaxIntents) \in Nat
      BY <3>1
    <3> QED
      BY <3>1, <3>2, <3>3
  <2>8. PlanOK(d, 0, 0)'
    BY <1>1, <2>1, <2>2, <2>3, <2>7 DEF PlanOK
  <2> QED
    BY <2>4, <2>5, <2>6, <2>8 DEF DispatchOK
<1> QED
  BY <1>2, <1>3 DEF Dispatch

\* A run that fails ends the dispatch, with its session failed.
LEMMA FailsStep ==
    ASSUME IInv, NEW d \in Dispatchers, RunFails(d)
    PROVE  DispatchOK(d)'
<1> DEFINE n == Current(d)
<1>0. /\ TypeOK /\ DispatchOK(d) /\ StatusOK(d) /\ SavedOK(d) /\ TreeOK(d) /\ at[d] = "running"
      /\ load' = load
  BY DEF IInv, DispatchOK, RunFails, RunEnds
<1>1. /\ at'[d] = "idle" /\ outcome'[d] = "raised" /\ todo'[d] = todo[d] /\ saved'[d] = saved[d]
      /\ sessions' = [sessions EXCEPT ![d][n].status = "failed"]
  BY <1>0 DEF RunFails, RunEnds, End, TypeOK
<1>2. /\ DOMAIN sessions'[d] = DOMAIN sessions[d] /\ Len(sessions'[d]) = Len(sessions[d])
      /\ sessions'[d] # <<>> /\ Current(d)' = n
      /\ \A i \in DOMAIN sessions[d] :
            /\ sessions'[d][i].agent = sessions[d][i].agent
            /\ sessions'[d][i].kind = sessions[d][i].kind
            /\ sessions'[d][i].parent = sessions[d][i].parent
            /\ i # n => sessions'[d][i].status = sessions[d][i].status
      /\ sessions'[d][n].status = "failed"
      /\ Root(d)'.agent = Root(d).agent /\ Bound(d)' = Bound(d)
  BY <1>0, <1>1, Marked
<1>3. sessions[d][n].status = "running" /\ n \in DOMAIN sessions[d] /\ sessions[d] # <<>>
      /\ DOMAIN sessions[d] = 1..n /\ n \in Nat
  BY <1>0, CurrentType, LenProperties DEF Current
<1>4. StatusOK(d)'
  BY <1>0, <1>1, <1>2, <1>3 DEF StatusOK
<1>5. SavedOK(d)'
  BY <1>0, <1>1, <1>2, <1>3 DEF SavedOK
<1>6. TreeOK(d)'
  <2>1. ASSUME NEW i \in DOMAIN sessions[d]
        PROVE  LET s == sessions'[d][i] IN
               IF i = 1 THEN s.kind = "root" /\ s.parent = 0
               ELSE /\ s.parent \in 1..(i - 1)
                    /\ sessions'[d][s.parent].status = "success"
                    /\ s.kind = "child" => s.parent = 1 /\ s.agent # Root(d)'.agent
                    /\ s.kind = "tool" => sessions'[d][s.parent].kind # "tool"
    <3>1. CASE i = 1
      BY <1>0, <1>2, <3>1 DEF TreeOK
    <3>2. CASE i # 1
      <4>1. /\ sessions[d][i].parent \in DOMAIN sessions[d]
            /\ sessions[d][i].parent # n
        BY <1>0, <1>3, <3>2 DEF TreeOK
      <4> QED
        BY <1>0, <1>2, <3>2, <4>1 DEF TreeOK
    <3> QED
      BY <3>1, <3>2
  <2>2. ASSUME NEW k \in DOMAIN todo[d]
        PROVE  LET p == todo[d][k].parent IN
               /\ p \in DOMAIN sessions[d]
               /\ sessions'[d][p].status = "success" /\ sessions'[d][p].kind # "tool"
    BY <1>0, <1>2, <1>3 DEF TreeOK
  <2> QED
    BY <1>1, <1>2, <2>1, <2>2 DEF TreeOK
<1>7. PICK a \in Nat, b \in Nat : PlanOK(d, a, b)
  BY <1>0 DEF DispatchOK
<1>8. PlanOK(d, a, b)'
  <2>1. a + b <= Len(todo'[d])
    BY <1>1, <1>7 DEF PlanOK
  <2>2. \A k \in DOMAIN todo'[d] :
           LET item == todo'[d][k] IN
           /\ k <= a => /\ item.kind = "tool"
                        /\ \A j \in DOMAIN sessions'[d] :
                               sessions'[d][j].kind = "child" => j <= item.parent
           /\ k > a /\ k <= a + b => item.kind = "child" /\ item.parent = 1
           /\ k > a + b => item.kind = "tool" /\ item.parent = 1
    BY <1>1, <1>2, <1>7 DEF PlanOK
  <2>3. sessions'[d] # <<>> => Len(sessions'[d]) + Len(todo'[d]) + MaxIntents * b <= Bound(d)'
    BY <1>1, <1>2, <1>3, <1>7 DEF PlanOK
  <2>4. at'[d] # "running"
    BY <1>1
  <2> QED
    BY <2>1, <2>2, <2>3, <2>4 DEF PlanOK
<1> QED
  BY <1>4, <1>5, <1>6, <1>8 DEF DispatchOK

\* A dispatch that returns or is cancelled leaves its sessions as they are.
LEMMA LeaveStep ==
    ASSUME IInv, NEW d \in Dispatchers, Return(d) \/ Interrupted(d)
    PROVE  DispatchOK(d)'
<1>0. TypeOK /\ DispatchOK(d) /\ StatusOK(d) /\ SavedOK(d) /\ TreeOK(d) /\ load' = load
      /\ sessions' = sessions /\ todo' = todo /\ saved' = saved
  BY DEF IInv, DispatchOK, Return, Interrupted, runVars
<1>1. at'[d] \in {"idle", "ended"}
  BY <1>0 DEF Return, Interrupted, End, TypeOK
<1>2. Current(d)' = Current(d) /\ Root(d)' = Root(d) /\ Bound(d)' = Bound(d)
  BY <1>0 DEF Current, Root, Bound
<1>3. StatusOK(d)'
  <2>1. CASE Return(d)
    <3>1. outcome'[d] = "returned" /\ todo[d] = <<>> /\ at[d] = "next" /\ outcome[d] = "none"
      BY <1>0, <2>1 DEF Return, End, TypeOK, StatusOK
    <3> QED
      BY <1>0, <1>1, <1>2, <3>1 DEF StatusOK
  <2>2. CASE Interrupted(d) /\ at[d] = "running"
    <3>1. outcome'[d] = "cancelled" /\ outcome[d] = "none"
      BY <1>0, <2>2 DEF Interrupted, TypeOK, StatusOK
    <3> QED
      BY <1>0, <1>1, <1>2, <3>1 DEF StatusOK
  <2>3. CASE Interrupted(d) /\ at[d] = "idle"
    <3>1. outcome' = outcome
      BY <2>3 DEF Interrupted
    <3> QED
      BY <1>0, <1>1, <1>2, <2>3, <3>1 DEF StatusOK
  <2> QED
    BY <2>1, <2>2, <2>3 DEF Interrupted
<1>4. SavedOK(d)' /\ TreeOK(d)'
  BY <1>0, <1>2 DEF SavedOK, TreeOK
<1>5. PICK a \in Nat, b \in Nat : PlanOK(d, a, b)
  BY <1>0 DEF DispatchOK
<1>6. PlanOK(d, a, b)'
  BY <1>0, <1>1, <1>2, <1>5 DEF PlanOK
<1> QED
  BY <1>3, <1>4, <1>6 DEF DispatchOK

\* Children of children are as many as children times what each brings.
LEMMA Product ==
    ASSUME NEW n \in Nat, NEW c \in Nat, NEW m \in Nat, n <= c
    PROVE  n + m * n <= c * (1 + m) /\ m * n \in Nat
<1>1. PICK k \in Nat : c = n + k
  <2>1. c - n \in Nat /\ c = n + (c - n)
    OBVIOUS
  <2> QED
    BY <2>1
<1>2. c * (1 + m) = n * (1 + m) + k * (1 + m)
  BY <1>1
<1>3. k * (1 + m) \in Nat
  BY <1>1
<1>4. n * (1 + m) = n + m * n /\ m * n \in Nat
  OBVIOUS
<1>5. n * (1 + m) \in Nat
  OBVIOUS
<1> QED
  BY <1>2, <1>3, <1>4, <1>5

\* The plan after an output of the root: its actions, then its intents.
LEMMA RootPlan ==
    ASSUME IInv, NEW d \in Dispatchers, RunSucceeds(d), sessions[d][Current(d)].kind = "root",
           NEW out \in Outputs(sessions[d][Current(d)].agent), todo'[d] = Follow(d, out)
    PROVE  /\ \E a, b \in Nat : PlanOK(d, a, b)'
           /\ \A k \in DOMAIN todo'[d] : todo'[d][k].parent = Current(d)
<1> DEFINE n == Current(d)
           acts == Items(CutOff(d, out.actions), "child", n)
           tools == Items(out.intents, "tool", n)
           c == load.children[sessions[d][n].agent]
<1>0. TypeOK /\ load \in Loads /\ at[d] = "running" /\ load' = load /\ DispatchOK(d)
      /\ MaxIntents \in Nat
      /\ sessions' = [sessions EXCEPT ![d][Current(d)].status = "success"]
  BY ConstantsAssumption DEF IInv, RunSucceeds
<1>1. c \in Nat /\ n \in Nat /\ out.actions \in Seq(Targets) /\ out.intents \in Seq(Targets)
      /\ Len(out.intents) <= MaxIntents /\ Len(out.intents) \in Nat
  BY <1>0, CurrentType, OutputType, LenProperties
<1>2. CutOff(d, out.actions) \in Seq(Targets) /\ Len(CutOff(d, out.actions)) <= c
      /\ Len(CutOff(d, out.actions)) \in Nat
  BY <1>1, CutOffType, LenProperties
<1>3. acts \in Seq(Works) /\ Len(acts) \in Nat /\ Len(acts) <= c
      /\ \A k \in 1..Len(acts) : acts[k].kind = "child" /\ acts[k].parent = n
  BY <1>1, <1>2, ItemsType
<1>4. tools \in Seq(Works) /\ Len(tools) \in Nat /\ Len(tools) <= MaxIntents
      /\ \A k \in 1..Len(tools) : tools[k].kind = "tool" /\ tools[k].parent = n
  BY <1>1, ItemsType
<1>5. todo'[d] = acts \o tools
  BY DEF Follow, FollowWith
<1> HIDE DEF acts, tools
<1>6. /\ Len(todo'[d]) = Len(acts) + Len(tools) /\ DOMAIN todo'[d] = 1..(Len(acts) + Len(tools))
      /\ \A k \in DOMAIN todo'[d] :
            todo'[d][k] = IF k <= Len(acts) THEN acts[k] ELSE tools[k - Len(acts)]
  BY <1>3, <1>4, <1>5, ConcatProperties, LenProperties
<1>7. ASSUME NEW k \in DOMAIN todo'[d]
      PROVE  /\ todo'[d][k].parent = n
             /\ k <= Len(acts) => todo'[d][k].kind = "child"
             /\ k > Len(acts) => todo'[d][k].kind = "tool"
  <2>1. CASE k <= Len(acts)
    BY <1>3, <1>4, <1>6, <2>1
  <2>2. CASE k > Len(acts)
    <3>1. k - Len(acts) \in 1..Len(tools)
      BY <1>3, <1>4, <1>6, <2>2
    <3> QED
      BY <1>3, <1>4, <1>6, <2>2, <3>1
  <2> QED
    BY <1>3, <1>6, <2>1, <2>2
<1>8. Len(sessions[d]) = 1 /\ n = 1 /\ Root(d).agent = sessions[d][n].agent
  BY <1>0 DEF DispatchOK, PlanOK, Current, Root
<1>9. Len(sessions'[d]) = 1 /\ Bound(d)' = Bound(d) /\ at'[d] = "next"
  <2>1. Len(sessions'[d]) = Len(sessions[d]) /\ Bound(d)' = Bound(d)
    BY <1>0, Marked
  <2> QED
    BY <1>0, <1>8, <2>1 DEF RunSucceeds, TypeOK
<1>10. 1 + Len(todo'[d]) + MaxIntents * Len(acts) <= Bound(d)
  <2>1. Len(acts) + MaxIntents * Len(acts) <= c * (1 + MaxIntents) /\ MaxIntents * Len(acts) \in Nat
    BY <1>0, <1>1, <1>3, Product
  <2>2. c * (1 + MaxIntents) \in Nat
    BY <1>0, <1>1
  <2>3. Bound(d) = 1 + c * (1 + MaxIntents) + MaxIntents
    BY <1>8 DEF Bound
  <2> HIDE DEF c
  <2> QED
    BY <1>0, <1>3, <1>4, <1>6, <2>1, <2>2, <2>3
<1>11. PICK b \in Nat : b = Len(acts)
  BY <1>3
<1>12. PlanOK(d, 0, b)'
  <2>1. 0 + b <= Len(todo'[d])
    BY <1>3, <1>4, <1>6, <1>11
  <2>2. \A k \in DOMAIN todo'[d] :
            /\ k > 0 /\ (k > b <=> k > 0 + b) /\ (k <= b <=> k <= 0 + b) /\ ~(k <= 0)
            /\ k <= b => todo'[d][k].kind = "child" /\ todo'[d][k].parent = 1
            /\ k > b => todo'[d][k].kind = "tool" /\ todo'[d][k].parent = 1
    BY <1>3, <1>4, <1>6, <1>7, <1>8, <1>11
  <2>3. Len(sessions'[d]) + Len(todo'[d]) + MaxIntents * b <= Bound(d)'
    BY <1>9, <1>10, <1>11
  <2> QED
    BY <1>9, <2>1, <2>2, <2>3 DEF PlanOK
<1> QED
  BY <1>7, <1>12

\* The plan after an output of a child: its intents come first.
LEMMA ChildPlan ==
    ASSUME IInv, NEW d \in Dispatchers, RunSucceeds(d), sessions[d][Current(d)].kind = "child",
           NEW out \in Outputs(sessions[d][Current(d)].agent), todo'[d] = Follow(d, out)
    PROVE  /\ \E a, b \in Nat : PlanOK(d, a, b)'
           /\ \A k \in DOMAIN todo'[d] : \/ todo'[d][k].parent = Current(d)
                                         \/ \E j \in DOMAIN todo[d] : todo'[d][k] = todo[d][j]
<1> DEFINE n == Current(d)
           tools == Items(out.intents, "tool", n)
           L == Len(tools)
<1>0. TypeOK /\ load \in Loads /\ at[d] = "running" /\ load' = load /\ DispatchOK(d)
      /\ MaxIntents \in Nat
      /\ sessions' = [sessions EXCEPT ![d][Current(d)].status = "success"]
  BY ConstantsAssumption DEF IInv, RunSucceeds
<1>1. out.intents \in Seq(Targets) /\ Len(out.intents) <= MaxIntents /\ n \in Nat
      /\ Len(out.intents) \in Nat /\ n = Len(sessions[d]) /\ sessions[d] # <<>>
      /\ DOMAIN sessions[d] = 1..n
  BY <1>0, CurrentType, OutputType, LenProperties DEF Current
<1>2. tools \in Seq(Works) /\ L \in Nat /\ L <= MaxIntents
      /\ \A k \in 1..L : tools[k].kind = "tool" /\ tools[k].parent = n
  BY <1>1, ItemsType
<1>3. todo'[d] = tools \o todo[d]
  BY DEF Follow, FollowWith
<1> HIDE DEF tools
<1>4. todo[d] \in Seq(Works) /\ Len(todo[d]) \in Nat /\ DOMAIN todo[d] = 1..Len(todo[d])
  BY <1>0, LenProperties DEF TypeOK, Works
<1>5. /\ Len(todo'[d]) = L + Len(todo[d]) /\ DOMAIN todo'[d] = 1..(L + Len(todo[d]))
      /\ \A k \in DOMAIN todo'[d] :
            todo'[d][k] = IF k <= L THEN tools[k] ELSE todo[d][k - L]
  BY <1>2, <1>3, <1>4, ConcatProperties, LenProperties
<1>6. \A k \in DOMAIN todo'[d] : k > L => k - L \in DOMAIN todo[d]
  BY <1>2, <1>4, <1>5
<1>7. PICK a \in Nat, b \in Nat : PlanOK(d, a, b)
  BY <1>0 DEF DispatchOK
<1> DEFINE P == MaxIntents * b
           T == Len(todo[d])
<1>8. /\ a = 0 /\ b <= T
      /\ n + T + P + MaxIntents <= Bound(d)
  <2>1. a = 0 /\ a + b <= T /\ Len(sessions[d]) + T + P + MaxIntents <= Bound(d)
    BY <1>0, <1>7 DEF PlanOK
  <2>2. 0 + b = b
    BY <1>7
  <2> QED
    BY <1>1, <2>1, <2>2
<1>9. /\ at'[d] = "next" /\ Len(sessions'[d]) = n /\ Bound(d)' = Bound(d)
      /\ DOMAIN sessions'[d] = 1..n
  <2>1. Len(sessions'[d]) = Len(sessions[d]) /\ Bound(d)' = Bound(d)
        /\ DOMAIN sessions'[d] = DOMAIN sessions[d]
    BY <1>0, Marked
  <2> QED
    BY <1>0, <1>1, <2>1 DEF RunSucceeds, TypeOK
<1>10. ASSUME NEW k \in DOMAIN todo'[d]
       PROVE  /\ k <= L => todo'[d][k].kind = "tool" /\ todo'[d][k].parent = n
              /\ k > L /\ k <= L + b => todo'[d][k].kind = "child" /\ todo'[d][k].parent = 1
              /\ k > L + b => todo'[d][k].kind = "tool" /\ todo'[d][k].parent = 1
  <2>1. CASE k <= L
    BY <1>2, <1>5, <1>7, <2>1
  <2>2. CASE k > L
    <3>1. k - L \in DOMAIN todo[d] /\ todo'[d][k] = todo[d][k - L] /\ k - L > 0 /\ k - L \in Nat
      BY <1>2, <1>4, <1>5, <1>6, <2>2
    <3>2. k <= L + b <=> k - L <= 0 + b
      BY <1>2, <1>4, <1>5, <1>7
    <3>3. \A i \in DOMAIN todo[d] :
              /\ i > 0 /\ i <= 0 + b => todo[d][i].kind = "child" /\ todo[d][i].parent = 1
              /\ i > 0 + b => todo[d][i].kind = "tool" /\ todo[d][i].parent = 1
      BY <1>7, <1>8 DEF PlanOK
    <3>4. k > L + b <=> k - L > 0 + b
      BY <1>2, <1>4, <1>5, <1>7
    <3>5. /\ k <= L + b => todo'[d][k].kind = "child" /\ todo'[d][k].parent = 1
          /\ k > L + b => todo'[d][k].kind = "tool" /\ todo'[d][k].parent = 1
      BY <3>1, <3>2, <3>3, <3>4
    <3>6. ~(k <= L)
      BY <1>2, <1>5, <2>2
    <3> QED
      BY <3>5, <3>6
  <2> QED
    BY <1>2, <1>5, <2>1, <2>2
<1>11. P \in Nat /\ T \in Nat /\ Bound(d) \in Nat
  BY <1>0, <1>1, <1>4, <1>7, BoundType
<1>12. n + (L + T) + P <= Bound(d)
  <2> HIDE DEF L, T, P, n
  <2> QED
    BY <1>0, <1>1, <1>2, <1>4, <1>8, <1>11
<1>l. PICK l \in Nat : l = L
  BY <1>2
<1>13. PlanOK(d, l, b)'
  <2>1. l + b <= Len(todo'[d])
    BY <1>2, <1>4, <1>5, <1>7, <1>8, <1>l
  <2>2. \A j \in DOMAIN sessions'[d] : j <= n
    BY <1>1, <1>9
  <2>3. Len(sessions'[d]) + Len(todo'[d]) + MaxIntents * b <= Bound(d)'
    BY <1>5, <1>9, <1>12
  <2>4. ASSUME NEW k \in DOMAIN todo'[d]
        PROVE  /\ k <= l => /\ todo'[d][k].kind = "tool"
                            /\ \A j \in DOMAIN sessions'[d] : j <= todo'[d][k].parent
               /\ k > l /\ k <= l + b => todo'[d][k].kind = "child" /\ todo'[d][k].parent = 1
               /\ k > l + b => todo'[d][k].kind = "tool" /\ todo'[d][k].parent = 1
    BY <1>10, <1>l, <2>2
  <2> QED
    BY <1>9, <2>1, <2>3, <2>4 DEF PlanOK
<1> QED
  BY <1>2, <1>5, <1>6, <1>7, <1>10, <1>13

\* A run that succeeds is remembered, and its output is to be followed.
LEMMA SucceedsStep ==
    ASSUME IInv, NEW d \in Dispatchers, RunSucceeds(d)
    PROVE  DispatchOK(d)'
<1> DEFINE n == Current(d)
<1>0. /\ TypeOK /\ DispatchOK(d) /\ StatusOK(d) /\ SavedOK(d) /\ TreeOK(d) /\ at[d] = "running"
      /\ load' = load /\ outcome' = outcome /\ outcome[d] = "none"
  BY DEF IInv, DispatchOK, RunSucceeds, StatusOK
<1>1. /\ at'[d] = "next" /\ sessions' = [sessions EXCEPT ![d][n].status = "success"]
  BY <1>0 DEF RunSucceeds, TypeOK
<1>2. /\ DOMAIN sessions'[d] = DOMAIN sessions[d] /\ Len(sessions'[d]) = Len(sessions[d])
      /\ sessions'[d] # <<>> /\ Current(d)' = n
      /\ \A i \in DOMAIN sessions[d] :
            /\ sessions'[d][i].agent = sessions[d][i].agent
            /\ sessions'[d][i].kind = sessions[d][i].kind
            /\ sessions'[d][i].parent = sessions[d][i].parent
            /\ i # n => sessions'[d][i].status = sessions[d][i].status
      /\ sessions'[d][n].status = "success"
      /\ Root(d)'.agent = Root(d).agent /\ Bound(d)' = Bound(d)
  BY <1>0, <1>1, Marked
<1>3. /\ sessions[d][n].status = "running" /\ n \in DOMAIN sessions[d] /\ sessions[d] # <<>>
      /\ DOMAIN sessions[d] = 1..n /\ n \in Nat /\ sessions[d][n] \in Sessions
  BY <1>0, CurrentType, LenProperties DEF Current
<1>a. \A i \in DOMAIN sessions[d] : sessions[d][i] \in Sessions
  BY <1>0, LenProperties, ElementOfSeq DEF TypeOK
<1>b. \A i \in DOMAIN sessions[d] : sessions'[d][i].status = "success"
  <2>1. \A i \in DOMAIN sessions[d] : i # n => sessions[d][i].status = "success"
    BY <1>0, <1>a DEF StatusOK, Sessions
  <2> QED
    BY <1>2, <2>1
<1>4. PICK out \in Outputs(sessions[d][n].agent) : todo' = [todo EXCEPT ![d] = Follow(d, out)]
  BY DEF RunSucceeds
<1>5. todo'[d] = Follow(d, out)
  BY <1>0, <1>4 DEF TypeOK
<1>6. StatusOK(d)'
  BY <1>0, <1>1, <1>2, <1>b DEF StatusOK
<1>7. SavedOK(d)'
  <2>1. \/ saved'[d] = saved[d] \cup {n}
        \/ sessions[d][n].agent \notin Remembers \ ToolAgents /\ saved'[d] = saved[d]
    BY <1>0 DEF RunSucceeds, TypeOK
  <2> QED
    BY <1>0, <1>2, <1>3, <1>b, <1>a, <2>1 DEF SavedOK, StatusOK, Sessions
<1>8. (\E a, b \in Nat : PlanOK(d, a, b)')
      /\ \A k \in DOMAIN todo'[d] : \/ todo'[d][k].parent = n /\ sessions[d][n].kind # "tool"
                                    \/ \E j \in DOMAIN todo[d] : todo'[d][k] = todo[d][j]
  <2>1. CASE sessions[d][n].kind = "root"
    BY <1>5, <2>1, RootPlan
  <2>2. CASE sessions[d][n].kind = "child"
    BY <1>5, <2>2, ChildPlan
  <2>3. CASE sessions[d][n].kind = "tool"
    <3>1. todo'[d] = todo[d]
      BY <1>5, <2>3 DEF Follow, FollowWith
    <3>2. PICK a \in Nat, b \in Nat : PlanOK(d, a, b)
      BY <1>0 DEF DispatchOK
    <3>3. PlanOK(d, a, b)'
      BY <1>1, <1>2, <1>3, <3>1, <3>2 DEF PlanOK
    <3> QED
      BY <3>1, <3>3
  <2> QED
    BY <1>3, <2>1, <2>2, <2>3 DEF Sessions
<1>9. TreeOK(d)'
  <2>1. ASSUME NEW k \in DOMAIN todo'[d]
        PROVE  LET p == todo'[d][k].parent IN
               /\ p \in DOMAIN sessions'[d]
               /\ sessions'[d][p].status = "success" /\ sessions'[d][p].kind # "tool"
    <3>1. CASE todo'[d][k].parent = n /\ sessions[d][n].kind # "tool"
      BY <1>2, <1>3, <3>1
    <3>2. ASSUME NEW j \in DOMAIN todo[d], todo'[d][k] = todo[d][j]
          PROVE  <2>1!2
      BY <1>0, <1>2, <1>b, <3>2 DEF TreeOK
    <3> QED
      BY <1>8, <3>1, <3>2
  <2>2. \A i \in DOMAIN sessions'[d] :
          LET s == sessions'[d][i] IN
          IF i = 1 THEN s.kind = "root" /\ s.parent = 0
          ELSE /\ s.parent \in 1..(i - 1)
               /\ sessions'[d][s.parent].status = "success"
               /\ s.kind = "child" => s.parent = 1 /\ s.agent # Root(d)'.agent
               /\ s.kind = "tool" => sessions'[d][s.parent].kind # "tool"
    BY <1>0, <1>2, <1>3, <1>b, SMTT(20) DEF TreeOK
  <2> QED
    BY <2>1, <2>2 DEF TreeOK
<1> QED
  BY <1>6, <1>7, <1>8, <1>9 DEF DispatchOK

\* The next run opens a session below the one that asked for it.
LEMMA NextRunStep ==
    ASSUME IInv, NEW d \in Dispatchers, RunNext(d)
    PROVE  DispatchOK(d)'
<1> DEFINE item == Head(todo[d])
           N == Len(sessions[d])
           T == Len(todo[d])
<1>0. /\ TypeOK /\ DispatchOK(d) /\ StatusOK(d) /\ SavedOK(d) /\ TreeOK(d) /\ at[d] = "next"
      /\ load' = load /\ saved' = saved /\ todo[d] # <<>> /\ sessions[d] # <<>>
      /\ outcome[d] = "none"
      /\ todo' = [todo EXCEPT ![d] = Tail(todo[d])]
  BY DEF IInv, DispatchOK, RunNext, Proceed, StatusOK
<1>1. /\ T \in Nat \ {0} /\ DOMAIN todo[d] = 1..T
      /\ Len(todo'[d]) = T - 1 /\ DOMAIN todo'[d] = 1..(T - 1)
      /\ \A k \in DOMAIN todo'[d] : todo'[d][k] = todo[d][k + 1] /\ k + 1 \in DOMAIN todo[d]
      /\ item = todo[d][1] /\ 1 \in DOMAIN todo[d] /\ item \in Works
  <2>1. /\ T \in Nat \ {0} /\ DOMAIN todo[d] = 1..T
        /\ Len(todo'[d]) = T - 1 /\ DOMAIN todo'[d] = 1..(T - 1)
        /\ \A k \in DOMAIN todo'[d] : todo'[d][k] = todo[d][k + 1]
        /\ item = todo[d][1] /\ 1 \in DOMAIN todo[d] /\ todo[d][1] \in Works
    BY <1>0, Taken
  <2>2. \A k \in 1..(T - 1) : k + 1 \in 1..T
    BY <2>1
  <2> QED
    BY <2>1, <2>2
<1>2. sessions[d] \in Seq(Sessions) /\ N \in Nat \ {0} /\ DOMAIN sessions[d] = 1..N
  BY <1>0, EmptySeq, LenProperties DEF TypeOK
<1>a. PICK a \in Nat, b \in Nat : PlanOK(d, a, b)
  BY <1>0 DEF DispatchOK
<1> DEFINE P == MaxIntents * b
           B == Bound(d)
<1>b. /\ a + b <= T /\ MaxIntents \in Nat /\ P \in Nat /\ B \in Nat
      /\ N + T + P <= B
  <2>1. MaxIntents \in Nat /\ B \in Nat
    BY <1>0, BoundType
  <2>2. P \in Nat
    BY <1>a, <2>1
  <2>3. a + b <= T /\ N + T + P <= B
    BY <1>0, <1>a DEF PlanOK
  <2> QED
    BY <2>1, <2>2, <2>3
<1>c. \A j \in DOMAIN sessions[d] : sessions[d][j].status = "success"
  <2>1. \A j \in DOMAIN sessions[d] : sessions[d][j] \in Sessions
    BY <1>2, ElementOfSeq
  <2> QED
    BY <1>0, <2>1 DEF StatusOK, Sessions
\* The plan that is left when the first item is gone.
<1> DEFINE a1 == IF a > 0 THEN a - 1 ELSE 0
           b1 == IF a > 0 THEN b ELSE IF b > 0 THEN b - 1 ELSE 0
           P1 == MaxIntents * b1
<1>d. a1 \in Nat /\ b1 \in Nat /\ a1 + b1 <= T - 1 /\ P1 \in Nat
  <2>1. a1 \in Nat /\ b1 \in Nat
    BY <1>a
  <2>2. a1 + b1 <= T - 1
    <3> HIDE DEF T
    <3> QED
      BY <1>1, <1>a, <1>b
  <2> QED
    BY <1>b, <2>1, <2>2
<1>e. /\ a > 0 => item.kind = "tool"
      /\ a = 0 /\ b > 0 => item.kind = "child" /\ item.parent = 1
                           /\ P1 + MaxIntents = P
      /\ a = 0 /\ b = 0 => item.kind = "tool" /\ b1 = b
      /\ a > 0 => b1 = b
  <2>1. /\ 1 <= a => item.kind = "tool"
        /\ 1 > a /\ 1 <= a + b => item.kind = "child" /\ item.parent = 1
        /\ 1 > a + b => item.kind = "tool"
    BY <1>1, <1>a DEF PlanOK
  <2>2. a = 0 /\ b > 0 => MaxIntents * (b - 1) + MaxIntents = MaxIntents * b
    BY <1>a, <1>b
  <2> QED
    BY <1>a, <2>1, <2>2
<1>f. ASSUME NEW k \in DOMAIN todo'[d]
      PROVE  LET w == todo'[d][k] IN
             /\ k <= a1 => /\ w.kind = "tool"
                           /\ \A j \in DOMAIN sessions[d] :
                                  sessions[d][j].kind = "child" => j <= w.parent
             /\ k > a1 /\ k <= a1 + b1 => w.kind = "child" /\ w.parent = 1
             /\ k > a1 + b1 => w.kind = "tool" /\ w.parent = 1
  <2> DEFINE w == todo[d][k + 1]
  <2>1. /\ k + 1 <= a => /\ w.kind = "tool"
                         /\ \A j \in DOMAIN sessions[d] :
                                sessions[d][j].kind = "child" => j <= w.parent
        /\ k + 1 > a /\ k + 1 <= a + b => w.kind = "child" /\ w.parent = 1
        /\ k + 1 > a + b => w.kind = "tool" /\ w.parent = 1
    BY <1>1, <1>a DEF PlanOK
  <2>2. k \in Nat /\ k > 0 /\ todo'[d][k] = w
    BY <1>1
  <2>3. /\ k <= a1 => k + 1 <= a
        /\ k > a1 /\ k <= a1 + b1 => k + 1 > a /\ k + 1 <= a + b
        /\ k > a1 + b1 => k + 1 > a + b
    BY <1>a, <2>2
  <2> HIDE DEF w
  <2> QED
    BY <2>1, <2>2, <2>3
<1>g. P1 <= P /\ (item.kind = "child" => a = 0 /\ b > 0 /\ a1 = 0 /\ P1 + MaxIntents <= P)
  <2>1. CASE a = 0 /\ b > 0
    BY <1>b, <1>d, <1>e, <2>1
  <2>2. CASE ~(a = 0 /\ b > 0)
    <3>1. item.kind = "tool" /\ b1 = b
      BY <1>a, <1>e, <2>2
    <3> QED
      BY <1>b, <3>1
  <2> QED
    BY <2>1, <2>2
<1>h. /\ N + (T - 1) + P1 <= B /\ (N + 1) + (T - 1) + P1 <= B
      /\ item.kind = "child" => (N + 1) + (T - 1) + P1 + MaxIntents <= B
  <2> DEFINE child == item.kind = "child"
  <2> HIDE DEF N, T, P, P1, B, child, item
  <2>1. P1 <= P /\ (child => P1 + MaxIntents <= P)
    BY <1>g DEF child
  <2>2. /\ N + (T - 1) + P1 <= B /\ (N + 1) + (T - 1) + P1 <= B
        /\ child => (N + 1) + (T - 1) + P1 + MaxIntents <= B
    BY <1>1, <1>2, <1>b, <1>d, <2>1
  <2> QED
    BY <2>2 DEF child
<1> HIDE DEF a1, b1
<1>3. CASE End(d, "raised") /\ UNCHANGED sessions
  <2>1. at'[d] = "idle" /\ outcome'[d] = "raised" /\ sessions' = sessions
        /\ Current(d)' = Current(d) /\ Root(d)' = Root(d) /\ Bound(d)' = Bound(d)
    BY <1>0, <1>3 DEF End, TypeOK, Current, Root, Bound
  <2>2. StatusOK(d)'
    BY <1>0, <1>c, <2>1 DEF StatusOK
  <2>3. SavedOK(d)' /\ TreeOK(d)'
    BY <1>0, <1>1, <2>1 DEF SavedOK, TreeOK
  <2>5. PlanOK(d, a1, b1)'
    BY <1>1, <1>d, <1>f, <1>h, <2>1 DEF PlanOK
  <2> QED
    BY <1>d, <2>2, <2>3, <2>5 DEF DispatchOK
<1>4. CASE Start(d, item.target, item.kind, item.parent) /\ ~Recursive(d, item)
  <2> DEFINE s == Session(item.target, item.kind, item.parent)
  <2>1. /\ s.kind = item.kind /\ s.parent = item.parent /\ s.agent = item.target
        /\ s.status = "running"
    BY DEF Session
  <2>2. at'[d] = "running" /\ outcome' = outcome
        /\ sessions' = [sessions EXCEPT ![d] = Append(sessions[d], s)]
    BY <1>0, <1>4 DEF Start, TypeOK
  <2> HIDE DEF s
  <2>3. /\ DOMAIN sessions'[d] = 1..(N + 1) /\ Len(sessions'[d]) = N + 1 /\ sessions'[d] # <<>>
        /\ \A i \in DOMAIN sessions[d] : sessions'[d][i] = sessions[d][i]
        /\ sessions'[d][N + 1] = s /\ Current(d)' = N + 1
        /\ Root(d)' = Root(d) /\ Bound(d)' = Bound(d)
    BY <1>0, <2>2, Added
  <2>4. StatusOK(d)'
    BY <1>0, <1>2, <1>c, <2>1, <2>2, <2>3 DEF StatusOK
  <2>5. SavedOK(d)'
    BY <1>0, <1>2, <2>1, <2>3 DEF SavedOK
  <2>6. TreeOK(d)'
    <3>1. /\ item.parent \in 1..N /\ sessions[d][item.parent].status = "success"
          /\ sessions[d][item.parent].kind # "tool"
      BY <1>0, <1>1, <1>2 DEF TreeOK
    <3>2. item.kind = "child" => item.parent = 1 /\ item.target # Root(d).agent
      BY <1>4, <1>a, <1>e DEF Recursive
    <3>3. item.kind \in {"child", "tool"}
      BY <1>1 DEF Works
    <3>4. \A i \in DOMAIN sessions[d] : i = 1 \/ sessions[d][i].parent \in DOMAIN sessions[d]
      BY <1>0, <1>2 DEF TreeOK
    <3>5. ASSUME NEW i \in DOMAIN sessions'[d]
          PROVE  LET r == sessions'[d][i] IN
                 IF i = 1 THEN r.kind = "root" /\ r.parent = 0
                 ELSE /\ r.parent \in 1..(i - 1)
                      /\ sessions'[d][r.parent].status = "success"
                      /\ r.kind = "child" => r.parent = 1 /\ r.agent # Root(d)'.agent
                      /\ r.kind = "tool" => sessions'[d][r.parent].kind # "tool"
      <4>1. CASE i \in DOMAIN sessions[d]
        BY <1>0, <2>3, <3>4, <4>1 DEF TreeOK
      <4>2. CASE i = N + 1
        <5>1. i # 1 /\ i - 1 = N /\ sessions'[d][i] = s
          BY <1>2, <2>3, <4>2
        <5>2. item.parent \in DOMAIN sessions[d]
          BY <1>2, <3>1
        <5>3. sessions'[d][item.parent] = sessions[d][item.parent]
          BY <2>3, <5>2
        <5> QED
          BY <2>1, <2>3, <3>1, <3>2, <5>1, <5>3
      <4> QED
        BY <1>2, <2>3, <4>1, <4>2
    <3>6. ASSUME NEW k \in DOMAIN todo'[d]
          PROVE  LET p == todo'[d][k].parent IN
                 /\ p \in DOMAIN sessions'[d]
                 /\ sessions'[d][p].status = "success" /\ sessions'[d][p].kind # "tool"
      <4> DEFINE p == todo'[d][k].parent
      <4>1. p = todo[d][k + 1].parent /\ k + 1 \in DOMAIN todo[d]
        BY <1>1
      <4>2. p \in DOMAIN sessions[d] /\ sessions[d][p].status = "success"
            /\ sessions[d][p].kind # "tool"
        BY <1>0, <4>1 DEF TreeOK
      <4>3. p \in DOMAIN sessions'[d]
        BY <1>2, <2>3, <4>2
      <4> QED
        BY <2>3, <4>2, <4>3
    <3> QED
      BY <3>5, <3>6 DEF TreeOK
  <2>7. PlanOK(d, a1, b1)'
    <3>2. item.kind # "root"
      BY <1>1 DEF Works
    <3>5. ASSUME NEW k \in DOMAIN todo'[d], k <= a1, NEW j \in DOMAIN sessions'[d],
                 sessions'[d][j].kind = "child"
          PROVE  j <= todo'[d][k].parent
      <4>1. a > 0
        BY <1>1, <1>a, <3>5 DEF a1
      <4>2. j # N + 1
        BY <1>e, <2>1, <2>3, <3>5, <4>1
      <4> QED
        BY <1>2, <1>f, <2>3, <3>5, <4>2
    <3> QED
      BY <1>1, <1>d, <1>f, <1>g, <1>h, <2>1, <2>2, <2>3, <3>2, <3>5 DEF PlanOK
  <2> QED
    BY <1>d, <2>4, <2>5, <2>6, <2>7 DEF DispatchOK
<1> QED
  BY <1>3, <1>4 DEF RunNext, Proceed

-----------------------------------------------------------------------------
(* The theorems.                                                           *)

\* No dispatch has begun.
LEMMA InitIInv == Init => IInv
<1> SUFFICES ASSUME Init PROVE IInv
  OBVIOUS
<1>1. TypeOK /\ load \in Loads /\ ClosedOK
  BY InitType DEF Init, ClosedOK
<1>2. ASSUME NEW d \in Dispatchers
      PROVE  DispatchOK(d)
  <2>1. /\ sessions[d] = <<>> /\ todo[d] = <<>> /\ saved[d] = {} /\ at[d] = "idle"
        /\ outcome[d] = "none" /\ DOMAIN sessions[d] = {} /\ DOMAIN todo[d] = {}
        /\ Len(todo[d]) = 0
    BY DEF Init
  <2>2. StatusOK(d) /\ SavedOK(d) /\ TreeOK(d)
    BY <2>1 DEF StatusOK, SavedOK, TreeOK
  <2>3. PlanOK(d, 0, 0)
    BY <2>1 DEF PlanOK
  <2> QED
    BY <2>2, <2>3 DEF DispatchOK
<1> QED
  BY <1>1, <1>2 DEF IInv

\* A step of one dispatcher touches no other.
LEMMA StepTouches ==
    ASSUME IInv, NEW d \in Dispatchers, Dispatch(d) \/ Step(d), NEW e \in Dispatchers, e # d
    PROVE  /\ load' = load /\ at'[e] = at[e] /\ outcome'[e] = outcome[e]
           /\ sessions'[e] = sessions[e] /\ todo'[e] = todo[e] /\ saved'[e] = saved[e]
<1>0. TypeOK
  BY DEF IInv
<1>1. CASE Dispatch(d)
  BY <1>0, <1>1 DEF TypeOK, Dispatch, End
<1>2. CASE RunSucceeds(d)
  BY <1>0, <1>2 DEF TypeOK, RunSucceeds
<1>3. CASE RunFails(d)
  BY <1>0, <1>3 DEF TypeOK, RunFails, RunEnds, End
<1>4. CASE RunNext(d)
  BY <1>0, <1>4 DEF TypeOK, RunNext, Proceed, Start, End
<1>5. CASE Return(d) \/ Interrupted(d)
  BY <1>0, <1>5 DEF TypeOK, Return, Interrupted, End, runVars
<1> QED
  BY <1>1, <1>2, <1>3, <1>4, <1>5 DEF Step

\* With the store closed, what a dispatcher may still do is to be cancelled.
LEMMA ClosedStep ==
    ASSUME IInv, Next, serving = "closed"
    PROVE  /\ \E d \in Dispatchers : Interrupted(d) \/ Return(d)
           /\ UNCHANGED <<runVars, cancelled, serving>>
<1>1. cancelled = Dispatchers /\ \A d \in Dispatchers : at[d] # "next"
  BY DEF IInv, ClosedOK
<1>2. ~StopDaemon /\ ~CloseRuntime
  BY DEF StopDaemon, CloseRuntime
<1>3. \A d \in Dispatchers : ~Dispatch(d) /\ ~RunSucceeds(d) /\ ~RunFails(d) /\ ~RunNext(d)
  BY <1>1 DEF Dispatch, RunSucceeds, RunFails, RunEnds, RunNext, Proceed
<1> QED
  BY <1>2, <1>3 DEF Next, Step, Interrupted, Return

\* Nothing begins once the runtime is closed.
LEMMA ClosedOKStep ==
    ASSUME IInv, [Next]_vars
    PROVE  ClosedOK'
<1>0. TypeOK /\ ClosedOK
  BY DEF IInv
<1>1. CASE UNCHANGED vars
  BY <1>0, <1>1 DEF vars, taskVars, ClosedOK
<1>2. CASE Next /\ serving = "closed"
  <2>1. PICK d \in Dispatchers : Interrupted(d) \/ Return(d)
    BY <1>2, ClosedStep
  <2>2. \A e \in Dispatchers : at'[e] = at[e] \/ at'[e] \in {"idle", "ended"}
    BY <1>0, <2>1 DEF Interrupted, Return, End, TypeOK
  <2> QED
    BY <1>0, <1>2, <2>2, ClosedStep DEF ClosedOK
<1>3. CASE Next /\ serving # "closed" /\ serving' = "closed"
  <2>1. CloseRuntime
    BY <1>3 DEF Next, Dispatch, Step, RunSucceeds, RunFails, RunEnds, RunNext, Proceed, Return,
                Interrupted, StopDaemon
  <2> QED
    BY <2>1 DEF CloseRuntime, ClosedOK, taskVars
<1>4. CASE serving' # "closed"
  BY <1>4 DEF ClosedOK
<1> QED
  BY <1>1, <1>2, <1>3, <1>4

\* Every step keeps the invariant.
LEMMA NextIInv == IInv /\ [Next]_vars => IInv'
<1> SUFFICES ASSUME IInv, [Next]_vars PROVE IInv'
  OBVIOUS
<1>1. TypeOK' /\ load' \in Loads /\ ClosedOK'
  BY NextType, ClosedOKStep DEF IInv
<1>2. ASSUME NEW e \in Dispatchers
      PROVE  DispatchOK(e)'
  <2>0. DispatchOK(e)
    BY DEF IInv
  <2>1. ASSUME NEW d \in Dispatchers, Dispatch(d) \/ Step(d)
        PROVE  DispatchOK(e)'
    <3>1. CASE e = d
      BY <1>1, <2>1, <3>1, DispatchStep, SucceedsStep, FailsStep, NextRunStep, LeaveStep DEF Step
    <3>2. CASE e # d
      BY <2>0, <2>1, <3>2, StepTouches, OthersOK
    <3> QED
      BY <3>1, <3>2
  <2>2. CASE StopDaemon \/ CloseRuntime \/ UNCHANGED vars
    BY <2>0, <2>2, OthersOK DEF StopDaemon, CloseRuntime, vars, taskVars, runVars
  <2> QED
    BY <2>1, <2>2 DEF Next
<1> QED
  BY <1>1, <1>2 DEF IInv

\* The inductive invariant holds in every reachable state: what the place of a
\* dispatcher's task, its sessions, the work left and the memory store say of
\* each other.
THEOREM Invariance == Spec => []IInv
BY InitIInv, NextIInv, PTL DEF Spec

\* Every variable keeps its type, whatever the models answer.
THEOREM TypeCorrect == Spec => []TypeOK
<1>1. IInv => TypeOK
  BY DEF IInv
<1> QED
  BY Invariance, <1>1, PTL

\* Whatever the models put into their outputs, the runs of an event form the
\* bounded tree the runtime intends, a child's intents before the next action.
THEOREM RunsFormTree == Spec => []RunTree
<1>1. IInv => RunTree
  <2> SUFFICES ASSUME IInv, NEW d \in Dispatchers
               PROVE  /\ \A i \in DOMAIN sessions[d] :
                            LET s == sessions[d][i] IN
                            IF i = 1 THEN s.kind = "root" /\ s.parent = 0
                            ELSE /\ s.parent \in 1..(i - 1)
                                 /\ sessions[d][s.parent].status = "success"
                                 /\ s.kind = "child" => s.parent = 1 /\ s.agent # Root(d).agent
                                 /\ s.kind = "tool" => sessions[d][s.parent].kind # "tool"
                      /\ sessions[d] # <<>> =>
                            Len(sessions[d]) <=
                                1 + load.children[Root(d).agent] * (1 + MaxIntents) + MaxIntents
                      /\ \A i, j \in DOMAIN sessions[d] :
                            (i < j /\ sessions[d][j].kind = "child") =>
                                \A k \in DOMAIN todo[d] : todo[d][k].parent = i => i = 1
    BY DEF RunTree, TreeShape, RunsBounded, IntentsBeforeNextAction
  <2>0. TypeOK /\ TreeOK(d)
    BY DEF IInv, DispatchOK
  <2>1. PICK a \in Nat, b \in Nat : PlanOK(d, a, b)
    BY DEF IInv, DispatchOK
  <2>2. todo[d] \in Seq(Works) /\ Len(todo[d]) \in Nat /\ DOMAIN todo[d] = 1..Len(todo[d])
        /\ sessions[d] \in Seq(Sessions) /\ Len(sessions[d]) \in Nat
        /\ DOMAIN sessions[d] = 1..Len(sessions[d])
    BY <2>0, LenProperties DEF TypeOK, Works
  <2>3. ASSUME sessions[d] # <<>>
        PROVE  Len(sessions[d]) <= Bound(d)
    <3>1. Bound(d) \in Nat /\ MaxIntents \in Nat
      BY <2>3, BoundType
    <3>2. MaxIntents * b \in Nat
      BY <2>1, <3>1
    <3>3. Len(sessions[d]) + Len(todo[d]) + MaxIntents * b <= Bound(d)
      BY <2>1, <2>3 DEF PlanOK
    <3> DEFINE N == Len(sessions[d])
               T == Len(todo[d])
               P == MaxIntents * b
    <3>4. N \in Nat /\ T \in Nat /\ P \in Nat /\ N + T + P <= Bound(d)
      BY <2>2, <3>2, <3>3
    <3> HIDE DEF N, T, P
    <3>5. N <= Bound(d)
      BY <3>1, <3>4
    <3> QED
      BY <3>5 DEF N
  <2>4. ASSUME NEW i \in DOMAIN sessions[d], NEW j \in DOMAIN sessions[d], i < j,
               sessions[d][j].kind = "child", NEW k \in DOMAIN todo[d], todo[d][k].parent = i
        PROVE  i = 1
    <3>1. CASE k <= a
      <4>1. j <= todo[d][k].parent
        BY <2>1, <2>4, <3>1 DEF PlanOK
      <4> QED
        BY <2>2, <2>4, <4>1
    <3>2. CASE ~(k <= a)
      <4>1. k > a /\ (k <= a + b \/ k > a + b)
        BY <2>1, <2>2, <3>2
      <4> QED
        BY <2>1, <2>4, <4>1 DEF PlanOK
    <3> QED
      BY <3>1, <3>2
  <2> QED
    BY <2>0, <2>3, <2>4 DEF TreeOK, Bound
<1> QED
  BY Invariance, <1>1, PTL

\* Sessions and the memory store say of each run how it ended.
THEOREM SessionsAreTrue == Spec => []SessionsTellTheTruth
<1>1. IInv => SessionsTellTheTruth
  <2> SUFFICES ASSUME IInv PROVE SessionsTellTheTruth
    OBVIOUS
  <2>1. ASSUME NEW d \in Dispatchers
        PROVE  /\ StatusOK(d) /\ SavedOK(d)
               /\ \A i \in DOMAIN sessions[d] : sessions[d][i] \in Sessions
    BY <2>1, LenProperties, ElementOfSeq DEF IInv, DispatchOK, TypeOK
  <2>2. FailureEnds
    BY <2>1 DEF FailureEnds, StatusOK, Sessions
  <2>3. SummariesMatch
    BY <2>1 DEF SummariesMatch, SavedOK
  <2> QED
    BY <2>2, <2>3 DEF SessionsTellTheTruth
<1> QED
  BY Invariance, <1>1, PTL

\* Once the runtime is shut down no run starts or ends and nothing is written
\* to its memory store: close cancelled the tasks with the same step.
THEOREM ClosedIsQuiet == Spec => ClosedMeansQuiet
<1>1. IInv /\ [Next]_vars => [serving = "closed" => UNCHANGED runVars]_vars
  BY ClosedStep
<1> QED
  BY Invariance, <1>1, PTL DEF Spec, ClosedMeansQuiet

-----------------------------------------------------------------------------
(* The context of a run.                                                   *)

Additions == [first : Nat, last : Nat, whole : Nat, pinned : BOOLEAN, length : Nat]

\* What is pinned comes first, and what is not is whole, up to the last addition.
PinnedFirst(its, n, p) ==
    \A i \in 1..Len(its) :
        /\ its[i].pinned <=> i <= p
        /\ i > p => its[i].first = its[i].last /\ its[i].last = n - Len(its) + i

\* Each item goes on where the one before it ended.
Chained(its, n) ==
    /\ \A i \in 1..Len(its) :
          /\ its[i].first = IF i = 1 THEN 1 ELSE its[i - 1].last + 1
          /\ its[i].last \in its[i].first..n
          /\ its[i].last > n - KeepRecent => its[i].first = its[i].last
    /\ n > 0 => its # <<>> /\ its[Len(its)].last = n

\* Text is lost only by a summary that is full, and the event is the first item.
Texts(its, n) ==
    /\ \A i \in 1..Len(its) :
          /\ its[i].whole \in (its[i].first - 1)..its[i].last
          /\ its[i].whole < its[i].last =>
                /\ its[i].pinned /\ its[i].length = MaxSummary
                /\ its[i].last <= n - KeepRecent
    /\ n > 0 => its[1].pinned /\ its[1].last = 1 /\ its[1].whole = 1

ContextOK(its, n) ==
    /\ its \in Seq(Additions) /\ n \in Nat
    /\ \E p \in 0..Len(its) : PinnedFirst(its, n, p)
    /\ Chained(its, n) /\ Texts(its, n)

\* The constants are numbers.
LEMMA Bounds ==
    /\ MaxSteps \in Nat \ {0} /\ MaxChars \in Nat \ {0} /\ KeepRecent \in Nat \ {0}
    /\ MaxSummary \in Nat /\ MaxSummary > Ellipsis /\ Heading \in Nat
    /\ Long \in Nat \ {0} /\ MaxCalls \in Nat
BY LoopAssumption

\* An addition that is not pinned.
LEMMA AddKeeps ==
    ASSUME NEW its, NEW n, ContextOK(its, n), n > 0, NEW length \in Nat
    PROVE  ContextOK(Append(its, Entry(n + 1, FALSE, length)), n + 1)
<1> DEFINE e == Entry(n + 1, FALSE, length)
           new == Append(its, e)
<1>1. its \in Seq(Additions) /\ n \in Nat /\ Chained(its, n) /\ Len(its) \in Nat
  BY DEF ContextOK
<1>2. PICK p \in 0..Len(its) : PinnedFirst(its, n, p)
  BY DEF ContextOK
<1>3. /\ e \in Additions /\ e.first = n + 1 /\ e.last = n + 1 /\ e.pinned = FALSE
      /\ e.whole = n + 1
  BY <1>1 DEF Entry, Additions
<1> HIDE DEF e
<1>4. /\ new \in Seq(Additions) /\ Len(new) = Len(its) + 1 /\ new[Len(its) + 1] = e
      /\ \A i \in 1..Len(its) : new[i] = its[i]
  BY <1>1, <1>3
<1> HIDE DEF new
<1>5. \A i \in 1..Len(new) : i \in 1..Len(its) \/ i = Len(its) + 1
  BY <1>1, <1>4
<1>6. \A i \in 1..Len(its) : its[i].first \in Nat /\ its[i].last \in Nat
  <2>1. \A i \in 1..Len(its) : its[i] \in Additions
    BY <1>1
  <2> QED
    BY <2>1 DEF Additions
<1>7. PinnedFirst(new, n + 1, p)
  <2> SUFFICES ASSUME NEW i \in 1..Len(new)
               PROVE  /\ new[i].pinned <=> i <= p
                      /\ i > p => new[i].first = new[i].last /\ new[i].last = (n + 1) - Len(new) + i
    BY Zenon DEF PinnedFirst
  <2>1. CASE i = Len(its) + 1
    BY <1>1, <1>2, <1>3, <1>4, <2>1
  <2>2. CASE i \in 1..Len(its)
    <3>1. /\ its[i].pinned <=> i <= p
          /\ i > p => its[i].first = its[i].last /\ its[i].last = n - Len(its) + i
      BY <1>2, <2>2 DEF PinnedFirst
    <3> QED
      BY <1>1, <1>4, <2>2, <3>1
  <2> QED
    BY <1>5, <2>1, <2>2
<1>8. Len(its) > 0 => its[Len(its)].last = n
  <2>1. CASE n > 0
    BY <1>1, <2>1 DEF Chained
  <2>2. CASE n = 0
    <3>1. ASSUME Len(its) > 0 PROVE FALSE
      <4>1. 1 \in 1..Len(its)
        BY <1>1, <3>1
      <4>2. its[1].first = 1 /\ its[1].last \in its[1].first..n
        BY <1>1, <4>1 DEF Chained
      <4> QED
        BY <2>2, <4>2
    <3> QED
      BY <3>1
  <2> QED
    BY <1>1, <2>1, <2>2
<1>9. Len(its) = 0 => n = 0
  BY <1>1 DEF Chained
<1>10. Chained(new, n + 1)
  <2>1. ASSUME NEW i \in 1..Len(new)
        PROVE  /\ new[i].first = IF i = 1 THEN 1 ELSE new[i - 1].last + 1
               /\ new[i].last \in new[i].first..(n + 1)
               /\ new[i].last > (n + 1) - KeepRecent => new[i].first = new[i].last
    <3>1. CASE i = Len(its) + 1
      <4>1. CASE i = 1
        BY <1>1, <1>3, <1>4, <1>9, <3>1, <4>1
      <4>2. CASE i # 1
        <5>1. i - 1 = Len(its) /\ Len(its) > 0 /\ Len(its) \in 1..Len(its)
          BY <1>1, <3>1, <4>2
        <5> QED
          BY <1>1, <1>3, <1>4, <1>8, <3>1, <4>2, <5>1
      <4> QED
        BY <4>1, <4>2
    <3>2. CASE i \in 1..Len(its)
      <4>1. /\ its[i].first = IF i = 1 THEN 1 ELSE its[i - 1].last + 1
            /\ its[i].last \in its[i].first..n
            /\ its[i].last > n - KeepRecent => its[i].first = its[i].last
        BY <1>1, <3>2 DEF Chained
      <4>2. i # 1 => i - 1 \in 1..Len(its)
        BY <3>2
      <4>3. new[i] = its[i] /\ (i # 1 => new[i - 1] = its[i - 1])
        BY <1>4, <3>2, <4>2
      <4> QED
        BY <1>1, <1>6, <3>2, <4>1, <4>3, Bounds
    <3> QED
      BY <1>5, <2>1, <3>1, <3>2
  <2>2. new # <<>> /\ new[Len(new)].last = n + 1
    BY <1>1, <1>3, <1>4
  <2> QED
    BY <2>1, <2>2, Zenon DEF Chained
<1>11. p \in 0..Len(new) /\ n + 1 \in Nat
  BY <1>1, <1>2, <1>4
<1>12. Texts(new, n + 1)
  <2>1. Texts(its, n) /\ KeepRecent \in Nat /\ its # <<>>
    BY <1>1, Bounds DEF ContextOK, Chained
  <2>2. ASSUME NEW i \in 1..Len(new)
        PROVE  /\ new[i].whole \in (new[i].first - 1)..new[i].last
               /\ new[i].whole < new[i].last =>
                     /\ new[i].pinned /\ new[i].length = MaxSummary
                     /\ new[i].last <= (n + 1) - KeepRecent
    <3>1. CASE i = Len(its) + 1
      BY <1>1, <1>3, <1>4, <3>1
    <3>2. CASE i \in 1..Len(its)
      <4>1. new[i] = its[i]
        BY <1>4, <3>2
      <4>2. /\ its[i].whole \in (its[i].first - 1)..its[i].last
            /\ its[i].whole < its[i].last =>
                  /\ its[i].pinned /\ its[i].length = MaxSummary
                  /\ its[i].last <= n - KeepRecent
        BY <2>1, <3>2 DEF Texts
      <4>3. its[i].last <= n - KeepRecent => its[i].last <= (n + 1) - KeepRecent
        BY <1>1, <1>6, <2>1, <3>2
      <4> QED
        BY <4>1, <4>2, <4>3
    <3> QED
      BY <1>5, <2>2, <3>1, <3>2
  <2>3. 1 \in 1..Len(its)
    BY <1>1, <2>1
  <2>4. new[1].pinned /\ new[1].last = 1 /\ new[1].whole = 1
    BY <1>4, <2>1, <2>3 DEF Texts
  <2> QED
    BY <2>2, <2>4 DEF Texts
<1>13. ContextOK(new, n + 1)
  BY <1>4, <1>7, <1>10, <1>11, <1>12, Zenon DEF ContextOK
<1> QED
  BY <1>13 DEF new, e

\* The two parts of a context.
LEMMA TwoParts ==
    ASSUME NEW its \in Seq(Additions), NEW n, NEW p \in 0..Len(its), PinnedFirst(its, n, p)
    PROVE  /\ Pinned(its) = SubSeq(its, 1, p)
           /\ Movable(its) = SubSeq(its, p + 1, Len(its))
<1> DEFINE a == SubSeq(its, 1, p)
           b == SubSeq(its, p + 1, Len(its))
           A == {item \in ToSet(its) : item.pinned}
           B == {item \in ToSet(its) : ~item.pinned}
<1>0. Len(its) \in Nat /\ p \in Nat /\ p <= Len(its)
  OBVIOUS
<1>1. a \in Seq(Additions) /\ b \in Seq(Additions) /\ its = a \o b
  <2>1. a \in Seq(Additions) /\ b \in Seq(Additions)
    BY <1>0
  <2>2. SubSeq(its, 1, Len(its)) = its
    BY <1>0
  <2>3. SubSeq(its, 1, p) \o SubSeq(its, p + 1, Len(its)) = SubSeq(its, 1, Len(its))
    <3>1. 1 \in 1..(Len(its) + 1) /\ p \in (1 - 1)..Len(its) /\ Len(its) \in p..Len(its)
      BY <1>0
    <3> QED
      BY <3>1, ConcatAdjacentSubSeq
  <2> QED
    BY <2>1, <2>2, <2>3
<1>2. /\ DOMAIN a = 1..p /\ DOMAIN b = 1..(Len(its) - p)
      /\ \A i \in 1..p : a[i] = its[i] /\ i \in DOMAIN its
      /\ \A i \in 1..(Len(its) - p) : b[i] = its[p + i] /\ p + i \in DOMAIN its /\ p + i > p
  BY <1>0
<1> HIDE DEF a, b
<1>3. \A i \in DOMAIN a : a[i] \in A /\ a[i] \notin B
  BY <1>2 DEF PinnedFirst, ToSet
<1>4. \A i \in DOMAIN b : b[i] \in B /\ b[i] \notin A
  BY <1>2 DEF PinnedFirst, ToSet
<1> HIDE DEF A, B
<1>5. /\ Among(a \o b, A) = Among(a, A) \o Among(b, A)
      /\ Among(a \o b, B) = Among(a, B) \o Among(b, B)
  <2>1. Among(a \o b, A) = Among(a, A) \o Among(b, A)
    BY <1>1, AmongConcat
  <2>2. Among(a \o b, B) = Among(a, B) \o Among(b, B)
    BY <1>1, AmongConcat
  <2> QED
    BY <2>1, <2>2
<1>6. Among(a, A) = a /\ Among(b, A) = <<>> /\ Among(a, B) = <<>> /\ Among(b, B) = b
  BY <1>1, <1>3, <1>4, AmongAllOrNone
<1>7. Among(its, A) = a \o <<>> /\ Among(its, B) = <<>> \o b
  BY <1>1, <1>5, <1>6, Zenon
<1>8. Among(its, A) = a /\ Among(its, B) = b
  BY <1>1, <1>7
<1> QED
  BY <1>8 DEF Pinned, Movable, A, B, a, b

\* What a summary has of the items it is made of: all their text, or as much as fills it.
LEMMA AboutSummary ==
    ASSUME NEW its \in Seq(Additions), its # <<>>, its[1].first > 0,
           NEW s, s = SummaryOf(its)
    PROVE  /\ s \in Additions /\ s.pinned = TRUE
           /\ s.first = its[1].first /\ s.last = its[Len(its)].last
           /\ s.whole \in (s.first - 1)..(s.first - 1 + Len(its))
           /\ s.whole < s.first - 1 + Len(its) => s.length = MaxSummary
<1> DEFINE l == Len(its)
           lines == [i \in 1..l |-> its[i].length + Heading]
<1>1. l \in Nat \ {0} /\ DOMAIN its = 1..l /\ \A i \in 1..l : its[i] \in Additions
  OBVIOUS
<1>2. \A i \in 1..l : its[i].first \in Nat /\ its[i].last \in Nat /\ its[i].length \in Nat
  BY <1>1 DEF Additions
<1>3. LinesTo(its, l) \in Nat
  <2>1. \A i \in 1..l : its[i].length + Heading \in Nat
    BY <1>2, Bounds
  <2>2. lines \in Seq(Nat)
    BY <1>1, <2>1
  <2> HIDE DEF lines
  <2>3. Total(lines) \in Nat
    BY <2>2, TotalNat
  <2> QED
    BY <2>3 DEF LinesTo, lines
<1>4. /\ Cardinality(Uncut(its)) \in 0..l
      /\ LinesTo(its, l) <= MaxSummary => Cardinality(Uncut(its)) = l
  <2>1. IsFiniteSet(1..l) /\ Cardinality(1..l) = l
    <3>1. 1 \in Int /\ l \in Int /\ ~(1 > l) /\ l - 1 + 1 = l
      BY <1>1
    <3> QED
      BY <3>1, FS_Interval
  <2>2. Uncut(its) \subseteq 1..l
    BY <1>1 DEF Uncut
  <2>3. IsFiniteSet(Uncut(its)) /\ Cardinality(Uncut(its)) <= l
    BY <2>1, <2>2, FS_Subset
  <2>4. Cardinality(Uncut(its)) \in Nat
    BY <2>3, FS_CardinalityType
  <2>5. LinesTo(its, l) <= MaxSummary => Uncut(its) = 1..l
    BY <1>1 DEF Uncut
  <2> QED
    BY <1>1, <2>1, <2>3, <2>4, <2>5
<1>5. PICK c \in 0..l : c = Cardinality(Uncut(its))
  BY <1>4
<1>6. PICK t \in Nat : t = LinesTo(its, l)
  BY <1>3
<1>7. PICK m \in Nat : m = Least(t, MaxSummary) /\ (t > MaxSummary => m = MaxSummary)
  BY Bounds DEF Least
<1>8. PICK f \in Nat : f = its[1].first /\ f > 0
  BY <1>1, <1>2
<1>9. s = [first |-> f, last |-> its[l].last, whole |-> f - 1 + c, pinned |-> TRUE, length |-> m]
  BY <1>5, <1>6, <1>7, <1>8 DEF SummaryOf
<1>10. its[l].last \in Nat /\ f - 1 + c \in (f - 1)..(f - 1 + l) /\ f - 1 + c \in Nat
  BY <1>1, <1>2, <1>5, <1>8
<1>11. f - 1 + c < f - 1 + l => m = MaxSummary
  BY <1>1, <1>4, <1>5, <1>6, <1>7, <1>8, Bounds
<1> QED
  BY <1>7, <1>8, <1>9, <1>10, <1>11 DEF Additions

\* What a compaction makes of a context: the recent items stay, and those before
\* them that were not pinned become one that is.
LEMMA AboutCompacted ==
    ASSUME NEW its \in Seq(Additions), NEW n, NEW p \in 0..Len(its), PinnedFirst(its, n, p),
           \A i \in 1..Len(its) : its[i].first > 0
    PROVE  \/ Compacted(its) = its
           \/ LET new == Compacted(its)
                  h   == Len(its) - KeepRecent - p - 1
              IN  /\ h \in Nat /\ new \in Seq(Additions) /\ Len(new) = Len(its) - h
                  /\ \A i \in 1..p : new[i] = its[i]
                  /\ new[p + 1].first = its[p + 1].first /\ new[p + 1].last = its[p + 1 + h].last
                  /\ new[p + 1].pinned
                  /\ new[p + 1].whole \in (its[p + 1].first - 1)..(its[p + 1].first + h)
                  /\ new[p + 1].whole < its[p + 1].first + h => new[p + 1].length = MaxSummary
                  /\ \A i \in (p + 2)..Len(new) : new[i] = its[i + h]
<1> DEFINE m == SubSeq(its, p + 1, Len(its))
           l == Len(its)
           old == SubSeq(m, 1, Len(m) - KeepRecent)
           keep == SubSeq(m, Len(old) + 1, Len(m))
           s == SummaryOf(old)
           first == SubSeq(its, 1, p)
           new == first \o <<s>> \o keep
           h == l - KeepRecent - p - 1
<1>1. /\ Movable(its) = m /\ Pinned(its) = first
  BY TwoParts
<1>2. Compacted(its) = IF Length(its) <= MaxChars \/ old = <<>> THEN its ELSE new
  BY <1>1 DEF Compacted
<1>3. CASE Length(its) <= MaxChars \/ old = <<>>
  BY <1>2, <1>3
<1>4. CASE ~(Length(its) <= MaxChars \/ old = <<>>)
  <2>0. l \in Nat /\ p \in 0..l /\ KeepRecent \in Nat \ {0}
    BY Bounds
  <2>1. /\ m \in Seq(Additions) /\ Len(m) = l - p /\ \A i \in 1..(l - p) : m[i] = its[p + i]
    BY <2>0
  <2>2. l - p - KeepRecent >= 1
    <3>1. ASSUME ~(l - p - KeepRecent >= 1) PROVE FALSE
      <4>1. old = <<>>
        BY <2>0, <2>1, <3>1
      <4> QED
        BY <1>4, <4>1
    <3> QED
      BY <2>0, <3>1
  <2> HIDE DEF m
  <2>3. h \in Nat /\ Len(m) - KeepRecent = h + 1
    BY <2>0, <2>1, <2>2
  <2>4. /\ old \in Seq(Additions) /\ Len(old) = h + 1 /\ old[1] = its[p + 1]
        /\ old[h + 1] = its[p + 1 + h]
    <3>1. PICK k : k = h + 1
      OBVIOUS
    <3>2. k \in 1..Len(m) /\ old = SubSeq(m, 1, k) /\ k = l - KeepRecent - p
      <4>1. PICK length \in Nat : length = Len(m)
        BY <2>0, <2>1
      <4>2. length - KeepRecent = k /\ k \in Nat /\ k >= 1 /\ length = l - p
        BY <2>1, <2>3, <3>1, <4>1
      <4>3. k \in 1..length /\ k = l - KeepRecent - p
        BY <2>0, <4>2
      <4> QED
        BY <4>1, <4>2, <4>3
    <3>3. SubSeq(m, 1, k) \in Seq(Additions) /\ Len(SubSeq(m, 1, k)) = k
      BY <2>1, <3>2
    <3>4. \A i \in 1..k : SubSeq(m, 1, k)[i] = m[i]
      BY <2>1, <3>2
    <3>5. m[1] = its[p + 1] /\ m[k] = its[p + k]
      <4>1. 1 \in 1..(l - p) /\ k \in 1..(l - p)
        BY <2>0, <2>1, <3>2
      <4> QED
        BY <2>1, <4>1
    <3>6. p + k = p + 1 + h
      BY <2>0, <2>3, <3>1
    <3>7. 1 \in 1..k /\ h + 1 = k /\ k \in 1..k
      BY <2>1, <3>1, <3>2
    <3>8. SubSeq(m, 1, k)[1] = its[p + 1] /\ SubSeq(m, 1, k)[k] = its[p + 1 + h]
      BY <3>4, <3>5, <3>6, <3>7
    <3> HIDE DEF h, old
    <3> QED
      BY <3>2, <3>3, <3>7, <3>8
  <2> HIDE DEF old
  <2>5. /\ keep \in Seq(Additions) /\ Len(keep) = KeepRecent
        /\ \A j \in 1..KeepRecent : keep[j] = its[p + h + 1 + j]
    <3>1. PICK k : k = h + 1
      OBVIOUS
    <3>2. k \in 1..Len(m) /\ keep = SubSeq(m, k + 1, Len(m)) /\ Len(m) = k + KeepRecent
      BY <2>0, <2>1, <2>3, <2>4, <3>1
    <3>3. /\ SubSeq(m, k + 1, Len(m)) \in Seq(Additions)
          /\ Len(SubSeq(m, k + 1, Len(m))) = KeepRecent
      <4>1. \A j \in (k + 1)..Len(m) : m[j] \in Additions
        <5>1. \A j \in 1..Len(m) : m[j] \in Additions
          BY <2>1, ElementOfSeq
        <5>2. \A j \in (k + 1)..Len(m) : j \in 1..Len(m)
          BY <3>2
        <5> QED
          BY <5>1, <5>2
      <4>2. k + 1 \in Int /\ Len(m) \in Int /\ k + 1 <= Len(m) /\ Len(m) - (k + 1) + 1 = KeepRecent
        <5>1. PICK length : length = Len(m)
          OBVIOUS
        <5>2. length \in Nat /\ k \in 1..length /\ length = k + KeepRecent
          BY <2>1, <3>2, <5>1
        <5>3. k + 1 \in Int /\ length \in Int /\ k + 1 <= length
              /\ length - (k + 1) + 1 = KeepRecent
          BY <2>0, <5>2
        <5> QED
          BY <5>1, <5>3
      <4>3. /\ SubSeq(m, k + 1, Len(m)) \in Seq(Additions)
            /\ Len(SubSeq(m, k + 1, Len(m))) = Len(m) - (k + 1) + 1
        BY <4>1, <4>2, SubSeqProperties
      <4> QED
        BY <4>2, <4>3
    <3>4. \A j \in 1..KeepRecent : SubSeq(m, k + 1, Len(m))[j] = m[k + j]
      <4>1. \A j \in (k + 1)..Len(m) : m[j] \in Additions
        <5>1. \A j \in 1..Len(m) : m[j] \in Additions
          BY <2>1, ElementOfSeq
        <5>2. \A j \in (k + 1)..Len(m) : j \in 1..Len(m)
          BY <3>2
        <5> QED
          BY <5>1, <5>2
      <4>2. PICK length : length = Len(m)
        OBVIOUS
      <4>3. length \in Nat /\ k \in 1..length /\ length = k + KeepRecent
        BY <2>1, <3>2, <4>2
      <4>4. /\ k + 1 \in Int /\ length \in Int
            /\ 1..KeepRecent = 1..(length - (k + 1) + 1)
            /\ \A j \in 1..KeepRecent : (k + 1) + j - 1 = k + j
        BY <2>0, <4>3
      <4>5. \A j \in 1..(Len(m) - (k + 1) + 1) :
              SubSeq(m, k + 1, Len(m))[j] = m[(k + 1) + j - 1]
        <5>1. k + 1 \in Int /\ Len(m) \in Int
          BY <4>2, <4>4
        <5> QED
          BY <4>1, <5>1, SubSeqProperties
      <4> QED
        BY <4>2, <4>4, <4>5, Zenon
    <3>5. \A j \in 1..KeepRecent : k + j \in 1..(l - p) /\ p + (k + j) = p + h + 1 + j
      BY <2>0, <2>1, <2>3, <3>1, <3>2
    <3>6. ASSUME NEW j \in 1..KeepRecent PROVE keep[j] = its[p + h + 1 + j]
      <4>1. keep[j] = m[k + j]
        BY <3>2, <3>4, Zenon
      <4>2. m[k + j] = its[p + (k + j)]
        BY <2>1, <3>5
      <4> QED
        BY <3>5, <4>1, <4>2, Zenon
    <3> QED
      BY <3>2, <3>3, <3>6, Zenon
  <2> HIDE DEF keep
  <2>6. /\ s \in Additions /\ s.first = its[p + 1].first /\ s.last = its[p + 1 + h].last
        /\ s.pinned = TRUE
        /\ s.whole \in (its[p + 1].first - 1)..(its[p + 1].first + h)
        /\ s.whole < its[p + 1].first + h => s.length = MaxSummary
    <3>1. p + 1 \in 1..l
      BY <2>0, <2>2
    <3>2. old # <<>> /\ old[1].first > 0 /\ its[p + 1].first \in Nat
      <4>1. PICK a : a = its[p + 1]
        OBVIOUS
      <4>2. a \in Additions /\ a.first > 0 /\ a = old[1] /\ old # <<>>
        BY <2>3, <2>4, <3>1, <4>1
      <4>3. a.first \in Nat
        BY <4>2 DEF Additions
      <4> QED
        BY <4>1, <4>2, <4>3, Zenon
    <3>3. /\ s \in Additions /\ s.pinned = TRUE
          /\ s.first = old[1].first /\ s.last = old[Len(old)].last
          /\ s.whole \in (s.first - 1)..(s.first - 1 + Len(old))
          /\ s.whole < s.first - 1 + Len(old) => s.length = MaxSummary
      BY <2>4, <3>2, AboutSummary
    <3>4. s.first - 1 + Len(old) = its[p + 1].first + h
      <4>1. PICK f \in Nat : f = its[p + 1].first
        BY <3>2
      <4>2. f - 1 + (h + 1) = f + h
        BY <2>3
      <4>3. s.first = f /\ Len(old) = h + 1
        BY <2>4, <3>3, <4>1
      <4> QED
        BY <4>1, <4>2, <4>3
    <3> QED
      BY <2>4, <3>3, <3>4
  <2> HIDE DEF s
  <2>7. first \in Seq(Additions) /\ Len(first) = p /\ \A i \in 1..p : first[i] = its[i]
    BY <2>0
  <2> HIDE DEF first
  <2>8. /\ first \o <<s>> \in Seq(Additions) /\ Len(first \o <<s>>) = p + 1
        /\ \A i \in 1..p : (first \o <<s>>)[i] = its[i]
        /\ (first \o <<s>>)[p + 1] = s
    <3>1. PICK one : one = <<s>>
      OBVIOUS
    <3>2. one \in Seq(Additions) /\ Len(one) = 1 /\ one[1] = s
      BY <2>6, <3>1
    <3>3. /\ first \o one \in Seq(Additions) /\ Len(first \o one) = p + 1
          /\ \A i \in 1..(p + 1) : (first \o one)[i] = IF i <= p THEN first[i] ELSE one[i - p]
      <4>1. first \in Seq(Additions) /\ one \in Seq(Additions)
        BY <2>7, <3>2
      <4>2. /\ first \o one \in Seq(Additions) /\ Len(first \o one) = Len(first) + Len(one)
            /\ \A i \in 1..(Len(first) + Len(one)) :
                  (first \o one)[i] = IF i <= Len(first) THEN first[i] ELSE one[i - Len(first)]
        BY <4>1, ConcatProperties
      <4>3. Len(first) = p /\ Len(one) = 1
        BY <2>7, <3>2
      <4> QED
        BY <4>2, <4>3
    <3>4. \A i \in 1..p : i \in 1..(p + 1) /\ i <= p
      BY <2>0
    <3>5. p + 1 \in 1..(p + 1) /\ ~(p + 1 <= p) /\ (p + 1) - p = 1
      BY <2>0
    <3> QED
      BY <2>7, <3>1, <3>2, <3>3, <3>4, <3>5
  <2>9. PICK f : f = first \o <<s>>
    OBVIOUS
  <2>10. /\ f \in Seq(Additions) /\ Len(f) = p + 1 /\ new = f \o keep
         /\ (\A i \in 1..p : f[i] = its[i]) /\ f[p + 1] = s
    BY <2>8, <2>9, Zenon
  <2> HIDE DEF new
  <2>11. /\ new \in Seq(Additions) /\ Len(new) = p + 1 + KeepRecent
         /\ \A i \in 1..(p + 1 + KeepRecent) :
               new[i] = IF i <= p + 1 THEN f[i] ELSE keep[i - (p + 1)]
    <3>1. /\ f \o keep \in Seq(Additions) /\ Len(f \o keep) = Len(f) + Len(keep)
          /\ \A i \in 1..(Len(f) + Len(keep)) :
                (f \o keep)[i] = IF i <= Len(f) THEN f[i] ELSE keep[i - Len(f)]
      BY <2>5, <2>10, ConcatProperties
    <3> QED
      BY <2>5, <2>10, <3>1
  <2>12. Len(new) = l - h
    BY <2>0, <2>3, <2>11
  <2>13. \A i \in 1..p : new[i] = its[i]
    BY <2>0, <2>10, <2>11
  <2>14. new[p + 1] = s
    BY <2>0, <2>10, <2>11
  <2>15. ASSUME NEW i \in (p + 2)..Len(new) PROVE new[i] = its[i + h]
    <3>1. i \in 1..(p + 1 + KeepRecent) /\ ~(i <= p + 1) /\ i - (p + 1) \in 1..KeepRecent
      BY <2>0, <2>11, <2>15
    <3>2. new[i] = keep[i - (p + 1)]
      BY <2>11, <3>1
    <3>3. p + h + 1 + (i - (p + 1)) = i + h
      BY <2>0, <2>3, <3>1
    <3> QED
      BY <2>5, <3>1, <3>2, <3>3
  <2>16. Compacted(its) = new
    BY <1>2, <1>4
  <2> HIDE DEF h
  <2> QED
    BY <2>3, <2>6, <2>11, <2>12, <2>13, <2>14, <2>15, <2>16 DEF h
<1> QED
  BY <1>3, <1>4

\* A compaction loses text by cutting its summary only and leaves what is recent whole.
LEMMA CompactKeeps ==
    ASSUME NEW its, NEW n, ContextOK(its, n)
    PROVE  ContextOK(Compacted(its), n)
<1>1. its \in Seq(Additions) /\ n \in Nat /\ Chained(its, n) /\ Len(its) \in Nat
  BY DEF ContextOK
<1>2. PICK p \in 0..Len(its) : PinnedFirst(its, n, p)
  BY DEF ContextOK
<1>3. CASE Compacted(its) = its
  BY <1>3, Zenon
<1>4. CASE Compacted(its) # its
  <2>1. PICK new : new = Compacted(its)
    OBVIOUS
  <2>2. PICK h : h = Len(its) - KeepRecent - p - 1
    OBVIOUS
  <2>3. /\ h \in Nat /\ new \in Seq(Additions) /\ Len(new) = Len(its) - h
        /\ \A i \in 1..p : new[i] = its[i]
        /\ new[p + 1].first = its[p + 1].first /\ new[p + 1].last = its[p + 1 + h].last
        /\ new[p + 1].pinned
        /\ new[p + 1].whole \in (its[p + 1].first - 1)..(its[p + 1].first + h)
        /\ new[p + 1].whole < its[p + 1].first + h => new[p + 1].length = MaxSummary
        /\ \A i \in (p + 2)..Len(new) : new[i] = its[i + h]
    <3>1. \A i \in 1..Len(its) : its[i].first > 0
      <4>1. ASSUME NEW i \in 1..Len(its) PROVE its[i].first > 0
        <5>1. /\ its[i].first = IF i = 1 THEN 1 ELSE its[i - 1].last + 1
              /\ i # 1 => i - 1 \in 1..Len(its)
          BY <1>1 DEF Chained
        <5>2. ASSUME i # 1
              PROVE  its[i - 1].last \in Nat
          <6>1. PICK a : a = its[i - 1]
            OBVIOUS
          <6>2. a \in Additions
            BY <1>1, <5>1, <5>2, <6>1
          <6>3. a.last \in Nat
            BY <6>2 DEF Additions
          <6> QED
            BY <6>1, <6>3, Zenon
        <5> QED
          BY <5>1, <5>2
      <4> QED
        BY <4>1
    <3> QED
      BY <1>1, <1>2, <1>4, <2>1, <2>2, <3>1, AboutCompacted
  <2>4. PICK l \in Nat : l = Len(its)
    BY <1>1
  <2>5. /\ KeepRecent \in Nat \ {0} /\ p \in Nat /\ p <= l /\ l = h + KeepRecent + p + 1
        /\ Len(new) = p + 1 + KeepRecent /\ Len(new) \in Nat /\ h \in Nat
    <3>1. h \in Nat /\ KeepRecent \in Nat \ {0}
      BY <2>3, Bounds
    <3>2. p \in 0..l
      BY <1>2, <2>4
    <3>3. h = l - KeepRecent - p - 1
      BY <2>2, <2>4
    <3>4. Len(new) = l - h
      BY <2>3, <2>4
    <3> QED
      BY <2>4, <3>1, <3>2, <3>3, <3>4
  <2>6. \A i \in 1..l : its[i].first \in Nat /\ its[i].last \in Nat
    <3>1. \A i \in 1..l : its[i] \in Additions
      BY <1>1, <2>4
    <3> QED
      BY <3>1 DEF Additions
  <2>7. \A i \in 1..l :
            /\ its[i].pinned <=> i <= p
            /\ i > p => its[i].first = its[i].last /\ its[i].last = n - l + i
    BY <1>2, <2>4 DEF PinnedFirst
  <2>8. \A i \in 1..l :
            /\ its[i].first = IF i = 1 THEN 1 ELSE its[i - 1].last + 1
            /\ its[i].last \in its[i].first..n
            /\ its[i].last > n - KeepRecent => its[i].first = its[i].last
    BY <1>1, <2>4 DEF Chained
  <2>9. \A i \in 1..Len(new) : i \in 1..p \/ i = p + 1 \/ i \in (p + 2)..Len(new)
    BY <2>5
  <2>10. /\ p + 1 \in 1..l /\ p + 1 > p /\ p + 1 + h \in 1..l /\ p + 1 + h > p
         /\ \A i \in 1..p : i \in 1..l /\ ~(i > p)
         /\ \A i \in (p + 2)..Len(new) : i + h \in 1..l /\ i + h > p /\ i > p + 1
    BY <2>3, <2>5
  <2>11. /\ its[p + 1].first = its[p + 1].last /\ its[p + 1].last = n - l + (p + 1)
         /\ its[p + 1 + h].last = n - l + (p + 1 + h)
    BY <2>7, <2>10
  <2>12. PinnedFirst(new, n, p + 1)
    <3>1. ASSUME NEW i \in 1..Len(new)
          PROVE  /\ new[i].pinned <=> i <= p + 1
                 /\ i > p + 1 => new[i].first = new[i].last /\ new[i].last = n - Len(new) + i
      <4>1. CASE i \in 1..p
        <5>1. i \in 1..l /\ ~(i > p) /\ i <= p + 1 /\ ~(i > p + 1)
          BY <2>5, <4>1
        <5>2. new[i] = its[i] /\ its[i].pinned
          BY <2>3, <2>7, <4>1, <5>1
        <5> QED
          BY <5>1, <5>2
      <4>2. CASE i = p + 1
        BY <2>3, <2>5, <4>2
      <4>3. CASE i \in (p + 2)..Len(new)
        <5>1. /\ ~(its[i + h].pinned) /\ its[i + h].first = its[i + h].last
              /\ its[i + h].last = n - l + (i + h)
          BY <2>5, <2>7, <2>10, <4>3
        <5>2. n - l + (i + h) = n - Len(new) + i
          BY <1>1, <2>5
        <5>3. new[i] = its[i + h] /\ ~(i <= p + 1)
          BY <2>3, <2>5, <2>10, <4>3
        <5> QED
          BY <5>1, <5>2, <5>3
      <4> QED
        BY <2>9, <4>1, <4>2, <4>3
    <3> QED
      BY <3>1, Zenon DEF PinnedFirst
  <2>13. ASSUME NEW i \in 1..Len(new)
         PROVE  /\ new[i].first = IF i = 1 THEN 1 ELSE new[i - 1].last + 1
                /\ new[i].last \in new[i].first..n
                /\ new[i].last > n - KeepRecent => new[i].first = new[i].last
    <3>1. CASE i \in 1..p
      <4>0. i # 1 => i - 1 \in 1..p
        BY <2>5, <3>1
      <4>1. new[i] = its[i] /\ (i # 1 => new[i - 1] = its[i - 1])
        BY <2>3, <3>1, <4>0
      <4> QED
        BY <2>8, <2>10, <3>1, <4>1
    <3>2. CASE i = p + 1
      <4>1. new[i].first = IF i = 1 THEN 1 ELSE its[p].last + 1
        BY <2>3, <2>5, <2>8, <2>10, <3>2
      <4>0. i # 1 => i - 1 = p /\ p \in 1..p
        BY <2>5, <3>2
      <4>2. i # 1 => i - 1 = p /\ new[p] = its[p]
        BY <2>3, <4>0
      <4>3. new[i].first = IF i = 1 THEN 1 ELSE new[i - 1].last + 1
        BY <4>1, <4>2
      <4>4. new[i].first = n - l + (p + 1) /\ new[i].last = n - l + (p + 1 + h)
        BY <2>3, <2>11, <3>2
      <4>5. new[i].last \in new[i].first..n /\ ~(new[i].last > n - KeepRecent)
        <5>1. n - l + (p + 1 + h) = n - KeepRecent /\ n - l + (p + 1) <= n - KeepRecent
          BY <1>1, <2>3, <2>5
        <5>2. n - l + (p + 1) \in Int /\ n - KeepRecent \in Int /\ n - KeepRecent <= n
          BY <1>1, <2>5
        <5> QED
          BY <1>1, <4>4, <5>1, <5>2
      <4> QED
        BY <4>3, <4>5
    <3>3. CASE i \in (p + 2)..Len(new)
      <4>0. i \in Nat /\ i >= 2 /\ i + h # 1 /\ i # 1
        BY <2>5, <3>3
      <4>1. new[i] = its[i + h] /\ i + h \in 1..l /\ i + h # 1 /\ i # 1
        BY <2>3, <2>10, <3>3, <4>0
      <4>2. its[i + h].first = its[i + h - 1].last + 1
        <5>1. PICK j \in 1..l : j = i + h
          BY <4>1
        <5>2. j # 1
          BY <4>1, <5>1
        <5>3. its[j].first = its[j - 1].last + 1
          BY <2>8, <5>2
        <5>4. j - 1 = i + h - 1
          BY <2>5, <5>1
        <5> QED
          BY <5>1, <5>3, <5>4
      <4>3. new[i - 1].last = its[i + h - 1].last
        <5>1. CASE i = p + 2
          <6>0. p \in Nat /\ h \in Nat
            BY <2>5
          <6>1. i - 1 = p + 1 /\ i + h - 1 = p + 1 + h
            BY <5>1, <6>0
          <6> QED
            BY <2>3, <6>1
        <5>2. CASE i # p + 2
          <6>0. p \in Nat /\ h \in Nat /\ Len(new) \in Nat
            BY <2>5
          <6>1. i - 1 \in (p + 2)..Len(new) /\ (i - 1) + h = i + h - 1
            BY <3>3, <5>2, <6>0
          <6> QED
            BY <2>3, <6>1
        <5> QED
          BY <5>1, <5>2
      <4>4. /\ its[i + h].last \in its[i + h].first..n
            /\ its[i + h].last > n - KeepRecent => its[i + h].first = its[i + h].last
        BY <2>8, <4>1
      <4> QED
        BY <4>1, <4>2, <4>3, <4>4
    <3> QED
      BY <2>9, <3>1, <3>2, <3>3
  <2>14. new # <<>> /\ (n > 0 => new[Len(new)].last = n)
    <3>1. Len(new) \in (p + 2)..Len(new) /\ Len(new) + h = l
      BY <2>4, <2>5
    <3>2. new[Len(new)] = its[l]
      BY <2>3, <3>1
    <3>3. n > 0 => its[l].last = n
      BY <1>1, <2>4 DEF Chained
    <3>4. new # <<>>
      BY <2>3, <2>5
    <3> QED
      BY <3>2, <3>3, <3>4
  <2>15. Chained(new, n)
    BY <2>13, <2>14, Zenon DEF Chained
  <2>16. p + 1 \in 0..Len(new)
    BY <2>5
  <2>18. ASSUME NEW i \in 1..Len(new)
         PROVE  /\ new[i].whole \in (new[i].first - 1)..new[i].last
                /\ new[i].whole < new[i].last =>
                      /\ new[i].pinned /\ new[i].length = MaxSummary
                      /\ new[i].last <= n - KeepRecent
    <3>0. Texts(its, n)
      BY DEF ContextOK
    <3>1. CASE i \in 1..p
      <4>1. new[i] = its[i] /\ i \in 1..Len(its)
        BY <2>3, <2>4, <2>10, <3>1
      <4> QED
        BY <3>0, <4>1 DEF Texts
    <3>2. CASE i = p + 1
      <4>1. its[p + 1].first = n - l + (p + 1) /\ its[p + 1].first + h = its[p + 1 + h].last
            /\ its[p + 1 + h].last = n - KeepRecent
        <5>1. n - l + (p + 1) + h = n - KeepRecent /\ n - l + (p + 1 + h) = n - KeepRecent
          BY <1>1, <2>5
        <5> QED
          BY <2>11, <5>1
      <4> QED
        BY <1>1, <2>3, <2>5, <3>2, <4>1
    <3>3. CASE i \in (p + 2)..Len(new)
      <4>1. new[i] = its[i + h] /\ i + h \in 1..Len(its)
        BY <2>3, <2>4, <2>10, <3>3
      <4> QED
        BY <3>0, <4>1 DEF Texts
    <3> QED
      BY <2>9, <3>1, <3>2, <3>3
  <2>19. n > 0 => new[1].pinned /\ new[1].last = 1 /\ new[1].whole = 1
    <3> SUFFICES ASSUME n > 0 PROVE new[1].pinned /\ new[1].last = 1 /\ new[1].whole = 1
      OBVIOUS
    <3>1. its[1].pinned /\ its[1].last = 1 /\ its[1].whole = 1
      BY DEF ContextOK, Texts
    <3>2. 1 \in 1..l
      BY <2>10
    <3>3. 1 \in 1..p
      BY <2>5, <2>7, <3>1, <3>2
    <3> QED
      BY <2>3, <3>1, <3>3
  <2>20. Texts(new, n)
    BY <2>18, <2>19 DEF Texts
  <2>17. ContextOK(new, n)
    BY <1>1, <2>3, <2>12, <2>15, <2>16, <2>20, Zenon DEF ContextOK
  <2> QED
    BY <2>1, <2>17, Zenon
<1> QED
  BY <1>3, <1>4

\* What a run begins with: the event, the prompt, and what is remembered.
LEMMA BuiltOK ==
    ASSUME NEW prompt \in BOOLEAN, NEW memories \in 0..2
    PROVE  ContextOK(<<Entry(1, TRUE, 1), Entry(2, prompt, 1)>>
                        \o [i \in 1..memories |-> Entry(2 + i, FALSE, Long)], 2 + memories)
<1> DEFINE its == <<Entry(1, TRUE, 1), Entry(2, prompt, 1)>>
                     \o [i \in 1..memories |-> Entry(2 + i, FALSE, Long)]
           n == 2 + memories
           p == IF prompt THEN 2 ELSE 1
<1>1. \A k \in Nat, b \in BOOLEAN, length \in Nat :
          /\ Entry(k, b, length) \in Additions
          /\ Entry(k, b, length).first = k /\ Entry(k, b, length).last = k
          /\ Entry(k, b, length).whole = k
          /\ Entry(k, b, length).pinned = b
  BY DEF Entry, Additions
<1>2. Long \in Nat /\ KeepRecent \in Nat \ {0} /\ memories \in Nat
  BY Bounds
<1>3. /\ its \in Seq(Additions) /\ Len(its) = n
      /\ \A i \in 1..n : its[i] = IF i = 1 THEN Entry(1, TRUE, 1)
                                  ELSE IF i = 2 THEN Entry(2, prompt, 1)
                                  ELSE Entry(i, FALSE, Long)
  <2>1. PICK one \in Additions : one = Entry(1, TRUE, 1)
    <3>1. 1 \in Nat /\ TRUE \in BOOLEAN
      OBVIOUS
    <3> QED
      BY <1>1, <3>1
  <2>2. PICK two \in Additions : two = Entry(2, prompt, 1)
    <3>1. 1 \in Nat /\ 2 \in Nat
      OBVIOUS
    <3> QED
      BY <1>1, <3>1
  <2>3. PICK rest : rest = [i \in 1..memories |-> Entry(2 + i, FALSE, Long)]
    OBVIOUS
  <2>4. \A i \in 1..memories : Entry(2 + i, FALSE, Long) \in Additions
    <3>1. \A i \in 1..memories : 2 + i \in Nat /\ FALSE \in BOOLEAN
      BY <1>2
    <3> QED
      BY <1>1, <1>2, <3>1
  <2>5. /\ rest \in Seq(Additions) /\ Len(rest) = memories
        /\ \A i \in 1..memories : rest[i] = Entry(2 + i, FALSE, Long)
    <3> DEFINE e(i) == Entry(2 + i, FALSE, Long)
    <3>1. \A i \in 1..memories : e(i) \in Additions
      BY <2>4
    <3>2. rest = [i \in 1..memories |-> e(i)]
      BY <2>3
    <3> HIDE DEF e
    <3>3. /\ rest \in Seq(Additions) /\ Len(rest) = memories
          /\ \A i \in 1..memories : rest[i] = e(i)
      BY <1>2, <3>1, <3>2
    <3> QED
      BY <3>3 DEF e
  <2>6. PICK f : f = <<one, two>>
    OBVIOUS
  <2>7. f \in Seq(Additions) /\ Len(f) = 2 /\ f[1] = one /\ f[2] = two
    BY <2>6
  <2>8. /\ f \o rest \in Seq(Additions) /\ Len(f \o rest) = 2 + memories
        /\ \A i \in 1..(2 + memories) : (f \o rest)[i] = IF i <= 2 THEN f[i] ELSE rest[i - 2]
    <3>1. f \in Seq(Additions) /\ rest \in Seq(Additions)
      BY <2>5, <2>7
    <3>2. Len(f) = 2 /\ Len(rest) = memories
      BY <2>5, <2>7
    <3>3. /\ f \o rest \in Seq(Additions) /\ Len(f \o rest) = Len(f) + Len(rest)
          /\ \A i \in 1..(Len(f) + Len(rest)) :
                (f \o rest)[i] = IF i <= Len(f) THEN f[i] ELSE rest[i - Len(f)]
      BY <3>1, ConcatProperties
    <3> QED
      BY <3>2, <3>3
  <2>9. ASSUME NEW i \in 1..n
        PROVE  (f \o rest)[i] = IF i = 1 THEN one ELSE IF i = 2 THEN two
                                ELSE Entry(i, FALSE, Long)
    <3>1. CASE i = 1
      BY <1>2, <2>7, <2>8, <3>1
    <3>2. CASE i = 2
      BY <1>2, <2>7, <2>8, <3>2
    <3>3. CASE i # 1 /\ i # 2
      <4>1. i - 2 \in 1..memories /\ 2 + (i - 2) = i /\ ~(i <= 2) /\ i \in 1..(2 + memories)
        BY <1>2, <3>3
      <4>2. rest[i - 2] = Entry(2 + (i - 2), FALSE, Long)
        BY <2>5, <4>1
      <4>3. rest[i - 2] = Entry(i, FALSE, Long)
        BY <4>1, <4>2
      <4>4. (f \o rest)[i] = rest[i - 2]
        BY <2>8, <4>1
      <4> QED
        BY <3>3, <4>3, <4>4
    <3> QED
      BY <3>1, <3>2, <3>3
  <2>10. its = f \o rest
    BY <2>1, <2>2, <2>3, <2>6, Zenon
  <2> HIDE DEF its
  <2> QED
    BY <2>1, <2>2, <2>8, <2>9, <2>10
<1> HIDE DEF its
<1>4. \A i \in 1..n : /\ its[i].first = i /\ its[i].last = i /\ its[i].whole = i
                      /\ its[i].pinned <=> i <= p
  <2> TAKE i \in 1..n
  <2>0. 1 \in Nat /\ 2 \in Nat /\ i \in Nat /\ TRUE \in BOOLEAN /\ FALSE \in BOOLEAN
    BY <1>2
  <2>1. CASE i = 1
    <3>1. its[i] = Entry(1, TRUE, 1)
      BY <1>3, <2>1
    <3>2. its[i].first = 1 /\ its[i].last = 1 /\ its[i].whole = 1 /\ its[i].pinned = TRUE
      BY <3>1 DEF Entry
    <3>3. 1 <= p
      OBVIOUS
    <3> QED
      BY <2>1, <3>2, <3>3
  <2>2. CASE i = 2
    <3>1. its[i] = Entry(2, prompt, 1)
      <4>1. i # 1
        BY <2>2
      <4> QED
        BY <1>3, <2>2, <4>1
    <3>2. its[i].first = 2 /\ its[i].last = 2 /\ its[i].whole = 2 /\ its[i].pinned = prompt
      BY <3>1 DEF Entry
    <3>3. prompt <=> 2 <= p
      OBVIOUS
    <3> QED
      BY <2>2, <3>2, <3>3
  <2>3. CASE i # 1 /\ i # 2
    <3>1. its[i] = Entry(i, FALSE, Long)
      BY <1>3, <2>3
    <3>2. its[i].first = i /\ its[i].last = i /\ its[i].whole = i /\ its[i].pinned = FALSE
      BY <3>1 DEF Entry
    <3>3. ~(i <= p)
      BY <2>0, <2>3
    <3> QED
      BY <3>2, <3>3
  <2> QED
    BY <2>1, <2>2, <2>3
<1>5. n \in Nat /\ p \in 0..n /\ n > 0
  BY <1>2
<1> HIDE DEF n, p
<1>6. PinnedFirst(its, n, p)
  <2>1. \A i \in 1..n : i = n - n + i
    BY <1>5
  <2> QED
    BY <1>3, <1>4, <2>1 DEF PinnedFirst
<1>7. Chained(its, n)
  <2>1. \A i \in 1..n : i \in i..n /\ (i # 1 => i - 1 \in 1..n /\ i = (i - 1) + 1)
    BY <1>5
  <2>2. n \in 1..n /\ its # <<>>
    BY <1>3, <1>5
  <2> QED
    BY <1>3, <1>4, <2>1, <2>2 DEF Chained
<1>8. Texts(its, n)
  <2>1. \A i \in 1..n : i \in (i - 1)..i /\ ~(i < i)
    BY <1>5
  <2>2. 1 \in 1..n /\ 1 <= p
    BY <1>5 DEF p
  <2> QED
    BY <1>3, <1>4, <2>1, <2>2 DEF Texts
<1>9. ContextOK(its, n)
  BY <1>3, <1>5, <1>6, <1>7, <1>8 DEF ContextOK
<1> QED
  BY <1>9 DEF its, n

-----------------------------------------------------------------------------
(* What a run collects.                                                    *)

Kinds == {"memory", "feishu_intent"}

\* The iterations whose calls have been carried out.
Settled == IF phase = "acting" THEN iteration - 1 ELSE iteration

\* The intents decided on in the first iterations, and how many calls there were.
Decided(n) == {p \in (1..n) \X (1..MaxCalls) : p[2] <= Len(IntentsOf(p[1]))}
CallCounts(n) == [i \in 1..n |-> Len(decisions[i].calls)]

InOrder(s) ==
    \A i \in 2..Len(s) : \/ s[i - 1][1] < s[i][1]
                         \/ s[i - 1][1] = s[i][1] /\ s[i - 1][2] < s[i][2]

LoopTypes ==
    /\ phase \in {"none", "observing", "thinking", "acting", "verifying", "logging",
                  "returned", "raised"}
    /\ iteration \in 0..MaxSteps /\ decisions \in Seq(Decisions) /\ Len(decisions) = iteration
    /\ newResults \in Seq(BOOLEAN) /\ results \in Seq(BOOLEAN)
    /\ newIntents \in Seq(Nat \X Nat) /\ intents \in Seq(Nat \X Nat)
    /\ phase \in {"none", "observing"} => iteration = 0
    /\ phase = "thinking" => iteration < MaxSteps
    /\ phase \in {"acting", "verifying"} => iteration >= 1
    /\ phase # "none" => added > 0

\* In an iteration: what was collected and what is left are what was decided.
ActingOK ==
    phase = "acting" =>
        /\ calls \in Seq(Kinds)
        /\ \A k \in 1..Len(newIntents) : newIntents[k] = <<iteration, k>>
        /\ Len(newIntents) + Len(Among(calls, {"feishu_intent"})) = Len(IntentsOf(iteration))
        /\ Len(newIntents) + Len(newResults) + Len(calls) = Len(decisions[iteration].calls)

Gathered ==
    /\ ToSet(intents) = Decided(Settled)
    /\ InOrder(intents)
    /\ Len(intents) + Len(results) = Total(CallCounts(Settled))

LoopInv == ContextOK(items, added) /\ LoopTypes /\ ActingOK /\ Gathered

\* What a decision has to say.
LEMMA AboutDecision ==
    ASSUME NEW d \in Decisions
    PROVE  d.calls \in Seq(Kinds) /\ Len(d.calls) \in Nat /\ Len(d.calls) <= MaxCalls
<1>1. d.calls \in SeqOf(Kinds, MaxCalls)
  BY DEF Decisions, Kinds
<1>2. PICK m \in 0..MaxCalls : d.calls \in [1..m -> Kinds]
  BY <1>1 DEF SeqOf
<1>3. m \in Nat /\ m <= MaxCalls
  BY <1>2, Bounds
<1>4. d.calls \in Seq(Kinds) /\ Len(d.calls) = m
  BY <1>2, <1>3
<1> QED
  BY <1>3, <1>4

\* The intents of an iteration, none of which is beyond the bound.
LEMMA AboutIntents ==
    ASSUME LoopTypes, NEW n \in 1..iteration
    PROVE  /\ IntentsOf(n) \in Seq(Kinds) /\ Len(IntentsOf(n)) \in Nat
           /\ Len(IntentsOf(n)) <= MaxCalls
           /\ decisions[n].calls \in Seq(Kinds) /\ Len(decisions[n].calls) \in Nat
<1>1. decisions[n] \in Decisions
  BY DEF LoopTypes
<1>2. /\ decisions[n].calls \in Seq(Kinds) /\ Len(decisions[n].calls) \in Nat
      /\ Len(decisions[n].calls) <= MaxCalls
  BY <1>1, AboutDecision
<1>3. /\ Among(decisions[n].calls, {"feishu_intent"}) \in Seq(Kinds)
      /\ Len(Among(decisions[n].calls, {"feishu_intent"})) <= Len(decisions[n].calls)
  BY <1>2, AmongKeeps
<1>4. IntentsOf(n) \in Seq(Kinds) /\ Len(IntentsOf(n)) <= Len(decisions[n].calls)
  BY <1>3 DEF IntentsOf
<1>5. Len(IntentsOf(n)) \in Nat
  BY <1>4
<1> QED
  BY <1>2, <1>4, <1>5, Bounds

\* A step that decides and collects nothing.
LEMMA GatheredStays ==
    ASSUME Gathered, UNCHANGED <<decisions, intents, results>>, Settled' = Settled
    PROVE  Gathered'
<1>1. Decided(Settled)' = Decided(Settled) /\ CallCounts(Settled)' = CallCounts(Settled)
  BY DEF Decided, CallCounts, IntentsOf
<1> QED
  BY <1>1 DEF Gathered, InOrder

\* The context when something is added to it.
LEMMA AddToKeeps ==
    ASSUME NEW its, ContextOK(its, added), added > 0, NEW length \in Nat, AddTo(its, length)
    PROVE  ContextOK(items, added)' /\ added' > 0
<1>1. ContextOK(Append(its, Entry(added + 1, FALSE, length)), added + 1)
  BY AddKeeps
<1>2. items' = Append(its, Entry(added + 1, FALSE, length)) /\ added' = added + 1
  BY DEF AddTo
<1>3. ContextOK(items', added')
  BY <1>1, <1>2, Zenon
<1>4. added' > 0
  BY <1>2 DEF ContextOK
<1> QED
  BY <1>3, <1>4 DEF ContextOK, PinnedFirst, Chained, Texts

\* A run that has not begun.
LEMMA InitLoop == LoopInit => LoopInv
<1> SUFFICES ASSUME LoopInit PROVE LoopInv
  OBVIOUS
<1>0. /\ phase = "none" /\ items = <<>> /\ added = 0 /\ iteration = 0 /\ decisions = <<>>
      /\ newIntents = <<>> /\ newResults = <<>> /\ intents = <<>> /\ results = <<>>
  BY DEF LoopInit
<1>1. ContextOK(items, added)
  BY <1>0 DEF ContextOK, PinnedFirst, Chained, Texts
<1>2. LoopTypes /\ ActingOK
  BY <1>0, Bounds DEF LoopTypes, ActingOK
<1>3. Gathered
  <2>1. 1..0 = {} /\ Settled = 0
    BY <1>0 DEF Settled
  <2>2. ToSet(intents) = {} /\ Decided(0) = {}
    BY <1>0, <2>1 DEF ToSet, Decided
  <2>3. CallCounts(0) = <<>>
    BY <2>1 DEF CallCounts
  <2>4. InOrder(intents)
    BY <1>0 DEF InOrder
  <2>5. ToSet(intents) = Decided(Settled) /\ Total(CallCounts(Settled)) = 0
    BY <2>1, <2>2, <2>3, TotalEmpty, Zenon
  <2>6. Len(intents) = 0 /\ Len(results) = 0
    BY <1>0
  <2> QED
    BY <2>4, <2>5, <2>6 DEF Gathered
<1> QED
  BY <1>1, <1>2, <1>3 DEF LoopInv

\* The context is built.
LEMMA BuildKeeps == LoopInv /\ Build => LoopInv'
<1> SUFFICES ASSUME LoopInv, Build PROVE LoopInv'
  OBVIOUS
<1>0. /\ LoopTypes /\ ActingOK /\ Gathered /\ phase = "none" /\ phase' = "observing"
      /\ UNCHANGED <<iteration, decisions, calls, newIntents, newResults, intents, results>>
  BY DEF LoopInv, Build
<1>1. PICK prompt \in BOOLEAN, memories \in 0..2 :
          /\ items' = Compacted(<<Entry(1, TRUE, 1), Entry(2, prompt, 1)>>
                                    \o [i \in 1..memories |-> Entry(2 + i, FALSE, Long)])
          /\ added' = 2 + memories
  BY DEF Build
<1>2. ContextOK(items', added')
  <2>1. PICK its : its = <<Entry(1, TRUE, 1), Entry(2, prompt, 1)>>
                             \o [i \in 1..memories |-> Entry(2 + i, FALSE, Long)]
    OBVIOUS
  <2>2. ContextOK(its, 2 + memories)
    BY <2>1, BuiltOK
  <2>3. ContextOK(Compacted(its), 2 + memories)
    BY <2>2, CompactKeeps
  <2>4. items' = Compacted(its) /\ added' = 2 + memories
    BY <1>1, <2>1, Zenon
  <2> QED
    BY <2>3, <2>4, Zenon
<1>3. ContextOK(items, added)'
  BY <1>2 DEF ContextOK, PinnedFirst, Chained, Texts
<1>4. LoopTypes' /\ ActingOK'
  BY <1>0, <1>1 DEF LoopTypes, ActingOK
<1>5. Gathered'
  BY <1>0, GatheredStays DEF Settled
<1> QED
  BY <1>3, <1>4, <1>5 DEF LoopInv

\* What was observed is noted.
LEMMA ObserveKeeps == LoopInv /\ Observe => LoopInv'
<1> SUFFICES ASSUME LoopInv, Observe PROVE LoopInv'
  OBVIOUS
<1>0. /\ LoopTypes /\ ActingOK /\ Gathered /\ phase = "observing" /\ phase' = "thinking"
      /\ UNCHANGED <<iteration, decisions, calls, newIntents, newResults, intents, results>>
      /\ ContextOK(items, added) /\ added > 0 /\ AddTo(items, 1)
  BY DEF LoopInv, LoopTypes, Observe
<1>1. ContextOK(items, added)' /\ added' > 0
  BY <1>0, AddToKeeps
<1>2. LoopTypes' /\ ActingOK'
  BY <1>0, <1>1, Bounds DEF LoopTypes, ActingOK
<1>3. Gathered'
  BY <1>0, GatheredStays DEF Settled
<1> QED
  BY <1>1, <1>2, <1>3 DEF LoopInv

\* The output is logged.
LEMMA LogKeeps == LoopInv /\ Log => LoopInv'
<1> SUFFICES ASSUME LoopInv, Log PROVE LoopInv'
  OBVIOUS
<1>0. /\ LoopTypes /\ ActingOK /\ Gathered /\ phase = "logging" /\ phase' = "returned"
      /\ UNCHANGED <<iteration, decisions, calls, newIntents, newResults, intents, results>>
      /\ ContextOK(items, added) /\ added > 0 /\ AddTo(items, 1)
  BY DEF LoopInv, LoopTypes, Log
<1>1. ContextOK(items, added)' /\ added' > 0
  BY <1>0, AddToKeeps
<1>2. LoopTypes' /\ ActingOK'
  BY <1>0, <1>1 DEF LoopTypes, ActingOK
<1>3. Gathered'
  BY <1>0, GatheredStays DEF Settled
<1> QED
  BY <1>1, <1>2, <1>3 DEF LoopInv

\* The loop goes on, ends or is given up.
LEMMA VerifyKeeps == LoopInv /\ (Verify \/ ThinkFails) => LoopInv'
<1> SUFFICES ASSUME LoopInv, Verify \/ ThinkFails PROVE LoopInv'
  OBVIOUS
<1>0. /\ LoopTypes /\ ActingOK /\ Gathered /\ ContextOK(items, added) /\ added > 0
      /\ phase \in {"verifying", "thinking"} /\ phase' \in {"logging", "thinking", "raised"}
      /\ phase' = "thinking" => iteration # MaxSteps
      /\ items' = items \/ items' = Compacted(items)
      /\ UNCHANGED <<added, iteration, decisions, calls, newIntents, newResults, intents,
                     results>>
  BY DEF LoopInv, LoopTypes, Verify, ThinkFails, contextVars
<1>1. ContextOK(items, added)'
  <2>1. ContextOK(items', added)
    BY <1>0, CompactKeeps, Zenon
  <2> QED
    BY <1>0, <2>1 DEF ContextOK, PinnedFirst, Chained, Texts
<1>2. LoopTypes' /\ ActingOK'
  BY <1>0, Bounds DEF LoopTypes, ActingOK
<1>3. Gathered'
  BY <1>0, GatheredStays DEF Settled
<1> QED
  BY <1>1, <1>2, <1>3 DEF LoopInv

\* The next decision.
LEMMA ThinkKeeps == LoopInv /\ Think => LoopInv'
<1> SUFFICES ASSUME LoopInv, Think PROVE LoopInv'
  OBVIOUS
<1>0. /\ LoopTypes /\ ActingOK /\ Gathered /\ ContextOK(items, added) /\ added > 0
      /\ phase = "thinking" /\ phase' = "acting" /\ iteration' = iteration + 1
      /\ newIntents' = <<>> /\ newResults' = <<>> /\ UNCHANGED <<intents, results>>
  BY DEF LoopInv, LoopTypes, Think
<1>1. PICK d \in Decisions, model \in BOOLEAN :
          /\ AddTo(IF model THEN Compacted(items) ELSE items, 1)
          /\ decisions' = Append(decisions, d) /\ calls' = d.calls
  BY DEF Think
<1>2. /\ iteration \in Nat /\ iteration < MaxSteps /\ decisions \in Seq(Decisions)
      /\ Len(decisions) = iteration
  BY <1>0, Bounds DEF LoopTypes
<1>3. /\ decisions' \in Seq(Decisions) /\ Len(decisions') = iteration + 1
      /\ decisions'[iteration + 1] = d /\ \A n \in 1..iteration : decisions'[n] = decisions[n]
  BY <1>1, <1>2
<1>4. ContextOK(items, added)' /\ added' > 0
  <2>1. PICK its : its = IF model THEN Compacted(items) ELSE items
    OBVIOUS
  <2>2. ContextOK(Compacted(items), added)
    BY <1>0, CompactKeeps
  <2>3. ContextOK(its, added)
    BY <1>0, <2>1, <2>2, Zenon
  <2>4. AddTo(its, 1)
    BY <1>1, <2>1, Zenon
  <2> QED
    BY <1>0, <2>3, <2>4, AddToKeeps
<1>5. LoopTypes'
  BY <1>0, <1>2, <1>3, <1>4, Bounds DEF LoopTypes
<1>6. ActingOK'
  <2>1. d.calls \in Seq(Kinds) /\ Len(d.calls) \in Nat
    BY AboutDecision
  <2>2. Among(d.calls, {"feishu_intent"}) \in Seq(Kinds)
    BY <2>1, AmongKeeps
  <2>3. IntentsOf(iteration)' = Among(d.calls, {"feishu_intent"})
    BY <1>0, <1>3 DEF IntentsOf
  <2>4. Len(Among(d.calls, {"feishu_intent"})) \in Nat
    BY <2>2
  <2>5. Len(newIntents') = 0 /\ Len(newResults') = 0
    BY <1>0
  <2> QED
    BY <1>0, <1>1, <1>3, <2>1, <2>3, <2>4, <2>5 DEF ActingOK
<1>7. Gathered'
  <2>1. Settled' = iteration /\ Settled = iteration
    BY <1>0, <1>2 DEF Settled
  <2>2. \A n \in 1..iteration : decisions'[n].calls = decisions[n].calls
    BY <1>3
  <2>3. Decided(iteration) = {p \in (1..iteration) \X (1..MaxCalls) :
                                 p[2] <= Len(Among(decisions'[p[1]].calls, {"feishu_intent"}))}
    BY <2>2 DEF Decided, IntentsOf
  <2>4. CallCounts(iteration) = [i \in 1..iteration |-> Len(decisions'[i].calls)]
    BY <2>2 DEF CallCounts
  <2>5. Decided(Settled)' = Decided(Settled)
    BY <2>1, <2>3 DEF Decided, IntentsOf
  <2>6. CallCounts(Settled)' = CallCounts(Settled)
    BY <2>1, <2>4 DEF CallCounts
  <2> QED
    BY <1>0, <2>5, <2>6 DEF Gathered, InOrder
<1> QED
  BY <1>4, <1>5, <1>6, <1>7 DEF LoopInv

\* A call is carried out: a result is taken down or an intent.
LEMMA ActKeeps == LoopInv /\ Act => LoopInv'
<1> SUFFICES ASSUME LoopInv, Act PROVE LoopInv'
  OBVIOUS
<1>0. /\ LoopTypes /\ ActingOK /\ Gathered /\ ContextOK(items, added) /\ added > 0
      /\ phase = "acting" /\ calls # <<>> /\ calls' = Tail(calls) /\ calls \in Seq(Kinds)
      /\ UNCHANGED <<phase, iteration, decisions, intents, results>>
  BY DEF LoopInv, LoopTypes, Act, ActingOK
<1>1. /\ newIntents \in Seq(Nat \X Nat) /\ newResults \in Seq(BOOLEAN) /\ iteration \in Nat
      /\ iteration \in 1..iteration
  BY <1>0, Bounds DEF LoopTypes
<1>2. PICK left : left = Tail(calls)
  OBVIOUS
<1>3. /\ left \in Seq(Kinds) /\ Len(left) \in Nat /\ Len(calls) = Len(left) + 1
      /\ Len(Among(left, {"feishu_intent"})) \in Nat
      /\ Len(Among(calls, {"feishu_intent"})) =
             Len(Among(left, {"feishu_intent"})) + (IF Head(calls) = "feishu_intent" THEN 1 ELSE 0)
  <2>1. left \in Seq(Kinds) /\ Len(left) \in Nat /\ Len(calls) = Len(left) + 1
    BY <1>0, <1>2
  <2>2. Among(left, {"feishu_intent"}) \in Seq(Kinds)
    BY <2>1, AmongKeeps
  <2>3. Len(Among(calls, {"feishu_intent"})) = Len(Among(Tail(calls), {"feishu_intent"}))
            + (IF Head(calls) \in {"feishu_intent"} THEN 1 ELSE 0)
    BY <1>0, AmongHead
  <2>4. Head(calls) \in {"feishu_intent"} <=> Head(calls) = "feishu_intent"
    OBVIOUS
  <2>5. Len(Among(calls, {"feishu_intent"})) = Len(Among(left, {"feishu_intent"}))
            + (IF Head(calls) = "feishu_intent" THEN 1 ELSE 0)
    BY <1>2, <2>3, <2>4, Zenon
  <2>6. Len(Among(left, {"feishu_intent"})) \in Nat
    BY <2>2
  <2> QED
    BY <2>1, <2>5, <2>6
<1>4. /\ \A k \in 1..Len(newIntents) : newIntents[k] = <<iteration, k>>
      /\ Len(newIntents) + Len(Among(calls, {"feishu_intent"})) = Len(IntentsOf(iteration))
      /\ Len(newIntents) + Len(newResults) + Len(calls) = Len(decisions[iteration].calls)
  BY <1>0 DEF ActingOK
<1>5. IntentsOf(iteration)' = IntentsOf(iteration)
  BY <1>0 DEF IntentsOf
<1>6. Len(newIntents) \in Nat /\ Len(newResults) \in Nat
  BY <1>1
<1>7. Gathered'
  BY <1>0, GatheredStays DEF Settled
<1>8. CASE Head(calls) = "memory"
  <2>1. PICK ok \in BOOLEAN, length \in {1, Long} :
            newResults' = Append(newResults, ok) /\ AddTo(items, length) /\ newIntents' = newIntents
    BY <1>8 DEF Act
  <2>2. ContextOK(items, added)' /\ added' > 0
    <3>1. length \in Nat
      BY Bounds
    <3> QED
      BY <1>0, <2>1, <3>1, AddToKeeps
  <2>3. newResults' \in Seq(BOOLEAN) /\ Len(newResults') = Len(newResults) + 1
    BY <1>1, <2>1
  <2>4. LoopTypes'
    BY <1>0, <1>1, <2>1, <2>2, <2>3 DEF LoopTypes
  <2>5. Len(Among(calls, {"feishu_intent"})) = Len(Among(left, {"feishu_intent"}))
    BY <1>3, <1>8
  <2>6. Len(newIntents) + (Len(newResults) + 1) + Len(left) = Len(decisions[iteration].calls)
    BY <1>3, <1>4, <1>6
  <2>7. ActingOK'
    BY <1>0, <1>2, <1>3, <1>4, <1>5, <2>1, <2>3, <2>5, <2>6 DEF ActingOK
  <2> QED
    BY <1>7, <2>2, <2>4, <2>7 DEF LoopInv
<1>9. CASE Head(calls) = "feishu_intent"
  <2>1. /\ newIntents' = Append(newIntents, <<iteration, Len(newIntents) + 1>>)
        /\ AddTo(items, 1) /\ newResults' = newResults
    BY <1>9 DEF Act
  <2>2. ContextOK(items, added)' /\ added' > 0
    BY <1>0, <2>1, AddToKeeps
  <2>3. /\ newIntents' \in Seq(Nat \X Nat) /\ Len(newIntents') = Len(newIntents) + 1
        /\ \A k \in 1..Len(newIntents') : newIntents'[k] = <<iteration, k>>
    <3>1. <<iteration, Len(newIntents) + 1>> \in Nat \X Nat
      BY <1>1, <1>6
    <3>2. /\ newIntents' \in Seq(Nat \X Nat) /\ Len(newIntents') = Len(newIntents) + 1
          /\ \A k \in 1..Len(newIntents) : newIntents'[k] = newIntents[k]
          /\ newIntents'[Len(newIntents) + 1] = <<iteration, Len(newIntents) + 1>>
      BY <1>1, <2>1, <3>1, AppendProperties
    <3>3. \A k \in 1..Len(newIntents') : k \in 1..Len(newIntents) \/ k = Len(newIntents) + 1
      BY <1>6, <3>2
    <3> QED
      BY <1>4, <3>2, <3>3
  <2>4. LoopTypes'
    BY <1>0, <1>1, <2>1, <2>2, <2>3 DEF LoopTypes
  <2>5. (Len(newIntents) + 1) + Len(Among(left, {"feishu_intent"})) = Len(IntentsOf(iteration))
    <3>1. Len(Among(calls, {"feishu_intent"})) = Len(Among(left, {"feishu_intent"})) + 1
      BY <1>3, <1>9
    <3>2. Len(newIntents) + Len(Among(calls, {"feishu_intent"})) = Len(IntentsOf(iteration))
      BY <1>4
    <3>3. Len(Among(left, {"feishu_intent"})) \in Nat
      BY <1>3
    <3> QED
      BY <1>6, <3>1, <3>2, <3>3
  <2>6. (Len(newIntents) + 1) + Len(newResults) + Len(left) = Len(decisions[iteration].calls)
    BY <1>3, <1>4, <1>6
  <2>7. ActingOK'
    BY <1>0, <1>2, <1>3, <1>5, <2>1, <2>3, <2>5, <2>6 DEF ActingOK
  <2> QED
    BY <1>7, <2>2, <2>4, <2>7 DEF LoopInv
<1> QED
  BY <1>8, <1>9 DEF Act

\* What an iteration has collected is put to the rest.
LEMMA ActEndsKeeps == LoopInv /\ ActEnds => LoopInv'
<1> SUFFICES ASSUME LoopInv, ActEnds PROVE LoopInv'
  OBVIOUS
<1>0. /\ LoopTypes /\ ActingOK /\ Gathered /\ ContextOK(items, added)
      /\ phase = "acting" /\ calls = <<>> /\ phase' = "verifying"
      /\ intents' = intents \o newIntents /\ results' = results \o newResults
      /\ UNCHANGED <<items, added, iteration, decisions, calls, newIntents, newResults>>
  BY DEF LoopInv, ActEnds, contextVars
<1>1. PICK m \in Nat : m = iteration
  BY <1>0, Bounds DEF LoopTypes
<1>2. /\ newIntents \in Seq(Nat \X Nat) /\ newResults \in Seq(BOOLEAN) /\ m >= 1 /\ m \in 1..m
      /\ intents \in Seq(Nat \X Nat) /\ results \in Seq(BOOLEAN) /\ m - 1 \in Nat
  BY <1>0, <1>1 DEF LoopTypes
<1>3. PICK made : made = newIntents
  OBVIOUS
<1>4. PICK had : had = intents
  OBVIOUS
<1>5. /\ made \in Seq(Nat \X Nat) /\ had \in Seq(Nat \X Nat) /\ intents' = had \o made
      /\ Len(made) \in Nat /\ Len(had) \in Nat
      /\ \A k \in 1..Len(made) : made[k] = <<m, k>>
  <2>1. made \in Seq(Nat \X Nat) /\ had \in Seq(Nat \X Nat) /\ intents' = had \o made
    BY <1>0, <1>2, <1>3, <1>4, Zenon
  <2>2. \A k \in 1..Len(made) : made[k] = <<m, k>>
    BY <1>0, <1>1, <1>3, Zenon DEF ActingOK
  <2> QED
    BY <2>1, <2>2, LenProperties
<1>6. /\ Len(made) = Len(IntentsOf(m))
      /\ Len(made) + Len(newResults) = Len(decisions[m].calls)
  <2>1. /\ Len(made) + Len(Among(calls, {"feishu_intent"})) = Len(IntentsOf(m))
        /\ Len(made) + Len(newResults) + Len(calls) = Len(decisions[m].calls)
    BY <1>0, <1>1, <1>3 DEF ActingOK
  <2>2. Len(Among(calls, {"feishu_intent"})) = 0 /\ Len(calls) = 0
    BY <1>0, AmongEmpty
  <2>3. Len(newResults) \in Nat
    BY <1>2
  <2> QED
    BY <1>5, <2>1, <2>2, <2>3
<1>7. Len(IntentsOf(m)) \in Nat /\ Len(IntentsOf(m)) <= MaxCalls /\ Len(decisions[m].calls) \in Nat
  BY <1>0, <1>1, <1>2, AboutIntents
<1>8. Settled = m - 1 /\ Settled' = m
  BY <1>0, <1>1 DEF Settled
<1>9. LoopTypes' /\ ActingOK' /\ ContextOK(items, added)'
  <2>1. intents' \in Seq(Nat \X Nat)
    BY <1>5, ConcatProperties
  <2>2. results' \in Seq(BOOLEAN)
    BY <1>0, <1>2, ConcatProperties
  <2>3. LoopTypes'
    BY <1>0, <2>1, <2>2 DEF LoopTypes
  <2> QED
    BY <1>0, <2>3 DEF ActingOK, ContextOK, PinnedFirst, Chained
<1>10. ToSet(intents') = Decided(m)
  <2>1. ToSet(intents') = ToSet(had) \cup ToSet(made)
    BY <1>5, ConcatSet
  <2>2. ToSet(had) = Decided(m - 1)
    BY <1>0, <1>4, <1>8 DEF Gathered
  <2>3. DOMAIN made = 1..Len(made)
    BY <1>5
  <2>4. ASSUME NEW p \in ToSet(made) PROVE p \in Decided(m)
    <3>1. PICK k \in 1..Len(made) : p = <<m, k>>
      BY <1>5, <2>3 DEF ToSet
    <3>2. p[1] = m /\ p[2] = k
      BY <3>1
    <3>3. k \in 1..MaxCalls /\ k <= Len(IntentsOf(m))
      BY <1>5, <1>6, <1>7, Bounds
    <3> QED
      BY <1>2, <3>1, <3>2, <3>3 DEF Decided
  <2>5. ASSUME NEW p \in Decided(m - 1) PROVE p \in Decided(m)
    <3>1. \A n \in 1..(m - 1) : n \in 1..m
      BY <1>2
    <3> QED
      BY <3>1 DEF Decided
  <2>6. ASSUME NEW p \in Decided(m) PROVE p \in Decided(m - 1) \/ p \in ToSet(made)
    <3>0. p \in (1..m) \X (1..MaxCalls) /\ p[2] <= Len(IntentsOf(p[1]))
      BY DEF Decided
    <3>1. p[1] \in 1..m /\ p[2] \in 1..MaxCalls /\ p = <<p[1], p[2]>>
      BY <3>0
    <3>2. CASE p[1] = m
      <4>1. p[2] \in 1..Len(made)
        BY <1>5, <1>6, <3>0, <3>1, <3>2, Bounds
      <4>2. p = made[p[2]]
        BY <1>5, <3>1, <3>2, <4>1
      <4> QED
        BY <2>3, <4>1, <4>2 DEF ToSet
    <3>3. CASE p[1] # m
      <4>1. p[1] \in 1..(m - 1)
        BY <1>2, <3>1, <3>3
      <4>2. p \in (1..(m - 1)) \X (1..MaxCalls)
        BY <3>1, <4>1
      <4> QED
        BY <3>0, <4>2 DEF Decided
    <3> QED
      BY <3>2, <3>3
  <2> QED
    BY <2>1, <2>2, <2>4, <2>5, <2>6
<1>11. InOrder(intents')
  <2> SUFFICES ASSUME NEW i \in 2..Len(intents')
               PROVE  \/ intents'[i - 1][1] < intents'[i][1]
                      \/ intents'[i - 1][1] = intents'[i][1] /\ intents'[i - 1][2] < intents'[i][2]
    BY DEF InOrder
  <2>1. PICK l \in Nat : l = Len(had)
    BY <1>5
  <2>2. /\ Len(intents') = l + Len(made)
        /\ \A j \in 1..(l + Len(made)) : intents'[j] = IF j <= l THEN had[j] ELSE made[j - l]
    BY <1>5, <2>1, ConcatProperties
  <2>3. i \in 2..(l + Len(made)) /\ i \in Nat /\ i - 1 \in Nat
    BY <1>5, <2>1, <2>2
  <2>4. CASE i <= l
    <3>0. PICK k \in Nat : k = Len(made)
      BY <1>5
    <3>3. /\ i \in 2..l /\ i \in 1..(l + k) /\ i - 1 \in 1..(l + k)
          /\ i <= l /\ i - 1 <= l
      BY <2>3, <2>4, <3>0
    <3>1. intents'[i] = had[i] /\ intents'[i - 1] = had[i - 1] /\ i \in 2..l
      BY <2>2, <3>0, <3>3
    <3>2. InOrder(had)
      BY <1>0, <1>4 DEF Gathered
    <3> QED
      BY <2>1, <3>1, <3>2 DEF InOrder
  <2>5. CASE i = l + 1
    <3>1. l \in 1..l /\ i - 1 = l /\ i - l = 1 /\ 1 \in 1..Len(made)
      BY <1>5, <2>3, <2>5
    <3>2. intents'[i] = made[1] /\ intents'[i - 1] = had[l]
      BY <1>5, <2>2, <2>3, <2>5, <3>1, SMTT(20)
    <3>3. had[l] \in Decided(m - 1)
      <4>1. had[l] \in ToSet(had)
        BY <1>5, <2>1, <3>1 DEF ToSet
      <4> QED
        BY <1>0, <1>4, <1>8, <4>1 DEF Gathered
    <3>4. had[l][1] \in 1..(m - 1)
      BY <3>3 DEF Decided
    <3>5. made[1][1] = m
      BY <1>5, <3>1
    <3> QED
      BY <1>2, <3>2, <3>4, <3>5
  <2>6. CASE i > l + 1
    <3>1. i - l \in 1..Len(made) /\ (i - 1) - l \in 1..Len(made) /\ (i - 1) - l < i - l
      BY <1>5, <2>3, <2>6
    <3>2. ~(i <= l) /\ ~(i - 1 <= l) /\ i \in 1..(l + Len(made)) /\ i - 1 \in 1..(l + Len(made))
      BY <1>5, <2>3, <2>6
    <3>3. intents'[i] = made[i - l] /\ intents'[i - 1] = made[(i - 1) - l]
      BY <2>2, <3>2
    <3>4. made[i - l] = <<m, i - l>> /\ made[(i - 1) - l] = <<m, (i - 1) - l>>
      BY <1>5, <3>1
    <3> QED
      BY <3>1, <3>3, <3>4
  <2> QED
    BY <2>3, <2>4, <2>5, <2>6
<1>12. Len(intents') + Len(results') = Total(CallCounts(m))
  <2>1. Len(intents') = Len(had) + Len(made)
    BY <1>5, ConcatProperties
  <2>2. /\ Len(results') = Len(results) + Len(newResults)
        /\ Len(results) \in Nat /\ Len(newResults) \in Nat
    BY <1>0, <1>2, ConcatProperties
  <2>3. Len(had) + Len(results) = Total(CallCounts(m - 1))
    BY <1>0, <1>4, <1>8 DEF Gathered
  <2>4. \A n \in 1..m : Len(decisions[n].calls) \in Nat
    BY <1>0, <1>1, AboutIntents
  <2>5. PICK before : before = CallCounts(m - 1)
    OBVIOUS
  <2>6. PICK all : all = CallCounts(m)
    OBVIOUS
  <2>7. PICK count \in Nat : count = Len(decisions[m].calls)
    BY <1>7
  <2>8. before \in Seq(Nat) /\ Len(before) = m - 1 /\ all \in Seq(Nat) /\ Len(all) = m
    <3>1. \A n \in 1..(m - 1) : n \in 1..m
      BY <1>2
    <3> QED
      BY <1>2, <2>4, <2>5, <2>6, <3>1 DEF CallCounts
  <2>9. all = Append(before, count)
    <3>1. \A i \in 1..m : all[i] = IF i = m THEN count ELSE before[i]
      <4>1. \A i \in 1..m : i # m => i \in 1..(m - 1)
        BY <1>2
      <4> QED
        BY <2>5, <2>6, <2>7, <4>1 DEF CallCounts
    <3>2. /\ Append(before, count) \in Seq(Nat) /\ Len(Append(before, count)) = m
          /\ \A i \in 1..m : Append(before, count)[i] = IF i = m THEN count ELSE before[i]
      BY <1>2, <2>8
    <3> QED
      BY <2>8, <3>1, <3>2, SeqEqual
  <2>10. Total(all) = Total(before) + count
    BY <2>8, <2>9, TotalAppend
  <2>11. Len(made) + Len(newResults) = count
    BY <1>6, <2>7
  <2>12. Len(had) + Len(results) = Total(before)
    BY <2>3, <2>5
  <2>13. Len(intents') + Len(results') = Total(all)
    BY <1>5, <2>1, <2>2, <2>10, <2>11, <2>12
  <2> QED
    BY <2>6, <2>13
<1>13. Gathered'
  <2>1. Decided(Settled)' = Decided(m) /\ CallCounts(Settled)' = CallCounts(m)
    BY <1>0, <1>8 DEF Decided, CallCounts, IntentsOf
  <2> QED
    BY <1>10, <1>11, <1>12, <2>1 DEF Gathered, InOrder
<1> QED
  BY <1>9, <1>13 DEF LoopInv

\* Every step of a run keeps the invariant.
LEMMA LoopStepKeeps == LoopInv /\ [LoopNext]_loopVars => LoopInv'
<1> SUFFICES ASSUME LoopInv, [LoopNext]_loopVars PROVE LoopInv'
  OBVIOUS
<1>1. CASE UNCHANGED loopVars
  <2>0. UNCHANGED <<phase, items, added, iteration, decisions, calls, newIntents, newResults,
                    intents, results>>
    BY <1>1 DEF loopVars, contextVars
  <2>1. ContextOK(items, added)' /\ LoopTypes'
    BY <2>0 DEF LoopInv, ContextOK, PinnedFirst, Chained, Texts, LoopTypes
  <2>2. ActingOK'
    BY <2>0 DEF LoopInv, ActingOK, IntentsOf
  <2>3. Gathered'
    BY <2>0, GatheredStays DEF LoopInv, Settled
  <2> QED
    BY <2>1, <2>2, <2>3 DEF LoopInv
<1>2. CASE LoopNext
  BY <1>2, BuildKeeps, ObserveKeeps, ThinkKeeps, ActKeeps, ActEndsKeeps, VerifyKeeps, LogKeeps
     DEF LoopNext, LoopStep
<1> QED
  BY <1>1, <1>2

\* The invariant of a run.
LEMMA LoopInvariant == LoopSpec => []LoopInv
BY InitLoop, LoopStepKeeps, PTL DEF LoopSpec

\* However often AgentContext.compact_if_needed is called, each addition to the context
\* has gone into one item or summary, in order; only a summary that has the length
\* allowed lacks text, from its end, and neither the event nor a recent addition is in
\* one; and LLMAgent.run returns every intent once and in order, with the results of
\* all memory calls.
THEOREM OnlyTheOldIsForgotten == LoopSpec => []ForgetsOnlyTheOld
<1>0. LoopInv => LoopTypeOK
  BY DEF LoopInv, LoopTypes, ContextOK, Additions, LoopTypeOK
<1>1. LoopInv => EachInOrder /\ OnlySummariesCut
  <2> SUFFICES ASSUME LoopInv PROVE EachInOrder /\ OnlySummariesCut
    OBVIOUS
  <2>1. Chained(items, added) /\ Texts(items, added) /\ DOMAIN items = 1..Len(items)
    BY DEF LoopInv, ContextOK
  <2>2. EachInOrder
    BY <2>1 DEF Chained, EachInOrder
  <2>3. OnlySummariesCut
    BY <2>1 DEF Texts, OnlySummariesCut
  <2> QED
    BY <2>2, <2>3
<1>2. LoopInv => AllIntentsReturned
  <2> SUFFICES ASSUME LoopInv, phase = "returned"
               PROVE  /\ ToSet(intents) =
                             {p \in (1..iteration) \X (1..MaxCalls) : p[2] <= Len(IntentsOf(p[1]))}
                      /\ InOrder(intents)
                      /\ Len(intents) + Len(results) =
                             Total([i \in DOMAIN decisions |-> Len(decisions[i].calls)])
    BY DEF AllIntentsReturned, InOrder
  <2>1. Settled = iteration /\ DOMAIN decisions = 1..iteration
    BY DEF LoopInv, LoopTypes, Settled
  <2> QED
    BY <2>1 DEF LoopInv, Gathered, Decided, CallCounts
<1> QED
  BY <1>0, <1>1, <1>2, LoopInvariant, PTL DEF ForgetsOnlyTheOld

=============================================================================
