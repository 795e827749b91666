----------------------------- MODULE ImBridge -----------------------------
(***************************************************************************)
(* The way of a Feishu message from the websocket into the runtime:        *)
(* feishu_message_tools._start_im_listener with its thread and the flag    *)
(* _ws_started, FeishuProvider with load and drain_events, and the tasks   *)
(* that drain it: FeishuIMEventSource.run and the bridge of serve.         *)
(*                                                                         *)
(* The websocket has a thread of its own and publishes by appending to the *)
(* provider's list of events.  Everything else runs on the asyncio loop,   *)
(* so the only step of a task that another thread can fall into is         *)
(* drain_events, which copies the list and then clears it.                 *)
(*                                                                         *)
(* Left out: the events tools emit into the same list, which the drains    *)
(* skip like feishu.ws.started, the contents of messages, and what becomes *)
(* of a message that was handed on (EventDaemon and HiveDispatch).         *)
(***************************************************************************)
EXTENDS Naturals, Sequences, FiniteSets, SequencesExt

CONSTANTS
    Providers,   \* the FeishuProvider objects of one process
    Consumers,   \* the tasks that drain a provider
    Drains,      \* the provider each of them drains
    Bridges,     \* the consumers that are serve's bridge, the others are
                 \* FeishuIMEventSources
    MaxMessages, \* bound: messages one websocket receives
    MaxStops     \* bound: consumers that are cancelled

ASSUME ConstantsAssumption ==
    /\ Drains \in [Consumers -> Providers]
    /\ Bridges \subseteq Consumers
    /\ MaxMessages \in Nat /\ MaxStops \in Nat

VARIABLES
    provider,  \* what each provider has loaded
    wsEnv,     \* FEISHU_ENABLE_IM_WS is set in os.environ
    wsStarted, \* _ws_started
    ws,        \* where the listener thread of each provider stands
    received,  \* how many messages it has received
    events,    \* _event_bus.events of each provider
    pc,        \* where each consumer stands
    batch,     \* the events it has drained and not handled yet
    handed,    \* history: the messages handed to emit or dispatch, with by whom
    lost,      \* history: the messages nobody will hand on any more
    stops

loadVars == <<provider, wsEnv>>
wsVars   == <<wsStarted, ws, received>>
taskVars == <<pc, batch, handed, stops>>
vars     == <<loadVars, wsVars, events, taskVars, lost>>

-----------------------------------------------------------------------------
\* The events of a websocket: its messages, which are numbered, and the notices
\* feishu.ws.started and feishu.ws.error.
Notice   == 0
Messages == 1..MaxMessages
MessagesIn(s) == {s[i] : i \in DOMAIN s} \ {Notice}
Listening == {p \in Providers : ws[p] \in {"starting", "up"}}

Init ==
    /\ provider  = [p \in Providers |-> "none"]
    /\ wsEnv \in BOOLEAN
    /\ wsStarted = FALSE
    /\ ws        = [p \in Providers |-> "none"]
    /\ received  = [p \in Providers |-> 0]
    /\ events    = [p \in Providers |-> <<>>]
    /\ pc        = [c \in Consumers |-> "off"]
    /\ batch     = [c \in Consumers |-> <<>>]
    /\ handed    = <<>>
    /\ lost      = [p \in Providers |-> {}]
    /\ stops     = 0

\* A drain is over before the event loop goes on to another task.
LoopFree == \A c \in Consumers : pc[c] # "copied"

Publish(p, e) == events' = [events EXCEPT ![p] = Append(@, e)]
Lose(c, m)    == lost' = [lost EXCEPT ![Drains[c]] = @ \cup m]

-----------------------------------------------------------------------------
(* The provider and its listener.                                          *)

\* FeishuProvider.__init__ sets the flag for the whole process.
Create(p) ==
    /\ LoopFree
    /\ provider[p] = "none"
    /\ provider' = [provider EXCEPT ![p] = "new"]
    /\ wsEnv' = TRUE
    /\ UNCHANGED <<wsVars, events, taskVars, lost>>

\* _start_im_listener: test and set under the lock, then a new thread, which is
\* taken to start.
StartListener(p) ==
    IF wsStarted
    THEN UNCHANGED <<wsStarted, ws>>
    ELSE wsStarted' = TRUE /\ ws' = [ws EXCEPT ![p] = "starting"]

\* What load leaves behind when it registers the adapter's modules: it may
\* raise in an import or a register before the first tool, in between, or
\* after the module that starts the listener.  Without credentials or without
\* lark_oapi that module starts none.
Register(p, after) ==
    /\ provider[p] = "new"
    /\ after \in {"new", "partial", "loaded"}
    /\ provider' = [provider EXCEPT ![p] = after]
    /\ \/ after # "new" /\ wsEnv' /\ StartListener(p)
       \/ UNCHANGED <<wsStarted, ws>>

\* Loading a provider again returns at once; one that was left half registered
\* raises at the first tool, whose name is taken.
Load(p, after) ==
    \/ Register(p, after)
    \/ provider[p] \in {"partial", "loaded"} /\ after = provider[p]
       /\ UNCHANGED <<provider, wsStarted, ws>>

\* Any tool call loads its provider.
Call(p) ==
    /\ LoopFree
    /\ wsEnv' = wsEnv
    /\ \E after \in {"new", "partial", "loaded"} : Register(p, after)
    /\ UNCHANGED <<received, events, taskVars, lost>>

\* _run_ws.
WsStarted(p) ==
    /\ ws[p] = "starting"
    /\ ws' = [ws EXCEPT ![p] = "up"]
    /\ Publish(p, Notice)
    /\ UNCHANGED <<loadVars, wsStarted, received, taskVars, lost>>

Receive(p) ==
    /\ ws[p] = "up"
    /\ received[p] < MaxMessages
    /\ received' = [received EXCEPT ![p] = @ + 1]
    /\ Publish(p, received'[p])
    /\ UNCHANGED <<loadVars, wsStarted, ws, taskVars, lost>>

\* The client raises: first another listener is allowed, then the error is
\* published.
WsFails(p) ==
    /\ ws[p] = "up"
    /\ ws' = [ws EXCEPT ![p] = "failing"]
    /\ wsStarted' = FALSE
    /\ UNCHANGED <<loadVars, received, events, taskVars, lost>>

\* MUTANT: the flag is reset when the thread ends.
WsErrorResets(p) ==
    /\ ws[p] = "failing"
    /\ ws' = [ws EXCEPT ![p] = "dead"]
    /\ wsStarted' = FALSE
    /\ Publish(p, Notice)
    /\ UNCHANGED <<loadVars, received, taskVars, lost>>

WsError(p) ==
    /\ ws[p] = "failing"
    /\ ws' = [ws EXCEPT ![p] = "dead"]
    /\ Publish(p, Notice)
    /\ UNCHANGED <<loadVars, wsStarted, received, taskVars, lost>>

-----------------------------------------------------------------------------
(* The consumers.                                                          *)

\* enable_im_websocket and load come first; if load raises, the source's task
\* ends, and serve does not start.
StartConsumer(c) ==
    /\ LoopFree
    /\ pc[c] = "off"
    /\ provider[Drains[c]] # "none"
    /\ wsEnv' = TRUE
    /\ \E after \in {"new", "partial", "loaded"} :
          /\ Load(Drains[c], after)
          /\ pc' = [pc EXCEPT ![c] = IF after = "loaded" THEN "polling" ELSE "refused"]
    /\ UNCHANGED <<received, events, batch, handed, stops, lost>>

Copy(c) ==
    /\ LoopFree
    /\ pc[c] = "polling"
    /\ batch' = [batch EXCEPT ![c] = events[Drains[c]]]
    /\ pc' = [pc EXCEPT ![c] = "copied"]
    /\ UNCHANGED <<loadVars, wsVars, events, handed, stops, lost>>

AfterDrain(c) == pc' = [pc EXCEPT ![c] = IF batch[c] = <<>> THEN "polling" ELSE "handling"]

\* MUTANT: the list is left as it is.
ClearNothing(c) ==
    /\ pc[c] = "copied"
    /\ AfterDrain(c)
    /\ UNCHANGED <<loadVars, wsVars, events, batch, handed, stops, lost>>

Clear(c) ==
    /\ pc[c] = "copied"
    /\ AfterDrain(c)
    /\ events' = [events EXCEPT ![Drains[c]] = <<>>]
    /\ Lose(c, MessagesIn(events[Drains[c]]) \ MessagesIn(batch[c]))
    /\ UNCHANGED <<loadVars, wsVars, batch, handed, stops>>

AtEvent(c) == LoopFree /\ pc[c] = "handling"

\* After the last event of a batch the consumer sleeps, then polls again.
Advance(c, rest) ==
    /\ batch' = [batch EXCEPT ![c] = rest]
    /\ pc' = [pc EXCEPT ![c] = IF rest = <<>> THEN "polling" ELSE "handling"]

\* The task is over, and the rest of its batch goes with it.
Leave(c, how) ==
    /\ pc' = [pc EXCEPT ![c] = how]
    /\ batch' = [batch EXCEPT ![c] = <<>>]
    /\ Lose(c, MessagesIn(batch[c]))
    /\ UNCHANGED <<loadVars, wsVars, events, handed>>

\* MUTANT: a notice ends the loop.
SkipNoticeReturns(c) ==
    /\ AtEvent(c) /\ c \notin Bridges
    /\ Head(batch[c]) = Notice
    /\ Leave(c, "died") /\ UNCHANGED stops

SkipNotice(c) ==
    /\ AtEvent(c) /\ c \notin Bridges
    /\ Head(batch[c]) = Notice
    /\ Advance(c, Tail(batch[c]))
    /\ UNCHANGED <<loadVars, wsVars, events, handed, stops, lost>>

Pass(c, m) ==
    /\ m # Notice
    /\ handed' = Append(handed, [by |-> c, msg |-> m])
    /\ UNCHANGED <<loadVars, wsVars, events, stops, lost>>

\* MUTANT: the events of a batch are handed on last first.
HandOnLast(c) ==
    /\ AtEvent(c) /\ c \notin Bridges
    /\ Pass(c, Last(batch[c])) /\ Advance(c, Front(batch[c]))

HandOn(c) ==
    /\ AtEvent(c) /\ c \notin Bridges
    /\ Pass(c, Head(batch[c])) /\ Advance(c, Tail(batch[c]))

\* serve's bridge passes default_project_id along with the first event it gets,
\* whatever the event is.  The name is bound only by the last line of run_cli,
\* so this raises, in a task that nobody awaits.
BridgeDies(c) ==
    /\ AtEvent(c) /\ c \in Bridges
    /\ Leave(c, "died") /\ UNCHANGED stops

Cancelled(c) ==
    /\ LoopFree
    /\ pc[c] \in {"polling", "handling"}
    /\ stops < MaxStops
    /\ stops' = stops + 1

\* MUTANT: the rest of the batch stays behind.
CancelKeepsBatch(c) ==
    /\ Cancelled(c)
    /\ pc' = [pc EXCEPT ![c] = "stopped"]
    /\ UNCHANGED <<loadVars, wsVars, events, batch, handed, lost>>

\* The task is cancelled in its sleep, or in the emit of an event.
CancelConsumer(c) == Cancelled(c) /\ Leave(c, "stopped")

-----------------------------------------------------------------------------
ConsumerStep(c) == Copy(c) \/ Clear(c) \/ SkipNotice(c) \/ HandOn(c) \/ BridgeDies(c)
ListenerStep(p) == WsStarted(p) \/ Receive(p) \/ WsFails(p) \/ WsError(p)

Next ==
    \/ \E p \in Providers : Create(p) \/ Call(p) \/ ListenerStep(p)
    \/ \E c \in Consumers : StartConsumer(c) \/ ConsumerStep(c) \/ CancelConsumer(c)

Spec == Init /\ [][Next]_vars

\* The event loop takes the consumers in turn.  It is strong fairness, because a
\* drain of another consumer shuts the loop for one step (LoopFree), which is no
\* reason to pass a task over.  emit is taken to come back, which EventDaemon's
\* EveryEventTaken shows for a daemon that serves.
FairSpec == Spec /\ \A c \in Consumers : SF_vars(ConsumerStep(c))

-----------------------------------------------------------------------------
TypeOK ==
    /\ provider \in [Providers -> {"none", "new", "partial", "loaded"}]
    /\ wsEnv \in BOOLEAN /\ wsStarted \in BOOLEAN
    /\ ws \in [Providers -> {"none", "starting", "up", "failing", "dead"}]
    /\ received \in [Providers -> 0..MaxMessages]
    /\ events \in [Providers -> Seq(Messages \cup {Notice})]
    /\ pc \in [Consumers -> {"off", "polling", "copied", "handling", "refused", "died", "stopped"}]
    /\ batch \in [Consumers -> Seq(Messages \cup {Notice})]
    /\ \A c \in Consumers : pc[c] \in {"copied", "handling"} \/ batch[c] = <<>>
    /\ handed \in Seq([by : Consumers, msg : Messages])
    /\ lost \in [Providers -> SUBSET Messages]
    /\ stops \in 0..MaxStops

\* However many providers register the adapter, and although a listener that
\* failed makes room for another while it is still on its way out, at most one
\* websocket listens, and the flag tells whether one does.
OneListener ==
    /\ Cardinality(Listening) <= 1
    /\ wsStarted <=> Listening # {}

Indices(s, e) == {i \in DOMAIN s : s[i] = e}
DrainedBy(p)  == {c \in Consumers : Drains[c] = p /\ pc[c] = "handling"}

\* Where a message is: still to be handed on, handed on, or lost.
Places(p, n) ==
    {[at |-> "list", of |-> p, index |-> i] : i \in Indices(events[p], n)}
    \cup (UNION {{[at |-> "batch", of |-> c, index |-> i] : i \in Indices(batch[c], n)} :
                    c \in DrainedBy(p)})
    \cup {[at |-> "handed", of |-> p, index |-> i] :
             i \in {j \in DOMAIN handed : Drains[handed[j].by] = p /\ handed[j].msg = n}}
    \cup {[at |-> "lost", of |-> p, index |-> m] : m \in lost[p] \cap {n}}

\* A message that was received is in one place only: it waits in the list, is
\* in one consumer's batch, was handed on once, or is lost.
OneCopy ==
    \A p \in Providers : \A n \in 1..received[p] : Cardinality(Places(p, n)) = 1

\* A consumer hands on the messages of a provider in the order they came.
InOrder ==
    \A i, j \in DOMAIN handed :
        i < j /\ handed[i].by = handed[j].by => handed[i].msg < handed[j].msg

\* Every message is handed on once and in its place, unless it is lost.
MessagesKept == OneCopy /\ InOrder

\* A message that waits while a source polls is handed on, unless it is lost in
\* a drain or the source is cancelled; no notice ends the source.
MessagesLeave ==
    \A c \in Consumers \ Bridges : \A m \in Messages :
        (pc[c] \in {"polling", "copied", "handling"} /\ m \in MessagesIn(events[Drains[c]]))
            ~> (\/ m \in lost[Drains[c]] \/ pc[c] = "stopped"
                \/ \E i \in DOMAIN handed :
                       Drains[handed[i].by] = Drains[c] /\ handed[i].msg = m)

-----------------------------------------------------------------------------
\* feishu_im.py:17 says that the source "polls Feishu adapter events and emits
\* normalized HiveEvents": as long as no consumer is cancelled or dies, no
\* message is lost.
NoMessageLost ==
    \A p \in Providers : lost[p] # {} => \E c \in Consumers : pc[c] \in {"stopped", "died"}

\* README.md:67 says of serve that it is resident and listens to Feishu IM: its
\* bridge lives until it is cancelled.
ServeListens == \A c \in Bridges : pc[c] # "died"

=============================================================================
