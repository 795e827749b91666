---------------------------- MODULE FeishuCalls ----------------------------
(***************************************************************************)
(* agent_hive's use of the Feishu tools: FeishuProvider.call runs a        *)
(* handler in a worker thread, ToolExecutor.execute_step turns what comes  *)
(* back into a ToolResult, and the ToolAgent carries out an intent as a    *)
(* sequence of such calls.                                                 *)
(*                                                                         *)
(* Cancelling the caller does not stop a handler that runs.  A caller that *)
(* heard of an error may call again, with the token it used before.        *)
(***************************************************************************)
EXTENDS FeishuTools

CONSTANTS
    Toolsets,   \* sets of programs, by token: what is called at the same time
    Workers     \* the threads of the default executor

ASSUME CallsAssumption == Workers \in Nat \ {0}

VARIABLES
    toolset,    \* the one of this behaviour
    uuid,       \* the token each call was given
    thread,     \* "none", "loop" (on the event loop, between two handlers),
                \* "queued", "running", "ended", "dropped" (never run)
    answer,     \* what the caller has got
    announced,  \* the handlers that emitted the event of their success
    remembered  \* the writes of results to the memory store

outcomes == <<answer, announced, remembered>>
vars == <<steps, at, seen, remoteVars, toolset, uuid, thread, outcomes>>

-----------------------------------------------------------------------------
(* The intents of the ToolAgent.                                           *)

Back == <<[is |-> "back"]>>          \* the handler emits its event and returns
Tool(handler) == handler \o Back

Remember == <<[is |-> "remember"]>>
EndIfSeen == <<[is |-> "ask"]>>      \* the list has what is to be made

\* The table is looked up by its name unless its id is given.
ResolveTable(given, found) ==
    IF given THEN <<>> ELSE Tool(ListTables) \o Check(found)

\* MUTANT: an error is taken for a field that exists.
AddFieldHopefully(given, found, named, verify) ==
    ResolveTable(given, found) \o Check(named) \o Tool(ListFields) \o EndIfSeen
        \o Tool(<<Try(Make("field", NoToken))>>)

\* A field that exists is left as it is; what the verification finds is told,
\* but not judged.
AddField(given, found, named, verify) ==
    ResolveTable(given, found) \o Check(named)
        \o Tool(ListFields) \o EndIfSeen
        \o Tool(CreateField) \o (IF verify THEN Tool(ListFields) ELSE <<>>)

Repeat(handler, n) == [i \in 1..(2 * n) |-> IF i % 2 = 1 THEN handler[1] ELSE Back[1]]

FindApp(given, pages, space, app) ==
    IF given THEN <<>>
    ELSE Repeat(ListSpaces, pages) \o Check(space) \o Repeat(ListNodes, pages) \o Check(app)

\* The fields of a table that was found by them are known.
ReadTable(named, pages) ==
    (IF named THEN Tool(ListFields) ELSE <<>>) \o Repeat(SearchRecords, pages)

\* One table is found by its name; for another one the schemas of all tables
\* are read. What was found is remembered unless the intent says not to.
Inspect(given, pages, space, app, schemas, keep) ==
    FindApp(given, pages, space, app) \o Tool(ListTables) \o Repeat(ListFields, schemas)
        \o ReadTable(TRUE, pages)
        \o (IF schemas = 0 THEN <<>> ELSE ReadTable(FALSE, pages))
        \o (IF keep THEN Remember \o Remember ELSE <<>>)

-----------------------------------------------------------------------------
(* The calls.                                                              *)

Init ==
    /\ steps = [c \in Calls |-> <<>>]
    /\ at = [c \in Calls |-> 1]
    /\ seen = [c \in Calls |-> {}]
    /\ applied = {} /\ made = {} /\ late = {}
    /\ toolset \in Toolsets
    /\ uuid = [c \in Calls |-> NoToken]
    /\ thread = [c \in Calls |-> "none"]
    /\ answer = [c \in Calls |-> "none"]
    /\ announced = {} /\ remembered = {}

Tools(handlers) == {Tool(h) : h \in handlers}

AddFields == {AddField(g, f, n, v) : g, f, n, v \in BOOLEAN}
Inspects  ==
    {Inspect(TRUE, 2, TRUE, TRUE, 0, keep) : keep \in BOOLEAN}
    \cup {Inspect(FALSE, 1, TRUE, app, 2, TRUE) : app \in BOOLEAN}
    \cup {Inspect(FALSE, 1, FALSE, FALSE, 2, TRUE)}

\* What is called without a token, or with one.
Untokened ==
    CASE toolset = "bitable"   -> Tools(Bitable)
      [] toolset = "groups"    -> Tools(Groups)
      [] toolset = "messages"  -> Tools(Messages)
      [] toolset = "documents" -> Tools(Documents)
      [] toolset = "wiki"      -> Tools(WikiAndDrive)
      [] toolset = "contacts"  -> Tools(Contacts)
      [] toolset = "fields"    -> AddFields
      [] toolset = "inspect"   -> Inspects
      [] OTHER                 -> {}

Tokened(token) ==
    CASE toolset = "groups"    -> Tools(GroupsWith(token))
      [] toolset = "messages"  -> Tools(MessagesWith(token))
      [] toolset = "documents" -> Tools(DocumentsWith(token))
      [] OTHER                 -> {}

Start(c) ==
    /\ thread[c] = "none"
    /\ \E token \in Tokens \cup {NoToken} :
       \E program \in Tokened(token) \cup (IF token = NoToken THEN Untokened ELSE {}) :
          /\ steps' = [steps EXCEPT ![c] = program]
          /\ uuid' = [uuid EXCEPT ![c] = token]
    /\ thread' = [thread EXCEPT ![c] = "loop"]
    /\ UNCHANGED <<at, seen, remoteVars, toolset, outcomes>>

-----------------------------------------------------------------------------
Is(c, what) == at[c] \in DOMAIN steps[c] /\ Now(c).is = what
OnLoop(c)   == thread[c] = "loop"
Advance(c)  == at' = [at EXCEPT ![c] = @ + 1]

\* MUTANT: what fails is tried again until it does not.
RaiseNever(c, how) == UNCHANGED <<thread, outcomes>>

\* An exception ends the handler, and with it the call, whoever waits for it.
Raise(c, how) ==
    /\ thread' = [thread EXCEPT ![c] = "ended"]
    /\ answer' = [answer EXCEPT ![c] = IF @ = "none" THEN how ELSE @]
    /\ UNCHANGED <<announced, remembered>>

\* asyncio.to_thread.
Queue(c) ==
    /\ OnLoop(c)
    /\ Is(c, "request") \/ Is(c, "back")
    /\ thread' = [thread EXCEPT ![c] = "queued"]
    /\ UNCHANGED <<steps, at, seen, remoteVars, toolset, uuid, outcomes>>

TakeWorker(c) ==
    /\ thread[c] = "queued"
    /\ Cardinality({d \in Calls : thread[d] = "running"}) < Workers
    /\ thread' = [thread EXCEPT ![c] = "running"]
    /\ UNCHANGED <<steps, at, seen, remoteVars, toolset, uuid, outcomes>>

Validate(c) ==
    /\ thread[c] \in {"loop", "running"}
    /\ Is(c, "check")
    /\ IF Now(c).holds THEN Advance(c) /\ UNCHANGED <<thread, outcomes>>
                       ELSE Raise(c, "invalid") /\ UNCHANGED at
    /\ UNCHANGED <<steps, seen, remoteVars, toolset, uuid>>

\* MUTANT: whatever the reply is, its data is taken.
SendUnchecked(c) ==
    /\ thread[c] = "running"
    /\ Is(c, "request")
    /\ \/ (Answered(c) \/ Refused(c)) /\ Advance(c) /\ UNCHANGED <<thread, outcomes>>
       \/ (LostOnTheWay(c) \/ LostReply(c)) /\ Raise(c, "error") /\ UNCHANGED at
    /\ UNCHANGED <<steps, toolset, uuid>>

Send(c) ==
    /\ thread[c] = "running"
    /\ Is(c, "request")
    /\ \/ /\ Answered(c) \/ (Refused(c) /\ ~Now(c).raises)
          /\ Advance(c)
          /\ UNCHANGED <<thread, outcomes>>
       \/ /\ (Refused(c) /\ Now(c).raises) \/ LostOnTheWay(c) \/ LostReply(c)
          /\ Raise(c, "error")
          /\ UNCHANGED at
    /\ UNCHANGED <<steps, toolset, uuid>>

\* MUTANT: an intent goes on whether its caller is there or not.
ComeBackAlways(c) ==
    /\ thread[c] = "running"
    /\ Is(c, "back")
    /\ announced' = announced \cup {Sent(c)}
    /\ Advance(c)
    /\ thread' = [thread EXCEPT ![c] = "loop"]
    /\ UNCHANGED <<steps, seen, remoteVars, toolset, uuid, answer, remembered>>

\* The handler emits its event and returns, to nobody if the caller is gone.
ComeBack(c) ==
    /\ thread[c] = "running"
    /\ Is(c, "back")
    /\ announced' = announced \cup {Sent(c)}
    /\ Advance(c)
    /\ thread' = [thread EXCEPT ![c] = IF answer[c] = "cancelled" THEN "ended" ELSE "loop"]
    /\ UNCHANGED <<steps, seen, remoteVars, toolset, uuid, answer, remembered>>

\* MUTANT: the jump to the end goes past it.
DecideBeyond(c) ==
    /\ OnLoop(c)
    /\ Is(c, "ask")
    /\ at' = [at EXCEPT ![c] = IF seen[c] = {} THEN @ + 1 ELSE Len(steps[c]) + 2]
    /\ UNCHANGED <<steps, seen, remoteVars, toolset, uuid, thread, outcomes>>

Decide(c) ==
    /\ OnLoop(c)
    /\ Is(c, "ask")
    /\ at' = [at EXCEPT ![c] = IF seen[c] = {} THEN @ + 1 ELSE Len(steps[c]) + 1]
    /\ UNCHANGED <<steps, seen, remoteVars, toolset, uuid, thread, outcomes>>

\* A write to the memory store, which may raise.
Memorise(c) ==
    /\ OnLoop(c)
    /\ Is(c, "remember")
    /\ \/ /\ remembered' = remembered \cup {Sent(c)}
          /\ Advance(c)
          /\ UNCHANGED <<thread, answer, announced>>
       \/ Raise(c, "error") /\ UNCHANGED at
    /\ UNCHANGED <<steps, seen, remoteVars, toolset, uuid>>

Return(c) ==
    /\ OnLoop(c)
    /\ at[c] > Len(steps[c])
    /\ thread' = [thread EXCEPT ![c] = "ended"]
    /\ answer' = [answer EXCEPT ![c] = "ok"]
    /\ UNCHANGED <<steps, at, seen, remoteVars, toolset, uuid, announced, remembered>>

\* The caller's task is cancelled while it waits: what no worker has taken yet
\* is dropped, what runs goes on.
Cancel(c) ==
    /\ thread[c] \in {"queued", "running"} /\ answer[c] = "none"
    /\ answer' = [answer EXCEPT ![c] = "cancelled"]
    /\ thread' = [thread EXCEPT ![c] = IF @ = "queued" THEN "dropped" ELSE @]
    /\ UNCHANGED <<steps, at, seen, remoteVars, toolset, uuid, announced, remembered>>

CallStep(c) ==
    \/ Queue(c) \/ TakeWorker(c) \/ Validate(c) \/ Send(c)
    \/ ComeBack(c) \/ Decide(c) \/ Memorise(c) \/ Return(c)

ArriveLate == Arrive /\ UNCHANGED <<toolset, uuid, thread, outcomes>>

Next == (\E c \in Calls : Start(c) \/ CallStep(c) \/ Cancel(c)) \/ ArriveLate

Spec == Init /\ [][Next]_vars

\* Connections do not hang for ever, and workers run.
FairSpec == Spec /\ \A c \in Calls : WF_vars(CallStep(c))

-----------------------------------------------------------------------------
Positions == [by : Calls, at : Nat \ {0}]

TypeOK ==
    /\ \A c \in Calls : at[c] \in 1..(Len(steps[c]) + 1)
    /\ applied \subseteq Positions /\ late \subseteq Positions \ applied
    /\ \A a \in applied \cup late : a.at < at[a.by] \/ (a.at = at[a.by] /\ thread[a.by] = "ended")
    /\ thread \in [Calls -> {"none", "loop", "queued", "running", "ended", "dropped"}]
    /\ answer \in [Calls -> {"none", "ok", "error", "invalid", "cancelled"}]
    /\ \A c \in Calls : answer[c] = "ok" => thread[c] = "ended"

\* What Feishu was asked for before step n, and had to do.
AllDone(c, n) ==
    \A i \in 1..(n - 1) : steps[c][i].is = "request" /\ steps[c][i].raises
                              => [by |-> c, at |-> i] \in applied

\* A handler announces its success, and an intent writes a result to the memory
\* store, only when all that Feishu was asked for until then has been done; and
\* when add_field is answered with ok the field is there, whether it was found or
\* made, by this intent or by one that came in between.
AnnouncedIsDone ==
    /\ \A a \in announced \cup remembered : AllDone(a.by, a.at)
    /\ \A c \in Calls :
          toolset = "fields" /\ answer[c] = "ok" => \E m \in made : m.kind = "field"

WritesOf(c)  == {i \in DOMAIN steps[c] : steps[c][i].is = "request" /\ steps[c][i].verb \in Writes}
WrittenBy(c) == {i \in WritesOf(c) : [by |-> c, at |-> i] \in applied}

\* Whatever fails, a tool has done all it writes or nothing: there are no halves
\* to clear away, except of a group that is made with its members; and a call
\* that is answered with a ValueError has written nothing.
WholeOrNothing ==
    \A c \in Calls :
        /\ \/ WrittenBy(c) \in {{}, WritesOf(c)}
           \/ \E i \in WrittenBy(c) : steps[c][i].kind = "chat" /\ i = 1
        /\ answer[c] = "invalid" =>
              \A a \in applied \cup late : a.by = c => RequestOf(a).verb \notin Writes

\* A caller that repeats a call with the same token, after an error or while the
\* first one still runs, gets one message, one group, one set of blocks; only
\* the welcome to a group is sent again.
TokenOnce ==
    \A token \in Tokens : \A kind \in {"message", "chat", "block"} :
        Cardinality({m \in made : m.kind = kind /\ uuid[m.by] = token}) <= 1

\* A cancelled intent gets no further than the handler it was in: it neither
\* calls another tool nor writes to the memory store.
NoCallAfterCancel ==
    [][\A c \in Calls : answer[c] = "cancelled" =>
          /\ thread'[c] \in {thread[c], "ended"}
          /\ {r \in remembered' : r.by = c} \subseteq remembered]_vars

\* Every call comes to an end although there are fewer workers than calls and
\* callers go away.
EveryCallEnds == \A c \in Calls : thread[c] # "none" ~> thread[c] \in {"ended", "dropped"}

=============================================================================
