# HiveMindAI: a TLA+ verification development

TLA+ models of the runtime of HiveMindAI, a virtual organization of LLM agents that works in
Feishu (Lark), with TLC runs on small instances and TLAPS proofs. Source paths are relative
to the repository; `agent_hive` is `src/agent-hive/agent_hive`.

## 1. The system

```
websocket thread --> FeishuProvider's event list --> bridge / FeishuIMEventSource
                                                            |
cron source, stdin source ----------------------> EventDaemon (bounded queue)
                                                            |
                                                   HiveRuntime.dispatch
                                    root agent -> child agents -> tool agents
                                                            |
                                     ToolExecutor -> Feishu adapter, memory store

ToolRuntime (tool_integration): one tool call, three modes, a pool of worker threads
```

### Inventory

| Component | State it keeps | Operations | Interacts through |
| --- | --- | --- | --- |
| Tool runtime, `tool_integration/{runtime,jobs,events,tools}.py` | a `JobRecord` per job (state, result, error, future, cancel_requested), the pool's queue, the log and subscribers of the event bus | invoke (sync, background, switchable), cancel, switch_to_background, shutdown, checkpoint | calling threads, eight worker threads and cancellers share the job records; locks protect the dictionary, not the records |
| Event daemon, `agent_hive/runtime/daemon.py`, and its sources | queue, counters, `_stop`, the list of tasks; every source has a stop flag | emit, run_forever, run_until_idle, stop | asyncio tasks; the queue holds back the sources |
| Hive runtime, `agent_hive/runtime/{hive_runtime,agent_runner,session}.py` | an `AgentSession` per run | dispatch, run, shutdown | awaited calls; run summaries go to the memory store |
| Feishu IM, `feishu_adapter/feishu_message_tools.py`, `agent_hive/tools/providers/feishu.py`, `agent_hive/events/sources/feishu_im.py`, the bridge in `agent_hive/cli.py` | `_ws_started`, `FEISHU_ENABLE_IM_WS`, the provider's registry and event list, a consumer's batch | load, publish, drain, hand on | the websocket thread appends to the list that asyncio tasks drain |
| Orchestrator and LLM agents, `agent_hive/agents/{orchestrator,llm_agent}.py`, `agent_hive/context/manager.py` | per run: the context, observations, tool results, intents | observe, think, act, verify; add to a context, compact it | model calls in threads; memory tools |
| Tool agent, `agent_hive/agents/tool_agent.py`, `agent_hive/tools/{executor,planner}.py` | per intent: what the replies said; resources remembered in the memory store | add a field, FR-02 inspection, single calls | sequences of awaited Feishu calls in worker threads |
| Memory store, `agent_hive/memory/runtime_compat` | SQLite tables of memories, sessions, events, project context and documents; profile files | write, search, weight, evict, reflect, sessions, project context, documents, migration | one connection per process, any number of processes on `runtime/memory.db` |
| Feishu adapter, `feishu_adapter/` | none of its own; Feishu's | about eighty tools on bases, groups, messages, documents, wiki, drive and contacts | HTTP requests of lark-oapi, in worker threads |
| Contact directory, `feishu_adapter/feishu_contact.py` | per search: queue, visited departments, counts | lookups, search of a department tree | the same |
| Configuration, tool registry, schemas | nothing that lasts | validate, register, convert | calls |

### What is hard about it

* Threads and event loop meet in two places. Job records are written by workers and
  cancellers and polled by callers, field by field; the provider's event list is appended to
  by the websocket and copied, then cleared, by a task.
* Asyncio cancellation arrives at any await: in a full queue's put, in a dispatch, in the
  gather of a stop. It is no `Exception`, so it passes by the handlers that count failures.
* A dispatch has effects one run after another and no way back when one of them fails.
* What agents delegate is decided by a language model.
* The order of shutting things down: sources, dispatch loop, bridge, memory store.
* `agent-hive serve` and `agent-hive run` open the same SQLite file. No statement is ever
  rolled back: one that fails leaves its transaction open, and the connection is used again.
* A Feishu request is carried out or not whatever its sender hears of it; cancelling the
  sender does not stop the thread that sends.
* The search of departments, and of a wiki for a base, follow what Feishu shows page by page;
  what is shown may be moved meanwhile, and need be no tree.

For each component, what makes it correct: a tool call's answer, its job record, its future and
its announcements agree, no terminal state is overwritten, every call returns (tool runtime);
no event is lost, reordered, miscounted or taken after a stop, a stop ends and leaves nothing
running, a failing event does not end the service (daemon); runs form the tree that the policy
allows, whatever models say, and a failure is the last thing that happens and is visible (hive
runtime); one listener at a time and every message handed on once (IM); a run forgets only what
is old, loses nothing it decided, and ends (LLM agent); what was answered is stored, documents
are whole, the log of events is true, the schema complete (memory store); what is announced was
done, a write is done wholly or not, a repeated call with the same token makes one thing, a
cancelled intent makes no further call (Feishu calls); limits hold and an untruncated answer is
complete (contacts); the best base and tables are found (inspection). `PROJECT.json` lists the
hazards with their lines and the properties that cover them.

## 2. Modules

| Module | Models | Checked by |
| --- | --- | --- |
| `ToolJobs` | `ToolRuntime`, `JobRuntime`, `EventBus`, `ToolContext.checkpoint` | `MCToolJobs` |
| `ToolCallContract` | abstract: what a caller may rely on in a tool call | through the refinement |
| `ToolJobsRefinement` | the mapping from `ToolJobs` to `ToolCallContract` | `MCToolJobs` |
| `ToolJobsProofs` | theorems on `ToolJobs` and its refinement | TLAPS |
| `EventDaemon` | `EventDaemon`, its queue, its source tasks, both ways to run it | `MCEventDaemon` |
| `EventDelivery` | abstract: what a daemon promises of the events handed to it | through the refinement |
| `EventDaemonRefinement` | the mapping from `EventDaemon` to `EventDelivery` | `MCEventDaemon` |
| `EventDaemonProofs` | theorems on `EventDaemon` and its refinement | TLAPS |
| `HiveDispatch` | `HiveRuntime.dispatch`, `AgentRunner.run`, sessions, the end of `serve` | `MCHiveDispatch` |
| `AgentLoop` | `LLMAgent.run`, `AgentContext` and its manager | `MCHiveDispatch` |
| `HiveDispatchProofs` | theorems on `HiveDispatch` and on `AgentLoop` | TLAPS |
| `ImBridge` | the websocket thread, `FeishuProvider`, `FeishuIMEventSource`, `serve`'s bridge | `MCImBridge` |
| `ImBridgeProofs` | theorems on `ImBridge` | TLAPS |
| `SqliteFile` | an SQLite file: transactions, locks, timeouts, rollback (external) | `MCMemoryStore` |
| `MemoryStore` | `MemoryToolset`, `MemoryStore`, two processes on one file; extends `SqliteFile` | `MCMemoryStore` |
| `MemoryStoreProofs` | theorems on `MemoryStore` | TLAPS |
| `FeishuApi` | `feishu_request` and what Feishu and the network do (external) | `MCFeishu` |
| `FeishuTools` | every handler of `feishu_adapter`; extends `FeishuApi` | `MCFeishu` |
| `FeishuCalls` | `FeishuProvider.call`, `ToolExecutor`, the tool agent's intents; extends `FeishuTools` | `MCFeishu` |
| `FeishuCallsProofs` | theorems on `FeishuCalls` | TLAPS |
| `ContactSearch` | `feishu_contact_resolve_user_in_department_tree` | `MCFeishu` |
| `Inspection` | how the FR-02 inspection finds its base and tables | `MCFeishu` |
| `SearchProofs` | theorems on `ContactSearch` and on `Inspection` | TLAPS |
| `ListOps` | filtering and summing a list, as folds | by the modules that use it |
| `ListTheorems` | what those folds, `Min` and `Max` return, for lists of any length | TLAPS |

Definitions marked `MUTANT` are not part of the models. Each is a wrong version of the
definition after it, used to see that a property notices the mistake. Bounds of the models
are constants with `bound:` in their comment; they limit how often something is called or how
large a structure is, never what the code does in a state.

Several properties are conjunctions of named parts (`EventsKept == Conservation /\
SourceOrder`): the runs check the conjunction, the parts are what is proved one by one, and
there is a mutant for each part. Where components share a run, the type invariant of the second
and third is such a part (`ForgetsOnlyTheOld`, `AnswerHolds`, `BestIsFound`).

### ToolJobs

A step is what a thread does between two points at which another thread can see shared state.
A *call* is one `invoke` with its calling thread, its job record, its future and, when it has
been taken up, its worker. `set_succeeded` and `set_failed` are two steps each
(`SetSucceeded`, `StoreResult`), because the state is written before the result; `Submit` and
`AssignFuture` are two because the future is assigned after the executor knows it;
`cancel` is three (`RequestCancel`, `TryCancelFuture`, `MarkCancelled`), between which the
worker may go on. `Publish` appends to the log and may raise (`BusRaises`) when a subscription
arrives during the walk through the subscribers; every caller of publish says what it does
then. `ForegroundTimeout` may happen at any poll: time is left out.

### EventDaemon

A step is what a task does between two awaits that really suspend; `put` into a queue with
room and `get` from a queue that is not empty do not. `Task.cancel` only adds to `cancelled`;
the task notices when it is scheduled. `stop` is `BeginStop` up to the gather and
`RunnerStopped` or `StopperStopped` after it, so that the two callers of stop, the `finally`
of `run_forever` and somebody else, overlap as they may in the program. A cancel of
`run_forever` while it waits is part of `Leave`; a second one during the gather is
`RunnerInterrupted`. `RunUntilIdle` is the helper with a loop of its own.
`EventDelivery` knows neither tasks nor queue: an event waits, is served, and is finished or,
once the daemon is being stopped, dropped; those of one producer are served in their order.
An event waits there while it is in a suspended put or in the queue, and the daemon is ending
from the first cancellation of a task up to the next run.
`taken` and `lost` are history variables; no guard reads them. The model starts a daemon only
when no stop is under way and the last one has come back, as all callers do; the code does
not check it (see the hazards).

### HiveDispatch

A *dispatcher* is a task that calls `dispatch`. `todo` holds the actions and intents still to
be carried out, in the order of the two nested loops of `dispatch`: `Follow` says what the
output of a run adds. An output is any that its agent's class can build, an orchestrator's
never without an action (`_fallback_actions`). `Nobody` stands for each target whose
resolution raises. The summary is written in the same step as the session is marked, because
the memory store does not suspend; a write that raises is one of the cases of `RunFails`.

### ImBridge

The events of a provider are numbers: its messages, and 0 for a notice. `Copy` and `Clear` are
the two statements of `drain_events`; between them only the websocket thread can act
(`LoopFree`). `Register` ends in any of the states that exceptions in `load` can leave
behind. `BridgeDies` is what the bridge of `serve` does with its first event today.

### AgentLoop

`phase` is where `LLMAgent.run` stands; `Think`, `Act`, `ActEnds` and `Verify` are its four
steps, `Act` one tool call of a decision. Items of the context are the numbers of the
additions they stand for, with a length: `Compacted` is `compact_if_needed`, which keeps what
is pinned, makes one pinned summary of the rest and leaves the last few as they are. A summary
longer than `max_summary_chars` is cut at its end (`Uncut`): it stands for the additions from
`first` to `last`, but has the text of those up to `whole` only. The
context is rendered, and so compacted, only when the model is asked and the payload does not
decide. `ThinkFails` is the exception of a model that cannot be reached; a memory call that
fails is a result like others. `HiveDispatch` shows what a run is part of: `MCHiveDispatch`
has loads of events for the one (`Deep`, `Wide`), and none (`Quiet`) for a look into a run.

### SqliteFile and MemoryStore

`SqliteFile` has the file, and for each connection its transaction: open or not, its lock and
its view of the tables. A statement that changes rows opens a transaction; an open one keeps a
read lock after each query; a commit that finds readers keeps "pending". The code never calls
`rollback`, so a statement that times out leaves what `ChangeTimesOut` and `CommitTimesOut`
say. `Closes` is the end of a process, which rolls back.

In `MemoryStore` an operation is the sequence of its statements, in the order of the code:
`WriteMemory` is the query for the digest, the insert, the commit, the answer. `Ask` has what
the code does with the outcome: skip so many statements, or raise. A step is one statement of
one process. The ids that `new_id` makes are 32 random bits, so that an INSERT which takes one
may find it taken and raise (`Clashes`). `Dispatch` picks an operation of the tools of a
workload; `Raise` ends it and keeps the connection, as `MemoryToolset.dispatch` does. `Stop`
ends a process between any two statements. `Suspended` says whether a process may be held up
between two statements for longer than the five seconds that another one waits for its lock;
`memory_store_persists` finds its counterexample with the deadlock of two connections alone, in
which neither can go on.

### FeishuApi, FeishuTools and FeishuCalls

A handler is the sequence of its checks and requests, in the order of the code, so that a
tool is one line of `FeishuTools`. `FeishuApi` has the four outcomes of a request: answered,
refused, lost on the way (and perhaps carried out later: `Arrive`), carried out with the reply
lost; for a uuid that has been used Feishu makes nothing new. `Try` marks the two tools that
take a refusal for a result.

`FeishuCalls` runs them. A call is on the event loop between two handlers, and in a worker
thread during one: `Queue`, `TakeWorker`, `Send`, `ComeBack`. `Cancel` reaches the caller; a
queued handler is dropped, a running one goes on and comes back to nobody. The tool agent's
intents are programs of several handlers: `AddField` lists, creates and verifies; `Inspect`
has the calls of the inspection, for a table found by its name and one found by its fields,
and its two writes to the memory store. How the replies steer
it is `Inspection`: the search of the wiki level by level with its limits, the comparison of
table names, the scores of fields and the assignment in the order of the scores.
`ContactSearch` is the search of a department tree, one page a step. Both only read, so
`MCFeishu` composes by alternatives: a behaviour is about two calls, or about one search, or
about one inspection.

## 3. Runs

Questions that can share a state space share a run.

| Run | Question | Instance |
| --- | --- | --- |
| `tool_jobs_safety` | do record, future, worker and answer agree, is a terminal state final, and is the abstract contract implemented? | a foreground and a background call, one worker, a cancel of each, shutdown |
| `tool_jobs_calls` | do the announcements agree with the record, in order? does invoke return, even if workers never do? | a foreground and a sync call, checkpoints, two cancels; only callers are fair |
| `tool_jobs_settle` | does an accepted job reach a terminal state? | two background calls, one worker |
| `tool_jobs_torn` | *refuted*: an answer ok carries the result | state is visible before the result |
| `event_daemon` | is an event lost, reordered, miscounted or taken after stop? does stop leave a task, and come back? is every event taken, with put waiting and dispatches raising? is the abstract delivery implemented? | two sources and a caller with two events each, one of which may hang, queue of one, two runs, two stops or cancels |
| `hive_dispatch` | shape, number, order and end of an event's runs, for any output; does anything run on a closed store? does a run forget anything but what a full summary has no room for, does it end? | an orchestrator, a business agent, a tool agent; up to 3 actions, limit 2, two events; or loop and bridge with an event each; or one run |
| `im_bridge_safety` | one listener? each message in one place, in order, until it leaves? | two providers, a source and a bridge on one of them, three messages each, a cancel |
| `im_bridge_lost` | *refuted*: no message is lost | publish between copy and clear |
| `im_bridge_serve` | *refuted*: serve listens | unbound name in the bridge |
| `memory_store` | are documents whole unless an INSERT of a chunk failed, answers kept, events true, is the schema complete, does every call return? | two processes on a new or an old file; two calls of one and one of the other, one stop, any suspension; three workloads |
| `memory_store_persists` | *refuted*: memory_write persists | three calls each, no suspension |
| `feishu_calls` | is what is announced done, wholly, and once per token? what does a cancelled intent still do? are a search's limits and answer right? is the best base and table found? does everything end? | two calls of any tool with any outcome of their requests, one worker, one token; or charts of three departments; or a wiki of three nodes, two roles and two tables |

Why the bounds are enough. A queue of one place is full as soon as one event waits, so with
three producers all of its cases occur: a put that waits, is overtaken, or is cancelled. Two
runs are needed for what one leaves to the next; two stops for stops that overlap and for a
cancel within a stop. Two calls and one worker make a job wait behind another. Three
proposed actions against a limit of two cut an output off. Two providers are needed to have a
listener replaced while it is on its way out.

Two processes are what the program has (`serve` and `run`), and two connections what a
conflict of locks takes; two calls of one leave a failed transaction to the next, and a third
one, of the other process, meets it. Two columns have a place between them for a crash, two
chunks too. An older file has none or all of the columns, and each of the three sets of tools
touches tables that the others do not. Two calls are what a repetition takes, of a call that
has failed or that still runs, and one worker makes the second wait. The charts have a
department in two places and a cycle, and the limits are met at each of their places in the
code, in the middle of a page too. The wikis are flat, have two levels or a cycle, and more
nodes than fit on a page or in the bound. Two roles and two tables with scores up to two have
every conflict of two matches. Three steps with two summaries compact a context that already
has a summary, and the lengths make one that fits and one that is cut between two items or
within one.

The configurations say `CHECK_DEADLOCK FALSE` because all of these systems stop: calls
return, daemons are stopped, bounds run out.

## 4. Fairness

Nobody has to call anything: invocations, cancels, emits, dispatches, stops, messages and
failures are never fair.

* `ToolJobs`: threads that can run do run. `tool_jobs_calls` uses that for calling threads
  only, `tool_jobs_settle` for workers too, whose tools are taken to end.
* `EventDaemon`: the event loop schedules ready tasks in turn (weak fairness of each).
  A dispatch ends, because the model and HTTP calls under it have timeouts
  (`tools/providers/llm.py:46`), except that one of an event in `MayHang` need not: stop has
  to come back all the same.
* `HiveDispatch`, `AgentLoop`: the same for the steps of a dispatch and of a run.
* `MemoryStore`: a process with statements left goes on with them, and `sqlite3` gives up
  waiting for a lock after five seconds, its default.
* `FeishuCalls`: worker threads run, and a connection does not hang for ever. The second is an
  assumption: the client is built without a timeout (`feishu_client.py:62`), so that it rests
  on the network. `ContactSearch`, `Inspection`: a search goes on while its requests succeed.
* `ImBridge`: strong fairness of the consumers. A drain of one shuts the loop for the others
  for a step (`LoopFree`), which is a matter of the model's grain; the loop's queue is first
  in, first out, and passes nobody over.

## 5. Proofs

Every theorem holds for all values of the constants that the named assumptions of the modules
allow; the assumptions say that numbers are numbers and sets are disjoint where the program's
are. Those that say more: the producers of a daemon and the columns of a schema are finite
sets, because events are counted and the columns ordered; no token is
`NoToken`, no table is `NoCopy`, no agent is `Nobody`, which stand for the absence of one; the
workloads of the memory store are sets of tools that the toolset has. Of what Feishu shows to
a search (`ChartsAssumption`) it is assumed that its lists are of departments and that the
pages of one department do not show a user twice; of what it shows to the inspection
(`WikisAssumption`), that a wiki has finitely many nodes and that the top of the space is none
of them. Neither need be a tree: a department or node may be listed anywhere, among its
own descendants too; only `ExactTitleWins` is about spaces that list each node once
(`WithinBounds`).

A theorem `Spec => []P` of these modules rests on an inductive invariant. TLC agrees, on the
instances of the runs, with those of `EventDaemon`, `HiveDispatch`, `ImBridge` and
`MemoryStore`, and with the parts of the other ones that the runs check; that of `FeishuCalls`
quantifies over all sequences and is out of TLC's reach. Each preservation proof has a step per
action; lemmas say once what the operators of the model do.

* **`ToolJobsProofs`**: any set of calls, workers, cancels and checkpoints.
  `Agreement`, a property of the runs, relates where the caller, the worker and the canceller
  of a job stand to its record and its future; with `TypeOK` it is inductive. A cancelled
  record says nothing by itself: what keeps a cancelled job from being executed is that its
  future was cancelled and therefore no worker holds it. From it follow `TypeCorrect`,
  `AgreementCorrect`, `CancelledSafe`, the action property `TerminalFinal` (each step that
  writes a state does so where the invariant excludes a terminal one, but for the one place the
  code has, a success whose announcement raises) and `ContractKept`: every step of `ToolJobs`
  is a step of `ToolCallContract` under the mapping, or a stutter. `RecordTrue` and
  `AnnouncementsTrue` need more: which events have been published depends on the line the
  caller, worker and canceller have come to (`PlaceOK`), and so does what a caller holds.
* **`EventDaemonProofs`**: any finite set of producers, any queue, any bounds. `TypeCorrect`,
  `EventsAreKept`, `StopIsComplete`, `NothingTaken`. `TypeOK` is not inductive: a put that
  waits resumes with an event, which must be one that was emitted and is nowhere yet
  (`PutWaits`, `PutOnce`), the queue must be shorter than its limit when it resumes, and where
  the consumer and the source tasks stand depends on the runner (`LoopState`, `RunState`).
  `DeliveryKept`: every step is a step of `EventDelivery` under the mapping, or a stutter. The
  head of the queue is the first of its producer that still waits, by the order of the history;
  that nothing is taken or finished while the daemon is ending is `EndingOK`.
* **`HiveDispatchProofs`**: any agents, loads, numbers of dispatchers and outputs.
  `TypeCorrect`, `RunsFormTree`, `SessionsAreTrue` and the action property `ClosedIsQuiet`. The
  bound on the runs of an event is no matter of a single run: `PlanOK` counts the runs together
  with the work still to do, and ties each piece of work to the session it was proposed by. Of
  `AgentLoop`, for any number of steps, calls and items, any budget and lengths:
  `OnlyTheOldIsForgotten`. The context is a number of pinned items followed by whole ones,
  whose place gives the addition they stand for (`PinnedFirst`); that is what lets one summary
  stand for all that it replaces, and so leaves each item going on where the one before it
  ended (`Chained`), after a second compaction too (`CompactKeeps`). What a summary has the
  text of is a beginning of what it stands for, and all of it unless it was cut (`Texts`); as
  what is kept is not in a summary, nothing recent can be cut. The intents returned are those
  of the iterations that are settled, in order (`Gathered`); in an iteration, what was
  collected and what is left of its calls add up to what was decided (`ActingOK`).
* **`ImBridgeProofs`**: any providers, consumers and messages. `TypeCorrect`, `OneListens`,
  `MessagesAreKept`. The second: who holds the flag, and at most one is on its way between the
  flag and the listener. The third follows a message by what each consumer knows (`Known`),
  the order in it (`Ordered`), what a drain has copied and not yet cleared (`Copying`) and
  that each is known once (`EachOnce`); a message published between copy and clear is the
  hole that `im_bridge_lost` shows, and is counted as lost.
* **`FeishuCallsProofs`**: any calls and tokens, any number of workers. `TypeCorrect`,
  `TellsWhatIsDone`, `LeavesNoHalves`, `TokensMakeOne` and the action property
  `CancelledGoesNoFurther`. Programs are sequences of steps: lemmas go through every tool of
  `FeishuTools` once and show its shape (what it checks first, which steps write, what
  remains of it after a failure). The invariant ties requests to the steps that sent them
  (`SentOK`), progress to what was answered (`ProgressOK`), what a list showed to what is
  there (`SeenOK`) and each thing to the one request with its token (`MadeOK`, `OneOfAToken`),
  however late a request that was taken for lost is carried out.
* **`MemoryStoreProofs`**: any processes on the file, any workload of tools, any number of
  chunks, columns, calls and stops, suspended or not. `TypeCorrect`, `DocumentsAreWhole`,
  `StoresAreMigrated`, `AnswersAreKept`, `LogIsTrue`. What a process still has to do is the
  rest of a program, cut off anywhere, so that the invariant is about rests: `Shaped` says of
  each statement what comes at which distance before it (`Before`) and after it (`After`), and
  that nothing behind a skip depends on what was skipped (`Independent`). `Operate` shows it
  for every tool, `Rest` that it stays true, `Join` that programs can be put together. With
  that, `Documents` says of each document that is not `torn` how much of it a copy or the file
  has, by the statement its process is at (`Whole`, `Half`), which is why nothing but a failed
  INSERT leaves a half to be stored; `Schema`, that a column is in the file or ahead of each
  process that opens it; `Log`, that what will be told within so many statements is true
  already and told by nobody else; `MemoriesKept`, that a copy keeps the memories of the file
  and, as long as no call has failed, is on its way to the commit. `OneWriter`: only one
  connection has a copy.
* **`SearchProofs`**: any chart, wiki and limits, any number of roles, tables and scores.
  `AnswersHold`: the matches are the wanted users among those that have been met, each once
  (`MatchesInv`), and all that a visited department has led to so far is visited or waits
  (`QueueInv`); an empty queue then closes the set of the visited, so that they are all there
  is (`AllVisited`). Since a list comes in pages, both speak of the part of it that was shown
  (`Met`, `Led`). Each way to stop names a limit that was reached. `InspectTypeCorrect`,
  `ExactTitlesWin`: there is a set of nodes, namely those listed, such that whatever they list
  has been looked at and carries no exact title, and leads on only to nodes of the set or in
  the queue (`ScanOK`). The set is no variable of the program: a fixed one witnesses the
  existential at each step. A node is queued once because it is listed in one place; the bounds
  of the search are met only by spaces that `WithinBounds` excludes, and the count of scanned
  nodes, which is the size of the set's lists, proves it. `TablesSuitRoles`: every match is
  free, or dominated by one that was assigned before it (`Dominated`), because assignments go
  down the scores. A table found by its fields is no other role's; of those found by their
  names nothing is said. `BestFound` puts the three together.
* **`ListTheorems`**: `Among` returns a list of the members in their order (`AmongIs`), and
  `Total` adds; both by well-founded induction on where a fold has come to (`Keeps`), stated
  of sets of numbers. The models filter with `Among` because the library's `SelectSeq` has a
  recursion in a LET that the prover does not open.

Every invariant and every action property of a passing run is stated by one of these theorems.
What stays with TLC is liveness: fairness and ENABLED are beyond the prover.

## 6. Findings

Each refuted run is one of the four findings of `PROJECT.json`, with the line it contradicts.

* A foreground call may be answered ok with no result (`tool_jobs_torn`).
* A drain can drop a message (`im_bridge_lost`).
* A memory that `memory_write` has answered with may never be stored
  (`memory_store_persists`): an insert or commit failed before, its transaction stayed open,
  and the retry found the row in it and was answered without a commit.
* `serve`'s bridge dies at its first event, because `default_project_id` is bound by an
  unreachable line only; with the cron job the repository ships, `serve` does not come that
  far, and `run` does not start either (`im_bridge_serve`). `HiveDispatch` lets the bridge
  dispatch all the same, as it is written to.

Other behaviour that the models have and that nothing in the repository promises otherwise,
so that there is no run for it:

* Tool runtime: a cancel between the two reads of `cancel_requested` (`jobs.py:100`,
  `runtime.py:208`) announces a job as cancelled whose record says failed, which is why
  `EventsAgree` asks only for a requested cancellation.
* Daemon: `run_until_idle` leaves `_stop` set, so that a second one only times out
  (`daemon.py:76`); a stop before `run_forever` has started is undone by it (`daemon.py:54`);
  the sources' stop flags are never cleared (`schedule.py:51`); one malformed line ends stdin
  (`stdin.py:32`).
* IM: constructing a `FeishuProvider` switches the websocket on for the whole process
  (`feishu.py:112`); a load that fails halfway cannot be repeated (`feishu.py:142`); the list
  of events has no bound (`feishu.py:65`).
* Agents: a run that is blocked or out of steps is a success (`llm_agent.py:81`); a model that
  fails in a later iteration takes the intents collected before with it (`llm_agent.py:40`);
  summaries are pinned, so that a context can stay above its budget (`manager.py:73`); a
  summary is cut without notice (`manager.py:79`), which loses the text of whole items, so that
  `ForgetsOnlyTheOld` says which these can be; the prompt shows the first 12000 characters of
  the context (`llm_agent.py:277`), in which the newest items, being last, may be missing.
* Memory: concurrent updates of a weight overwrite each other (`store.py:610`); an eviction
  deletes by the ids it read (`store.py:697`); a finished session can be set to running
  (`store.py:779`); an INSERT of a chunk that fails leaves the half of its document in the open
  transaction, and the next commit stores it (`store.py:1297`), which is what `torn` excepts; a
  search takes a locked file for no match (`retrieval.py:73`).
* Feishu: without a uuid a repeated call is a second message (`feishu_im_group.py:119`); two
  tools announce a refused message as sent (`feishu_message_tools.py:192`); the verification
  of a new field is reported, not judged (`tool_agent.py:153`); a list of more than twenty
  pages is cut off (`tool_agent.py:375`), and so is one with `has_more` and no `page_token`
  (`feishu_contact.py:893`, `tool_agent.py:383`), which the models take Feishu not to answer;
  managers are deleted with a GET (`feishu_im_group.py:1014`), which the model takes for the
  write it is meant to be; two roles may get one table by their names
  (`tool_agent.py:580`), which is why `TablesNotShared` is about tables found by their fields.

## 7. Not modelled

* Contents: prompts, payloads, texts, the wire formats of the Feishu API, JSON schemas, how
  names are compared and fields scored, ranking and filters of queries. The vector backend:
  the program passes the Null one.
* What the inspection finds in the records it has read (`tool_agent.py:612-891`): a pure
  function of texts and dates, which unit tests reach.
* The process: `to_thread` calls that outlive the event loop and delay the exit.
* Configuration, tool registry and tool loading: read once at start. `tool_integration`'s
  executor: see the plan.
* `notready` and `front`: not part of the program. `quality`, `orchestration`, the in-process
  `EventBus`, the tool middleware, the context helpers besides the manager: not used by the
  runtime.

## 8. Plan

Done: `ToolJobs` with its contract, `EventDaemon` with the delivery it implements,
`HiveDispatch`, `AgentLoop`, `ImBridge`, `MemoryStore` on `SqliteFile`, `FeishuApi`,
`FeishuTools`, `FeishuCalls`, `ContactSearch`, `Inspection`; proofs about all of them.

Models left: `HiveService`, that is `EventDelivery` composed with `HiveDispatch`, whose
dispatches serve the events it takes; `ToolSession`, the executor of `tool_integration`;
`EventDaemon` with a restart during a stop.
