----------------------------- MODULE MemoryStore -----------------------------
(***************************************************************************)
(* agent_hive.memory: the MemoryStore that every agent-hive process opens  *)
(* on the same file runtime/memory.db, called through the MemoryToolset.   *)
(*                                                                         *)
(* An operation is the sequence of its SQL statements.  A process carries  *)
(* them out without a break, but those of another process come between.    *)
(* A statement that fails ends the operation; the toolset turns the        *)
(* exception into an answer and the connection is used again.              *)
(*                                                                         *)
(* Left out: the vector backend (MemoryManager passes the Null one), what  *)
(* a text says and how matches are ranked, access counts, timestamps and   *)
(* weights, and the filters of the queries.                                *)
(***************************************************************************)
EXTENDS Naturals, Sequences, FiniteSets, SqliteFile

CONSTANTS
    Digests,    \* the hashes of (content, agent, project, run, type)
    Runs,       \* run ids
    Projects,   \* project ids
    Columns,    \* the columns _migrate_schema adds
    Chunks,     \* the number of chunks of a document
    Workloads,  \* the sets of tools that the processes use
    Suspended,  \* whether a process may be held up between two statements
    Nothing,    \* the argument of a statement that has none
    MaxCalls,   \* bound: the calls of each process
    MaxStops    \* bound: how often a process ends

\* The tools of the toolset that touch the store.
Tools ==
    {"memory_write", "memory_reflect", "memory_weight_update", "memory_get", "memory_search",
     "memory_evict", "profile_write", "session_start", "session_finish", "session_get",
     "record_agent_run", "process_log", "sync_project_context", "project_context_upsert",
     "project_context_get", "doc_ingest", "doc_search"}

ASSUME StoreAssumption ==
    /\ IsFiniteSet(Columns)
    /\ Workloads \subseteq SUBSET Tools
    /\ Suspended \in BOOLEAN
    /\ Chunks \in Nat \ {0}
    /\ MaxCalls \in [Stores -> Nat] /\ MaxStops \in Nat

VARIABLES
    todo,      \* the statements each process has before it, in order
    found,     \* what its last query found
    calls,     \* how many calls it made
    opened,    \* the processes that have a MemoryStore
    profiles,  \* the projects that have a PROJECT.md
    used,      \* the tools the processes use
    stops,     \* how often a process has ended
    failed,    \* those with a failed call since they opened the store
    torn,      \* the documents with a chunk whose INSERT failed
    told,      \* the memories that write_memory has answered with
    evicted    \* the memories that evict_memories has chosen

history == <<failed, torn, told, evicted>>
vars == <<sqlVars, todo, found, calls, opened, profiles, used, stops, history>>

-----------------------------------------------------------------------------
(* Statements.  A query that does not find what it looks for, or does,     *)
(* skips the statements that depend on it, or raises.                      *)

Ask(sql, key, when, skip) ==
    [is |-> "query", sql |-> sql, key |-> key, when |-> when, skip |-> skip]
Statement(is, sql, key) ==
    [is |-> is, sql |-> sql, key |-> key, when |-> "never", skip |-> 0]

Do(sql, key)   == Statement("change", sql, key)
Commit         == Statement("commit", "commit", Nothing)
Read           == Statement("query", "rows", Nothing)
Answer(what)   == Statement("answer", what, Nothing)
WriteFile(p)   == Statement("file", "profile", p)

\* What expires_at says: nothing, a time that has passed, one that has not.
Expiries == {"never", "past", "later"}

Event(what, key) == [what |-> what, key |-> key]
RecordEvent(what, key) == <<Do("insert_event", Event(what, key)), Commit>>

-----------------------------------------------------------------------------
(* The operations.                                                         *)

\* MUTANT: nothing is committed.
WriteUncommitted(digest, expires) ==
    <<Ask("digest", digest, "found", 1),
      Do("insert_memory", [digest |-> digest, expires |-> expires]), Answer("memory")>>

WriteMemory(digest, expires) ==
    <<Ask("digest", digest, "found", 2),
      Do("insert_memory", [digest |-> digest, expires |-> expires]), Commit, Answer("memory")>>

Touch == <<Do("touch", Nothing), Commit>>

GetMemory(id) == <<Ask("id", id, "none", 3)>> \o Touch \o <<Read>>

\* The rows that match are read again one by one; without any match the most
\* recent ones are the answer.
SearchMemories ==
    <<Ask("match", Nothing, "never", 0), Ask("again", Nothing, "none", 2)>> \o Touch

ListMemories == <<Read>>

UpdateMemoryWeight(id, expires) ==
    <<Ask("id", id, "none", 3),
      Do("update_memory", [id |-> id, expires |-> expires]), Commit, Read>>

EvictMemories ==
    <<Ask("expired", Nothing, "none", 2), Do("delete_memories", Nothing), Commit>>

\* Its own synthesis is written, whatever the search found.
Reflect(digest) == SearchMemories \o WriteMemory(digest, "never")

StartSession(run) ==
    <<Ask("session", run, "found", 5), Do("insert_session", run), Commit, Read>>
        \o RecordEvent("started", run)

\* MUTANT: the arguments are swapped.
FinishSessionSwapped(run, status) ==
    <<Do("update_session", [run |-> run, status |-> run]), Commit>>

FinishSession(run, status) ==
    <<Ask("session", run, "none_raises", 0),
      Do("update_session", [run |-> run, status |-> status]), Commit, Read>>
        \o RecordEvent("finished", run)

RecordAgentRun(run, status, digest) ==
    StartSession(run) \o FinishSession(run, status) \o WriteMemory(digest, "never")

GetSession(run) == <<Ask("session", run, "never", 0)>>

Upsert(p, item) == <<Do("upsert", <<p, item>>), Commit, Read>>
UpsertProjectMember(p)   == Upsert(p, "member")
UpsertProjectArtifact(p) == Upsert(p, "artifact")

\* AGENT.md and PROJECT.md are written the same way.
WritePointMemory(p) == <<WriteFile(p)>>

\* A profile that exists is left as it is.
EnsureProjectProfile(p) == <<Ask("profile", p, "found", 1), WriteFile(p)>>

\* MUTANT: the event is recorded before the artifacts are.
SyncEventFirst(p) ==
    EnsureProjectProfile(p) \o UpsertProjectMember(p) \o RecordEvent("synced", p)
        \o UpsertProjectArtifact(p)

\* Every upsert is committed by itself.
SyncProjectContext(p) ==
    EnsureProjectProfile(p) \o UpsertProjectMember(p) \o UpsertProjectArtifact(p)
        \o RecordEvent("synced", p)

ProjectContextUpsert(p) ==
    <<WriteFile(p)>> \o UpsertProjectMember(p) \o UpsertProjectArtifact(p)

GetProjectContext(p) == <<Ask("profile", p, "never", 0), Read, Read, Read>>

\* MUTANT: the document is committed before its chunks.
IngestInParts ==
    <<Do("insert_document", Nothing), Commit>>
        \o [i \in 1..Chunks |-> Do("insert_chunk", i)] \o <<Commit, Read>>

\* The document and its chunks are one transaction.
IngestDocument ==
    <<Do("insert_document", Nothing)>>
        \o [i \in 1..Chunks |-> Do("insert_chunk", i)] \o <<Commit, Read>>

SearchDocuments == <<Read, Read>>

\* MUTANT: a file with one of the columns counts as migrated.
MigrateIfOld(columns) ==
    <<Ask("columns", Nothing, "found", Len(columns))>>
        \o [i \in DOMAIN columns |-> Statement("define", "add_column", columns[i])]
        \o <<Commit, Answer("store")>>

\* The columns that are missing are read once, then added one by one.
MigrateSchema(columns) ==
    <<Ask("columns", Nothing, "never", 0)>>
        \o [i \in DOMAIN columns |-> Statement("define", "add_column", columns[i])]
        \o <<Commit, Answer("store")>>

-----------------------------------------------------------------------------
(* What the statements do to the tables.                                   *)

\* The row that a call adds; none that is there has its id (see Clashes).
NewId(s) == [by |-> s, n |-> calls[s]]

Selected(s, a, db) ==
    CASE a.sql = "digest"  -> {m \in db.memories : m.digest = a.key}
      [] a.sql = "id"      -> {m \in db.memories : m.id = a.key}
      [] a.sql = "expired" -> {m \in db.memories : m.expires = "past"}
      [] a.sql = "again"   -> IF found[s] = {} THEN db.memories ELSE found[s] \cap db.memories
      [] a.sql = "session" -> {r \in {a.key} : db.sessions[r] # "none"}
      [] a.sql = "columns" -> db.columns
      [] a.sql = "profile" -> {p \in {a.key} : p \in profiles}
      [] OTHER             -> found[s]

\* A search finds any of the memories.
Matches(s, a) ==
    IF a.sql = "match" THEN SUBSET View(s).memories ELSE {Selected(s, a, View(s))}

\* MUTANT: INSERT OR REPLACE.
AllowedAlways(db, a) == a.sql = "add_column" => a.key \notin db.columns

\* UNIQUE, and PRIMARY KEY where the key is given.
Allowed(db, a) ==
    CASE a.sql = "insert_memory"  -> \A m \in db.memories : m.digest # a.key.digest
      [] a.sql = "insert_session" -> db.sessions[a.key] = "none"
      [] a.sql = "add_column"     -> a.key \notin db.columns
      [] OTHER                    -> TRUE

\* PRIMARY KEY where new_id makes the key, of 32 random bits: any row that is
\* there may have it already.
Clashes(db, a) ==
    CASE a.sql = "insert_memory"   -> db.memories # {}
      [] a.sql = "insert_event"    -> db.events # <<>>
      [] a.sql = "upsert"          -> \E c \in db.context : c[2] = a.key[2]
      [] a.sql = "insert_document" -> db.documents # {}
      [] a.sql = "insert_chunk"    -> db.chunks # {}
      [] OTHER                     -> FALSE

\* expires_at stays what the query before read; a row that is gone stays gone.
Weighted(s, m, a) ==
    IF m.id # a.key.id THEN m
    ELSE [m EXCEPT !.expires = IF a.key.expires # "never" THEN a.key.expires
                               ELSE (CHOOSE r \in found[s] : TRUE).expires]

Changed(s, db, a) ==
    CASE a.sql = "insert_memory" ->
            [db EXCEPT !.memories = @ \cup {[id |-> NewId(s), digest |-> a.key.digest,
                                             expires |-> a.key.expires]}]
      [] a.sql = "update_memory" ->
            [db EXCEPT !.memories = {Weighted(s, m, a) : m \in @}]
      [] a.sql = "delete_memories" ->
            [db EXCEPT !.memories = {m \in @ : \A r \in found[s] : r.id # m.id}]
      [] a.sql = "insert_session"  -> [db EXCEPT !.sessions[a.key] = "running"]
      [] a.sql = "update_session"  -> [db EXCEPT !.sessions[a.key.run] = a.key.status]
      [] a.sql = "insert_event"    -> [db EXCEPT !.events = Append(@, a.key)]
      [] a.sql = "upsert"          -> [db EXCEPT !.context = @ \cup {a.key}]
      [] a.sql = "insert_document" -> [db EXCEPT !.documents = @ \cup {NewId(s)}]
      [] a.sql = "insert_chunk"    -> [db EXCEPT !.chunks = @ \cup {<<NewId(s), a.key>>}]
      [] a.sql = "add_column"      -> [db EXCEPT !.columns = @ \cup {a.key}]
      [] OTHER                     -> db

-----------------------------------------------------------------------------
Empty(columns) ==
    [memories |-> {}, sessions |-> [r \in Runs |-> "none"], events |-> <<>>,
     context |-> {}, documents |-> {}, chunks |-> {}, columns |-> columns]

\* The file is new, or left by an older version.
Init ==
    /\ file \in {Empty({}), Empty(Columns)}
    /\ tx = [s \in Stores |-> NoTx]
    /\ todo = [s \in Stores |-> <<>>]
    /\ found = [s \in Stores |-> {}]
    /\ calls = [s \in Stores |-> 0]
    /\ opened = {}
    /\ profiles = {}
    /\ used \in Workloads
    /\ stops = 0
    /\ failed = {}
    /\ torn = {}
    /\ told = {}
    /\ evicted = {}

Orders == {o \in [1..Cardinality(Columns) -> Columns] :
              \A i, j \in DOMAIN o : i # j => o[i] # o[j]}

\* A process opens the store.
Open(s) ==
    /\ s \notin opened
    /\ todo[s] = <<>>
    /\ todo' = [todo EXCEPT ![s] = MigrateSchema(CHOOSE o \in Orders : TRUE)]
    /\ failed' = failed \ {s}
    /\ UNCHANGED <<sqlVars, found, calls, opened, profiles, used, stops, torn, told, evicted>>

\* What MemoryToolset.dispatch calls, for each of the tools.
Operations(tool) ==
    CASE tool = "memory_write"  -> {WriteMemory(d, e) : d \in Digests, e \in {"never", "past"}}
      [] tool = "memory_reflect" -> {Reflect(d) : d \in Digests}
      [] tool = "memory_weight_update" ->
            {UpdateMemoryWeight(m.id, e) : m \in file.memories, e \in {"never", "later"}}
      [] tool = "memory_get"    -> {GetMemory(m.id) : m \in file.memories}
      [] tool = "memory_search" -> {SearchMemories, ListMemories}
      [] tool = "memory_evict"  -> {EvictMemories}
      [] tool = "profile_write" -> {WritePointMemory(p) : p \in Projects}
      [] tool = "session_start" -> {StartSession(r) : r \in Runs}
      [] tool = "session_finish" ->
             {FinishSession(r, st) : r \in Runs, st \in {"completed", "running"}}
      [] tool = "session_get"   -> {GetSession(r) : r \in Runs}
      [] tool = "record_agent_run" -> {RecordAgentRun(r, "failed", d) : r \in Runs, d \in Digests}
      [] tool = "process_log"   -> {RecordEvent("logged", r) : r \in Runs}
      [] tool = "sync_project_context"   -> {SyncProjectContext(p) : p \in Projects}
      [] tool = "project_context_upsert" -> {ProjectContextUpsert(p) : p \in Projects}
      [] tool = "project_context_get"    -> {GetProjectContext(p) : p \in Projects}
      [] tool = "doc_ingest"    -> {IngestDocument}
      [] tool = "doc_search"    -> {SearchDocuments}

Dispatch(s) ==
    /\ s \in opened
    /\ todo[s] = <<>>
    /\ calls[s] < MaxCalls[s]
    /\ \E tool \in used : \E program \in Operations(tool) :
          todo' = [todo EXCEPT ![s] = program]
    /\ calls' = [calls EXCEPT ![s] = @ + 1]
    /\ found' = [found EXCEPT ![s] = {}]
    /\ UNCHANGED <<sqlVars, opened, profiles, used, stops, history>>

-----------------------------------------------------------------------------
(* The statements are carried out.                                         *)

Ready(s, is) == todo[s] # <<>> /\ Head(todo[s]).is = is
Now(s) == Head(todo[s])

Continue(s, skip) ==
    /\ todo' = [todo EXCEPT ![s] = SubSeq(@, 2 + skip, Len(@))]
    /\ UNCHANGED <<failed, torn>>

\* An exception ends the operation, or leaves the process without a store.
Raise(s) ==
    /\ todo' = [todo EXCEPT ![s] = <<>>]
    /\ failed' = failed \cup {s}
    /\ torn' = IF Now(s).sql = "insert_chunk" THEN torn \cup {NewId(s)} ELSE torn

Finds(s, rows) ==
    LET missing == rows = {} IN
    /\ found' = [found EXCEPT ![s] = rows]
    /\ evicted' = IF Now(s).sql # "expired" THEN evicted ELSE evicted \cup {r.id : r \in rows}
    /\ IF missing /\ Now(s).when = "none_raises" THEN Raise(s)
       ELSE Continue(s, IF Now(s).when = (IF missing THEN "none" ELSE "found")
                        THEN Now(s).skip ELSE 0)

Query(s) ==
    /\ Ready(s, "query")
    /\ CanRead(s)
    /\ Reads(s)
    /\ \E rows \in Matches(s, Now(s)) : Finds(s, rows)
    /\ UNCHANGED <<calls, opened, profiles, used, stops, told>>

Change(s) ==
    /\ Ready(s, "change")
    /\ CanChange(s)
    /\ \/ /\ Allowed(View(s), Now(s))
          /\ Changes(s, Changed(s, View(s), Now(s))) /\ Continue(s, 0)
       \/ /\ ~Allowed(View(s), Now(s)) \/ Clashes(View(s), Now(s))
          /\ Changes(s, View(s)) /\ Raise(s)
    /\ UNCHANGED <<found, calls, opened, profiles, used, stops, told, evicted>>

CommitWork(s) ==
    /\ Ready(s, "commit")
    /\ CanCommit(s)
    /\ Commits(s)
    /\ Continue(s, 0)
    /\ UNCHANGED <<found, calls, opened, profiles, used, stops, told, evicted>>

\* A column that was there when the columns were read is not added; one that
\* another process has added since is a duplicate.
AddColumn(s) ==
    /\ Ready(s, "define")
    /\ IF Now(s).key \in found[s] THEN Continue(s, 0) /\ UNCHANGED sqlVars
       ELSE /\ CanDefine(s)
            /\ Defines(s, Changed(s, file, Now(s)))
            /\ IF Allowed(file, Now(s)) THEN Continue(s, 0) ELSE Raise(s)
    /\ UNCHANGED <<found, calls, opened, profiles, used, stops, told, evicted>>

WriteProfile(s) ==
    /\ Ready(s, "file")
    /\ profiles' = profiles \cup {Now(s).key}
    /\ Continue(s, 0)
    /\ UNCHANGED <<sqlVars, found, calls, opened, used, stops, told, evicted>>

\* The caller gets a MemoryStore, or the record that is, or was, stored.
Return(s) ==
    /\ Ready(s, "answer")
    /\ Continue(s, 0)
    /\ IF Now(s).sql = "store" THEN opened' = opened \cup {s} /\ UNCHANGED told
       ELSE /\ told' = told \cup {[store |-> s, sound |-> s \notin failed, id |-> i] :
                        i \in IF found[s] = {} THEN {NewId(s)} ELSE {r.id : r \in found[s]}}
            /\ UNCHANGED opened
    /\ UNCHANGED <<sqlVars, found, calls, profiles, used, stops, evicted>>

\* Whether the next statement gets the lock it needs.
Free(s) ==
    CASE Now(s).is = "query"  -> CanRead(s)
      [] Now(s).is = "change" -> CanChange(s)
      [] Now(s).is = "commit" -> CanCommit(s)
      [] Now(s).is = "define" -> Now(s).key \in found[s] \/ CanDefine(s)
      [] OTHER                -> TRUE

Waits(s) == todo[s] # <<>> /\ ~Free(s)

\* MUTANT: a connection without a timeout.
TimesOutNever(s) == FALSE /\ UNCHANGED vars

\* sqlite3 waits five seconds for a lock, longer than a process takes between
\* two statements unless it is suspended; then the statement fails.  A search
\* takes that for no match.
TimesOut(s) ==
    /\ Waits(s)
    /\ Suspended \/ \A o \in Stores \ {s} : tx[o].lock = "none" \/ todo[o] = <<>> \/ Waits(o)
    /\ CASE Now(s).is = "change" -> ChangeTimesOut(s)
         [] Now(s).is = "commit" -> CommitTimesOut(s)
         [] OTHER                -> UNCHANGED sqlVars
    /\ IF Now(s).sql = "match" THEN Continue(s, 0) ELSE Raise(s)
    /\ UNCHANGED <<found, calls, opened, profiles, used, stops, told, evicted>>

\* The process ends, or is killed between two statements.
Stop(s) ==
    /\ stops < MaxStops
    /\ s \in opened \/ todo[s] # <<>>
    /\ stops' = stops + 1
    /\ opened' = opened \ {s}
    /\ todo' = [todo EXCEPT ![s] = <<>>]
    /\ found' = [found EXCEPT ![s] = {}]
    /\ Closes(s)
    /\ UNCHANGED <<calls, profiles, used, history>>

Step(s) ==
    \/ Query(s) \/ Change(s) \/ CommitWork(s) \/ AddColumn(s)
    \/ WriteProfile(s) \/ Return(s) \/ TimesOut(s)

Next == \E s \in Stores : Open(s) \/ Dispatch(s) \/ Step(s) \/ Stop(s)

\* A process that has statements left goes on with them.
Fairness == \A s \in Stores : WF_vars(Step(s))

Spec     == Init /\ [][Next]_vars
FairSpec == Spec /\ Fairness

-----------------------------------------------------------------------------
Ids      == UNION {[by : {s}, n : 1..MaxCalls[s]] : s \in Stores}
Memories == [id : Ids, digest : Digests, expires : Expiries]
States   == {"running", "completed", "failed"}
Items    == {"member", "artifact"}
Happenings == {"started", "finished", "logged", "synced"}

\* What the tables can hold.
Tables ==
    [memories : SUBSET Memories, sessions : [Runs -> {"none"} \cup States],
     events : Seq([what : Happenings, key : Runs \cup Projects]),
     context : SUBSET (Projects \X Items), documents : SUBSET Ids,
     chunks : SUBSET (Ids \X (1..Chunks)), columns : SUBSET Columns]

ASSUME NoCopyAssumption == NoCopy \notin Tables

TypeOK ==
    /\ file \in Tables
    /\ \A s \in Stores : tx[s].copy \in Tables \cup {NoCopy}
    /\ \A s \in Stores : /\ tx[s].lock \in Locks
                         /\ tx[s].lock # "none" => tx[s].open
                         /\ (tx[s].copy = NoCopy) <=> ~Writer(s)
    /\ \A s \in Stores : calls[s] \in 0..MaxCalls[s]
    /\ opened \subseteq Stores /\ failed \subseteq Stores
    /\ profiles \subseteq Projects
    /\ stops \in 0..MaxStops
    /\ evicted \subseteq Ids /\ torn \subseteq Ids

\* Whatever stops in between, no chunk is stored without its document, and a
\* document without one of its chunks only when an INSERT of its chunks has
\* failed: the half that is there is stored by the next commit then.
WholeDocuments ==
    /\ file.chunks \subseteq file.documents \X (1..Chunks)
    /\ (file.documents \ torn) \X (1..Chunks) \subseteq file.chunks

Kept(id) == id \in evicted \/ \E m \in file.memories : m.id = id

\* A memory that write_memory has answered with is stored for good, and only an
\* eviction takes it away, as long as no call of that process has failed before.
AnsweredIsKept == \A t \in told : t.sound => Kept(t.id)

\* "Persist an observation, decision, or learned fact to long-term memory."
\* (the schema of memory_write): so every memory it has answered with, or it is
\* at least still on its way to the file.
AlwaysPersists == \A t \in told :
    Kept(t.id) \/ \E s \in Stores : Writer(s) /\ \E m \in View(s).memories : m.id = t.id

EventsOf(what, key) == {i \in DOMAIN file.events : file.events[i] = Event(what, key)}

\* The log of events is true, however many processes start the same run or sync
\* the same project, and wherever they stop: a run was started once, its session
\* is stored, and so is the whole context of a project that was synced.
EventsTellTheTruth ==
    /\ \A r \in Runs : Cardinality(EventsOf("started", r)) <= 1
    /\ \A r \in Runs :
          EventsOf("started", r) \cup EventsOf("finished", r) # {} => file.sessions[r] # "none"
    /\ \A p \in Projects : EventsOf("synced", p) # {} =>
          /\ {p} \X {"member", "artifact"} \subseteq file.context
          /\ p \in profiles

\* A process that has its store finds all columns in it, though another one may
\* have been killed while it was adding them.
OpenedIsMigrated == opened # {} => file.columns = Columns

\* Every call comes to an end, though two connections may wait for each other.
EveryCallReturns == \A s \in Stores : todo[s] # <<>> ~> todo[s] = <<>>

=============================================================================
