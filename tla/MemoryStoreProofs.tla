------------------------- MODULE MemoryStoreProofs -------------------------
(***************************************************************************)
(* Proofs about MemoryStore, for any processes that share the file, any    *)
(* tools that they use, any number of chunks, columns, calls and stops,    *)
(* held up between statements or not.                                      *)
(***************************************************************************)
EXTENDS MemoryStore, FiniteSetTheorems, SequenceTheorems, TLAPS

-----------------------------------------------------------------------------
(* Statements and programs.                                                *)

Ev(what, key)   == Do("insert_event", Event(what, key))
Chunk(n)        == Do("insert_chunk", n)
Column(c)       == Statement("define", "add_column", c)
AskSession(r)   == Ask("session", r, "found", 5)
AskToFinish(r)  == Ask("session", r, "none_raises", 0)
AskProfile(p)   == Ask("profile", p, "found", 1)
AskColumns      == Ask("columns", Nothing, "never", 0)
NewRow(d, e)    == Do("insert_memory", [digest |-> d, expires |-> e])
Weight(id, e)   == Do("update_memory", [id |-> id, expires |-> e])
Mark(r, st)     == Do("update_session", [run |-> r, status |-> st])
Put(p, item)    == Do("upsert", <<p, item>>)
NewDocument     == Do("insert_document", Nothing)
Tells(x, what)  == x.sql = "insert_event" /\ x.key.what = what

Queries ==
    {Ask("digest", d, "found", 2) : d \in Digests}
    \cup {Ask("id", id, "none", 3) : id \in Ids}
    \cup {AskSession(r) : r \in Runs}
    \cup {AskToFinish(r) : r \in Runs}
    \cup {Ask("session", r, "never", 0) : r \in Runs}
    \cup {AskProfile(p) : p \in Projects}
    \cup {Ask("profile", p, "never", 0) : p \in Projects}
    \cup {Ask("match", Nothing, "never", 0), Ask("again", Nothing, "none", 2), Read,
          Ask("expired", Nothing, "none", 2), AskColumns}

Changers ==
    {NewRow(d, e) : d \in Digests, e \in Expiries}
    \cup {Weight(id, e) : id \in Ids, e \in Expiries}
    \cup {Do("touch", Nothing), Do("delete_memories", Nothing), NewDocument}
    \cup {Do("insert_session", r) : r \in Runs}
    \cup {Mark(r, st) : r \in Runs, st \in States}
    \cup {Ev(what, r) : what \in {"started", "finished", "logged"}, r \in Runs}
    \cup {Ev("synced", p) : p \in Projects}
    \cup {Put(p, item) : p \in Projects, item \in Items}
    \cup {Chunk(n) : n \in 1..Chunks}

Statements ==
    Queries \cup Changers \cup {Commit, Answer("memory"), Answer("store")}
    \cup {WriteFile(p) : p \in Projects} \cup {Column(c) : c \in Columns}

\* How many statements before it, and after it, a statement depends on.
Reach(x) ==
    CASE Tells(x, "started") \/ Tells(x, "finished") -> 4
      [] Tells(x, "synced")    -> 8
      [] x = Answer("memory")  -> 3
      [] x.sql \in {"insert_memory", "update_memory", "delete_memories", "insert_chunk"} -> 1
      [] OTHER -> 0
Span(x) == IF x.is = "change" THEN 1 ELSE x.skip

\* y comes n statements before x.
Before(x, n, y) ==
    /\ Tells(x, "started") =>
          /\ n = 1 => y = Read
          /\ n = 2 => y = Commit
          /\ n = 3 => y = Do("insert_session", x.key.key)
          /\ n = 4 => y = AskSession(x.key.key)
    /\ Tells(x, "finished") =>
          /\ n = 1 => y = Read
          /\ n = 2 => y = Commit
          /\ n = 3 => y.sql = "update_session"
          /\ n = 4 => y = AskToFinish(x.key.key)
    /\ Tells(x, "synced") =>
          /\ n \in {1, 4} => y = Read
          /\ n \in {2, 5} => y = Commit
          /\ n = 3 => y = Put(x.key.key, "artifact")
          /\ n = 6 => y = Put(x.key.key, "member")
          /\ n = 7 => y = WriteFile(x.key.key)
          /\ n = 8 => y = AskProfile(x.key.key)
    /\ x = Answer("memory") =>
          /\ n = 1 => y = Commit
          /\ n = 2 => y.sql = "insert_memory"
          /\ n = 3 => y.sql = "digest"
    /\ n = 1 => /\ x.sql = "insert_memory"   => y.sql = "digest"
                /\ x.sql = "update_memory"   => y.sql = "id"
                /\ x.sql = "delete_memories" => y.sql = "expired"
                /\ x.sql = "insert_chunk" =>
                      y = IF x.key = 1 THEN NewDocument ELSE Chunk(x.key - 1)

\* y comes n statements after x.  What is reached by a skip depends on nothing
\* before it, but for the answer about a memory and what is done for a project.
After(x, n, y) ==
    /\ x.sql = "session" /\ x.skip > 0 =>
          /\ n = 1 => y = Do("insert_session", x.key)
          /\ n \in {2, 5} => y = Commit
          /\ n = 3 => y = Read
          /\ n = 4 => y = Ev("started", x.key)
    /\ x.is = "query" /\ x.skip = n =>
          y = CASE x.sql = "id" -> Read
                [] x.sql = "profile" -> WriteFile(x.key)
                [] OTHER -> Commit
    /\ x.is = "change" /\ n = 1 =>
          y = CASE x.sql = "insert_document" -> Chunk(1)
                [] x.sql = "insert_chunk" /\ x.key < Chunks -> Chunk(x.key + 1)
                [] OTHER -> Commit

Independent(x, n, y) ==
    x.skip > 0 /\ x.sql \notin {"digest", "profile"} /\ n > x.skip => n - x.skip > Reach(y)

Shaped(q) ==
    /\ q \in Seq(Statements)
    /\ \A i \in DOMAIN q : i + Span(q[i]) <= Len(q)
    /\ \A i, k \in DOMAIN q : i < k =>
          /\ Before(q[k], k - i, q[i])
          /\ After(q[i], k - i, q[k])
          /\ Independent(q[i], k - i, q[k])

\* A program, or what is left of one where it depends on nothing before.
Begins(q) == \A i \in DOMAIN q : i > Reach(q[i])

\* A program that may be a part of another one.
Part(q) == Shaped(q) /\ Begins(q)

\* What a process does that opens the store, and what one that has it does.
Opening(q) ==
    \A i \in DOMAIN q :
        \/ q[i] \in {AskColumns, Commit} \cup {Column(c) : c \in Columns}
        \/ q[i] = Answer("store") /\ i = Len(q)
Working(q) == \A i \in DOMAIN q : q[i].sql \notin {"columns", "add_column", "store"}

-----------------------------------------------------------------------------
(* Lemmas about statements.                                                *)

\* The kinds of statements, and their arguments.
LEMMA Kinds ==
    ASSUME NEW x \in Statements
    PROVE  /\ x.is \in {"query", "change", "commit", "define", "file", "answer"}
           /\ x.skip \in Nat
           /\ x.is # "query" => x.skip = 0
           /\ (x.is = "commit" \/ x.sql = "commit") <=> x = Commit
           /\ x.is = "query" <=> x \in Queries
           /\ x.is = "change" <=> x \in Changers
           /\ x.is = "define" \/ x.sql = "add_column" <=> \E c \in Columns : x = Column(c)
           /\ x.is = "file" <=> \E p \in Projects : x = WriteFile(p)
           /\ x.is = "answer" <=> x \in {Answer("memory"), Answer("store")}
           /\ x.sql = "memory" <=> x = Answer("memory")
           /\ x.sql = "store" <=> x = Answer("store")
<1>1. CASE x \in Queries
  BY <1>1 DEF Queries, Changers, Commit, Read, Answer, WriteFile, Column, Ask, Statement, Do, Ev,
              Chunk, AskSession, AskToFinish, AskProfile, AskColumns, NewRow, Weight, Mark, Put,
              NewDocument
<1>2. CASE x \in Changers
  BY <1>2 DEF Queries, Changers, Commit, Read, Answer, WriteFile, Column, Ask, Statement, Do, Ev,
              Chunk, AskSession, AskToFinish, AskProfile, AskColumns, NewRow, Weight, Mark, Put,
              NewDocument
<1>3. CASE \/ x \in {Commit, Answer("memory"), Answer("store")}
           \/ x \in {WriteFile(p) : p \in Projects} \/ x \in {Column(c) : c \in Columns}
  BY <1>3 DEF Queries, Changers, Commit, Read, Answer, WriteFile, Column, Ask, Statement, Do, Ev,
              Chunk, AskSession, AskToFinish, AskProfile, AskColumns, NewRow, Weight, Mark, Put,
              NewDocument
<1> QED BY <1>1, <1>2, <1>3 DEF Statements

\* Queries by what they ask.
LEMMA QueryKinds ==
    ASSUME NEW x \in Queries
    PROVE  /\ x.skip \in Nat /\ x.is = "query"
           /\ x.sql \in {"digest", "id", "session", "profile", "match", "again", "rows", "expired",
                         "columns"}
           /\ x.sql = "digest" => x.key \in Digests /\ x.when = "found" /\ x.skip = 2
           /\ x.sql = "id" => x.key \in Ids /\ x.when = "none" /\ x.skip = 3
           /\ x.sql \in {"again", "expired"} => x.when = "none" /\ x.skip = 2
           /\ x.sql = "session" =>
                 /\ x.key \in Runs
                 /\ x \in {AskSession(x.key), AskToFinish(x.key), Ask("session", x.key, "never", 0)}
           /\ x.sql = "profile" =>
                 x.key \in Projects /\ x \in {AskProfile(x.key), Ask("profile", x.key, "never", 0)}
           /\ x.sql \in {"match", "rows", "columns"} => x.when = "never" /\ x.skip = 0
           /\ x.sql = "rows" <=> x = Read
           /\ x.sql = "columns" <=> x = AskColumns
BY DEF Queries, Read, Ask, Statement, AskSession, AskToFinish, AskProfile, AskColumns

\* Changes by what they change.
LEMMA ChangeKinds ==
    ASSUME NEW x \in Changers
    PROVE  /\ x.skip = 0 /\ x.is = "change" /\ x.when = "never"
           /\ x.sql \in {"insert_memory", "update_memory", "delete_memories", "touch",
                         "insert_document", "insert_session", "update_session", "insert_event",
                         "upsert", "insert_chunk"}
           /\ x.sql = "insert_memory" => x.key.digest \in Digests /\ x.key.expires \in Expiries
           /\ x.sql = "update_memory" => x.key.id \in Ids /\ x.key.expires \in Expiries
           /\ x.sql = "insert_session" => x.key \in Runs /\ x = Do("insert_session", x.key)
           /\ x.sql = "update_session" => x.key.run \in Runs /\ x.key.status \in States
           /\ x.sql = "insert_event" =>
                 /\ x.key \in [what : Happenings, key : Runs \cup Projects]
                 /\ x = Ev(x.key.what, x.key.key)
                 /\ x.key.what \in {"started", "finished"} => x.key.key \in Runs
                 /\ x.key.what = "synced" => x.key.key \in Projects
           /\ x.sql = "upsert" => x.key \in Projects \X Items /\ x = Do("upsert", x.key)
           /\ x.sql = "insert_document" => x = NewDocument
           /\ x.sql = "insert_chunk" => x.key \in 1..Chunks /\ x = Chunk(x.key)
BY DEF Changers, Do, Statement, Ev, Event, Chunk, NewRow, Weight, Mark, Put, NewDocument,
       Happenings, Items

\* How far a statement reaches.
LEMMA Distances ==
    ASSUME NEW x \in Statements
    PROVE  /\ Reach(x) \in Nat /\ Span(x) \in Nat
           /\ \A n \in Nat : \A y : n > Reach(x) => Before(x, n, y)
           /\ \A n \in Nat : \A y : n > Span(x) => After(x, n, y)
<1>1. Reach(x) \in Nat
  BY DEF Reach
<1>2. Span(x) \in Nat
  BY Kinds DEF Span
<1>3. ASSUME NEW n \in Nat, NEW y, n > Reach(x)
      PROVE  Before(x, n, y)
  BY <1>3 DEF Before, Reach, Tells, Answer, Statement
<1>4. ASSUME NEW n \in Nat, NEW y, n > Span(x)
      PROVE  After(x, n, y)
  <2>1. CASE x.is = "change"
    BY <2>1, <1>4, Kinds DEF After, Span
  <2>2. CASE x.is # "change"
    <3>1. x.sql = "session" /\ x.skip > 0 => x.skip = 5
      BY <2>2, Kinds, QueryKinds DEF Statements, WriteFile, Column, Commit, Answer, Statement,
              AskSession, AskToFinish, Ask
    <3> QED BY <2>2, <3>1, <1>4, Kinds DEF After, Span
  <2> QED BY <2>1, <2>2
<1> QED BY <1>1, <1>2, <1>3, <1>4

-----------------------------------------------------------------------------
(* Lemmas about programs.                                                  *)

\* What is left of a program is shaped as the program was.
LEMMA Rest ==
    ASSUME NEW q, Shaped(q), NEW n \in 0..Len(q)
    PROVE  /\ Shaped(SubSeq(q, n + 1, Len(q)))
           /\ Len(q) \in Nat
           /\ Len(SubSeq(q, n + 1, Len(q))) = Len(q) - n
           /\ \A i \in 1..(Len(q) - n) :
                 SubSeq(q, n + 1, Len(q))[i] = q[i + n] /\ i + n \in DOMAIN q
           /\ DOMAIN SubSeq(q, n + 1, Len(q)) = 1..(Len(q) - n)
           /\ DOMAIN q = 1..Len(q)
           /\ q \in Seq(Statements) /\ \A i \in DOMAIN q : q[i] \in Statements
<1> DEFINE N == Len(q)
           r == SubSeq(q, n + 1, N)
<1>1. /\ q \in Seq(Statements) /\ N \in Nat /\ DOMAIN q = 1..N
      /\ \A i \in DOMAIN q : q[i] \in Statements
  BY LenProperties, ElementOfSeq DEF Shaped
<1>2. r \in Seq(Statements) /\ Len(r) = N - n /\ \A i \in 1..(N - n) : r[i] = q[i + n]
  <2>1. /\ n + 1 \in Int /\ N \in Int
        /\ \A i \in (n + 1)..N : q[i] \in Statements
    BY <1>1
  <2>2. /\ r \in Seq(Statements)
        /\ Len(r) = IF n + 1 <= N THEN N - (n + 1) + 1 ELSE 0
        /\ \A i \in 1..(N - (n + 1) + 1) : r[i] = q[n + 1 + i - 1]
    <3> HIDE DEF N
    <3> QED BY <2>1, SubSeqProperties
  <2>3. /\ N - (n + 1) + 1 = N - n /\ (n + 1 > N => N - n = 0)
        /\ \A i \in 1..(N - n) : n + 1 + i - 1 = i + n
    <3>1. n \in Nat /\ n <= N /\ N \in Nat
      BY <1>1
    <3> HIDE DEF N, r
    <3> QED BY <3>1
  <2>4. n \in Nat /\ n <= N /\ N \in Nat
    BY <1>1
  <2> HIDE DEF N, r
  <2>5. N - (n + 1) + 1 = N - n
    BY <2>4
  <2>6. Len(r) = N - n
    BY <2>2, <2>4
  <2> QED BY <2>2, <2>3, <2>5, <2>6
<1>3. DOMAIN r = 1..(N - n)
  BY <1>2, LenProperties
<1>4. \A i \in 1..(N - n) : i + n \in 1..N
  BY <1>1
<1> HIDE DEF N, r
<1>5. Shaped(r)
  <2>1. \A i \in DOMAIN r : i + Span(r[i]) <= Len(r)
    <3> SUFFICES ASSUME NEW i \in DOMAIN r PROVE i + Span(r[i]) <= Len(r)
      OBVIOUS
    <3>1. (i + n) + Span(q[i + n]) <= N /\ q[i + n] \in Statements
      BY <1>1, <1>3, <1>4 DEF Shaped, N
    <3>2. Span(q[i + n]) \in Nat /\ r[i] = q[i + n]
      BY <3>1, Distances, <1>2, <1>3
    <3> QED BY <3>1, <3>2, <1>1, <1>2, <1>3
  <2>2. ASSUME NEW i \in DOMAIN r, NEW k \in DOMAIN r, i < k
        PROVE  /\ Before(r[k], k - i, r[i])
               /\ After(r[i], k - i, r[k])
               /\ Independent(r[i], k - i, r[k])
    <3>1. i + n < k + n /\ (k + n) - (i + n) = k - i
      BY <2>2, <1>1, <1>3
    <3> QED BY <3>1, <1>1, <1>2, <1>3, <1>4 DEF Shaped
  <2> QED BY <1>2, <2>1, <2>2 DEF Shaped
<1> QED BY <1>1, <1>2, <1>3, <1>4, <1>5 DEF N, r

-----------------------------------------------------------------------------
(* The inductive invariant.                                                *)

Types ==
    /\ file \in Tables
    /\ tx \in [Stores -> [open : BOOLEAN, lock : Locks, copy : Tables \cup {NoCopy}]]
    /\ todo = [s \in Stores |-> todo[s]] /\ found = [s \in Stores |-> found[s]]
    /\ calls \in [Stores -> Nat] /\ \A s \in Stores : calls[s] <= MaxCalls[s]
    /\ opened \subseteq Stores /\ failed \subseteq Stores
    /\ profiles \subseteq Projects
    /\ used \in Workloads
    /\ stops \in 0..MaxStops
    /\ evicted \subseteq Ids /\ torn \subseteq Ids

\* One connection at most has changed something, and a copy of the tables.
OneWriter ==
    /\ \A s \in Stores : /\ tx[s].lock # "none" => tx[s].open
                         /\ tx[s].copy = NoCopy <=> ~Writer(s)
    /\ \A s, o \in Stores : Writer(s) /\ Writer(o) => s = o
    /\ \A s \in Stores \ opened : tx[s] = NoTx

Program(s) ==
    /\ Shaped(todo[s])
    /\ s \notin opened => Opening(todo[s])
    /\ s \in opened => Working(todo[s]) /\ (todo[s] # <<>> => calls[s] > 0)
    /\ todo[s] # <<>> /\ Now(s).sql = "update_memory" =>
          found[s] # {} /\ found[s] \subseteq Memories

Base == Types /\ OneWriter /\ \A s \in Stores : Program(s)

At(s, sql) == todo[s] # <<>> /\ Now(s).sql = sql

\* Documents with all of their chunks, but those of gone; one of them with those up to n.
Whole(db, gone) ==
    /\ db.chunks \subseteq db.documents \X (1..Chunks)
    /\ \A d \in db.documents \ gone, m \in 1..Chunks : <<d, m>> \in db.chunks
Half(db, gone, id, n) ==
    /\ id \in db.documents
    /\ db.chunks \subseteq db.documents \X (1..Chunks)
    /\ \A d \in db.documents \ gone, m \in 1..Chunks : d # id \/ m < n => <<d, m>> \in db.chunks

DocumentOf(s) ==
    IF At(s, "insert_chunk") THEN Writer(s) /\ Half(tx[s].copy, torn, NewId(s), Now(s).key)
    ELSE Writer(s) => Whole(tx[s].copy, torn)

Documents ==
    /\ Whole(file, torn)
    /\ \A s \in Stores : DocumentOf(s)

\* Every column is in the file, or still to be added by each that opens it.
Schema ==
    /\ opened # {} => file.columns = Columns
    /\ \A s \in Stores : Writer(s) => tx[s].copy.columns = file.columns
    /\ \A s \in Stores \ opened : todo[s] # <<>> =>
          /\ Now(s) # AskColumns => found[s] \subseteq file.columns
          /\ \A c \in Columns \ file.columns : \E i \in DOMAIN todo[s] : todo[s][i] = Column(c)

\* What the log of the file, or of a copy of it, says, and what is true then.
Logged(db, what, key) == {i \in DOMAIN db.events : db.events[i] = Event(what, key)}
LogTrue(db, projects) ==
    /\ \A r \in Runs : \A i, j \in Logged(db, "started", r) : i = j
    /\ \A r \in Runs :
          Logged(db, "started", r) \cup Logged(db, "finished", r) # {} => db.sessions[r] # "none"
    /\ \A p \in Projects : Logged(db, "synced", p) # {} =>
          {p} \X Items \subseteq db.context /\ p \in projects

\* Event what of key is the n-th statement from now at the latest.
Soon(s, what, key, n) == \E i \in DOMAIN todo[s] : i <= n /\ todo[s][i] = Ev(what, key)

\* A copy has what the file has.
CopyTrue(s) ==
    Writer(s) =>
        /\ LogTrue(tx[s].copy, profiles)
        /\ \A r \in Runs : file.sessions[r] # "none" => tx[s].copy.sessions[r] # "none"
        /\ file.context \subseteq tx[s].copy.context

\* What will be told is true, and nobody else tells it.
StartTrue(s, r) ==
    Soon(s, "started", r, 3) =>
        /\ View(s).sessions[r] # "none"
        /\ Logged(file, "started", r) = {}
        /\ \A o \in Stores : /\ Writer(o) => Logged(tx[o].copy, "started", r) = {}
                             /\ Soon(o, "started", r, 3) => o = s
FinishTrue(s, r) == Soon(s, "finished", r, 4) => View(s).sessions[r] # "none"
SyncTrue(s, p) ==
    /\ Soon(s, "synced", p, 3) => <<p, "artifact">> \in View(s).context
    /\ Soon(s, "synced", p, 6) => <<p, "member">> \in View(s).context
    /\ Soon(s, "synced", p, 7) => p \in profiles

Log ==
    /\ LogTrue(file, profiles)
    /\ \A s \in Stores : CopyTrue(s)
    /\ \A s \in Stores, r \in Runs : StartTrue(s, r) /\ FinishTrue(s, r)
    /\ \A s \in Stores, p \in Projects : SyncTrue(s, p)

\* A memory is there, or was evicted.
There(db, gone, id) == id \in gone \/ \E m \in db.memories : m.id = id

\* A copy keeps the memories, and is committed as long as no call failed.
CopyKeeps(s) ==
    Writer(s) =>
        /\ \A m \in file.memories : There(tx[s].copy, evicted, m.id)
        /\ s \notin failed => todo[s] # <<>> /\ Now(s).is \in {"change", "commit"}

\* What a process evicts was chosen, and what it answers with is there.
AnswerOf(s) ==
    /\ At(s, "delete_memories") => \A m \in found[s] : m.id \in evicted
    /\ At(s, "insert_memory") => found[s] = {}
    /\ Len(todo[s]) > 1 /\ todo[s][2] = Answer("memory") =>
          found[s] = {} /\ Writer(s) /\ There(tx[s].copy, evicted, NewId(s))
    /\ At(s, "memory") /\ s \notin failed =>
          \A i \in IF found[s] = {} THEN {NewId(s)} ELSE {r.id : r \in found[s]} :
              There(file, evicted, i)

MemoriesKept ==
    /\ \A t \in told : t.sound => There(file, evicted, t.id)
    /\ \A s \in Stores : CopyKeeps(s) /\ AnswerOf(s)

-----------------------------------------------------------------------------
(* Programs.                                                               *)

\* A program of two parts.
LEMMA Join ==
    ASSUME NEW a, Shaped(a), NEW b, Part(b)
    PROVE  /\ Shaped(a \o b)
           /\ Begins(a) => Begins(a \o b)
           /\ Part(a) => Part(a \o b)
           /\ Working(a) /\ Working(b) => Working(a \o b)
<1> DEFINE A == Len(a)
           B == Len(b)
           q == a \o b
<1>1. /\ a \in Seq(Statements) /\ A \in Nat /\ DOMAIN a = 1..A
      /\ b \in Seq(Statements) /\ B \in Nat /\ DOMAIN b = 1..B
      /\ \A i \in 1..A : a[i] \in Statements
      /\ \A i \in 1..B : b[i] \in Statements
  BY LenProperties, ElementOfSeq DEF Shaped, Part
<1>2. /\ q \in Seq(Statements) /\ Len(q) = A + B
      /\ \A i \in 1..(A + B) : q[i] = IF i <= A THEN a[i] ELSE b[i - A]
  BY <1>1, ConcatProperties
<1>3. DOMAIN q = 1..(A + B)
  BY <1>2, LenProperties
<1> HIDE DEF A, B, q
<1>4. \A i \in 1..A : i \in DOMAIN q /\ q[i] = a[i]
  BY <1>1, <1>2, <1>3
<1>5. \A i \in 1..B : A + i \in DOMAIN q /\ q[A + i] = b[i]
  BY <1>1, <1>2, <1>3
<1>6. \A i \in DOMAIN q : i \in 1..A \/ \E j \in 1..B : i = A + j
  <2> SUFFICES ASSUME NEW i \in DOMAIN q, i \notin 1..A PROVE \E j \in 1..B : i = A + j
    OBVIOUS
  <2>1. i - A \in 1..B /\ i = A + (i - A)
    BY <1>1, <1>3
  <2> QED BY <2>1
<1>7. \A i \in 1..A : i + Span(a[i]) <= A /\ Span(a[i]) \in Nat
  BY <1>1, Distances DEF Shaped, A
<1>8. \A i \in 1..B : i + Span(b[i]) <= B /\ Span(b[i]) \in Nat
  BY <1>1, Distances DEF Shaped, B, Part
<1>9. \A i \in 1..B : i > Reach(b[i]) /\ Reach(b[i]) \in Nat
  BY <1>1, Distances DEF Part, Begins
<1>10. Shaped(q)
  <2>1. \A i \in DOMAIN q : i + Span(q[i]) <= Len(q)
    <3> SUFFICES ASSUME NEW i \in DOMAIN q PROVE i + Span(q[i]) <= Len(q)
      OBVIOUS
    <3>1. CASE i \in 1..A
      BY <3>1, <1>1, <1>2, <1>4, <1>7
    <3>2. CASE i \notin 1..A
      <4>1. PICK j \in 1..B : i = A + j
        BY <3>2, <1>6
      <4>2. j + Span(b[j]) <= B /\ Span(b[j]) \in Nat /\ q[i] = b[j]
        BY <4>1, <1>5, <1>8
      <4> QED BY <4>1, <4>2, <1>1, <1>2
    <3> QED BY <3>1, <3>2
  <2>2. ASSUME NEW i \in DOMAIN q, NEW k \in DOMAIN q, i < k
        PROVE  /\ Before(q[k], k - i, q[i])
               /\ After(q[i], k - i, q[k])
               /\ Independent(q[i], k - i, q[k])
    <3>1. CASE i \in 1..A /\ k \in 1..A
      BY <3>1, <2>2, <1>1, <1>4 DEF Shaped
    <3>2. CASE i \in 1..A /\ k \notin 1..A
      <4>1. PICK j \in 1..B : k = A + j
        BY <3>2, <1>6
      <4>2. /\ q[i] = a[i] /\ q[k] = b[j] /\ a[i] \in Statements /\ b[j] \in Statements
            /\ j > Reach(b[j]) /\ Reach(b[j]) \in Nat
            /\ i + Span(a[i]) <= A /\ Span(a[i]) \in Nat
        BY <3>2, <4>1, <1>1, <1>4, <1>5, <1>7, <1>9
      <4>3. /\ k - i \in Nat /\ k - i > Reach(b[j]) /\ k - i > Span(a[i])
            /\ k - i >= j + Span(a[i])
        BY <4>1, <4>2, <3>2, <1>1
      <4>4. a[i].skip > 0 => k - i - a[i].skip > Reach(b[j])
        <5>1. a[i].skip > 0 => Span(a[i]) = a[i].skip
          BY <4>2, Kinds DEF Span
        <5> QED BY <5>1, <4>2, <4>3, <4>1, <3>2, <1>1
      <4> QED BY <4>2, <4>3, <4>4, Distances DEF Independent
    <3>3. CASE i \notin 1..A
      <4>1. PICK j \in 1..B : i = A + j
        BY <3>3, <1>6
      <4>2. PICK l \in 1..B : k = A + l
        <5>1. k \notin 1..A
          BY <4>1, <2>2, <1>1, <1>3
        <5> QED BY <5>1, <1>6
      <4>3. j < l /\ k - i = l - j
        BY <4>1, <4>2, <2>2, <1>1
      <4>4. q[i] = b[j] /\ q[k] = b[l] /\ j \in DOMAIN b /\ l \in DOMAIN b /\ Shaped(b)
        BY <4>1, <4>2, <1>1, <1>5 DEF Part
      <4>5. Before(b[l], l - j, b[j]) /\ After(b[j], l - j, b[l]) /\ Independent(b[j], l - j, b[l])
        BY <4>3, <4>4 DEF Shaped
      <4> QED BY <4>3, <4>4, <4>5, Zenon
    <3> QED BY <3>1, <3>2, <3>3
  <2> QED BY <1>2, <2>1, <2>2 DEF Shaped
<1>11. Begins(a) => Begins(q)
  <2> SUFFICES ASSUME Begins(a), NEW i \in DOMAIN q PROVE i > Reach(q[i])
    BY DEF Begins
  <2>1. CASE i \in 1..A
    BY <2>1, <1>1, <1>4 DEF Begins
  <2>2. CASE i \notin 1..A
    <3>1. PICK j \in 1..B : i = A + j
      BY <2>2, <1>6
    <3>2. q[i] = b[j] /\ j > Reach(b[j]) /\ Reach(b[j]) \in Nat
      BY <3>1, <1>5, <1>9
    <3> QED BY <3>1, <3>2, <1>1
  <2> QED BY <2>1, <2>2
<1>12. Part(a) => Part(q)
  BY <1>10, <1>11 DEF Part
<1>13. ASSUME Working(a), Working(b)
       PROVE  Working(q)
  <2> SUFFICES ASSUME NEW i \in DOMAIN q
               PROVE  q[i].sql \notin {"columns", "add_column", "store"}
    BY DEF Working
  <2>1. CASE i \in 1..A
    BY <1>1, <1>4, <1>13, <2>1 DEF Working
  <2>2. CASE i \notin 1..A
    <3>1. PICK j \in 1..B : i = A + j
      BY <1>6, <2>2
    <3> QED BY <1>1, <1>5, <1>13, <3>1 DEF Working
  <2> QED BY <2>1, <2>2
<1> QED BY <1>10, <1>11, <1>12, <1>13 DEF q

-----------------------------------------------------------------------------
(* What the operations are made of.                                        *)

\* Writing a memory.
LEMMA Writes ==
    ASSUME NEW d \in Digests, NEW e \in Expiries
    PROVE  Part(WriteMemory(d, e)) /\ Working(WriteMemory(d, e))
<1> DEFINE q == WriteMemory(d, e)
<1>1. /\ Len(q) = 4 /\ DOMAIN q = 1..4
      /\ q[1] = Ask("digest", d, "found", 2) /\ q[2] = NewRow(d, e)
      /\ q[3] = Commit /\ q[4] = Answer("memory")
  BY DEF WriteMemory, NewRow
<1>2. /\ q[1] \in Statements /\ q[2] \in Statements /\ q[3] \in Statements
      /\ q[4] \in Statements
  BY <1>1 DEF Statements, Queries, Changers
<1>3. q \in Seq(Statements)
  BY <1>1, <1>2 DEF WriteMemory, NewRow
<1> HIDE DEF q
<1>4. \A i \in DOMAIN q : i = 1 \/ i = 2 \/ i = 3 \/ i = 4
  BY <1>1
<1>5. /\ \A i \in DOMAIN q : i + Span(q[i]) <= 4 /\ i > Reach(q[i])
      /\ \A i \in DOMAIN q :
            q[i].sql \notin {"columns", "add_column", "store"}
  BY <1>1, <1>4 DEF Span, Reach, Tells, NewRow, Commit, Answer, Do, Ask, Statement
<1>6. \A i, k \in DOMAIN q : i < k => Before(q[k], k - i, q[i])
  BY <1>1, <1>4 DEF Before, Tells, NewRow, Commit, Answer, Do, Ask, Statement
<1>7. \A i, k \in DOMAIN q : i < k => After(q[i], k - i, q[k])
  BY <1>1, <1>4 DEF After, NewRow, Commit, Answer, Do, Ask, Statement
<1>8. \A i, k \in DOMAIN q : i < k => Independent(q[i], k - i, q[k])
  BY <1>1, <1>4 DEF Independent, Reach, Tells, NewRow, Commit, Answer, Do, Ask, Statement
<1> QED BY <1>1, <1>3, <1>5, <1>6, <1>7, <1>8 DEF Part, Shaped, Begins, Working, q

\* Starting a session.
LEMMA Starts ==
    ASSUME NEW r \in Runs
    PROVE  Part(StartSession(r)) /\ Working(StartSession(r))
<1> DEFINE q == StartSession(r)
<1>1. /\ Len(q) = 6 /\ DOMAIN q = 1..6
      /\ q[1] = AskSession(r) /\ q[2] = Do("insert_session", r)
      /\ q[3] = Commit /\ q[4] = Read
      /\ q[5] = Ev("started", r) /\ q[6] = Commit
  BY DEF StartSession, RecordEvent, AskSession, Ev
<1>2. /\ q[1] \in Statements /\ q[2] \in Statements /\ q[3] \in Statements
      /\ q[4] \in Statements /\ q[5] \in Statements /\ q[6] \in Statements
  BY <1>1 DEF Statements, Queries, Changers
<1>3. q \in Seq(Statements)
  <2>1. <<AskSession(r), Do("insert_session", r), Commit, Read>> \in Seq(Statements)
    BY <1>1, <1>2
  <2>2. <<Ev("started", r), Commit>> \in Seq(Statements)
    BY <1>1, <1>2
  <2> QED BY <2>1, <2>2, ConcatProperties DEF StartSession, RecordEvent, AskSession, Ev
<1> HIDE DEF q
<1>4. \A i \in DOMAIN q : i = 1 \/ i = 2 \/ i = 3 \/ i = 4 \/ i = 5 \/ i = 6
  BY <1>1
<1>5. /\ \A i \in DOMAIN q : i + Span(q[i]) <= 6 /\ i > Reach(q[i])
      /\ \A i \in DOMAIN q :
            q[i].sql \notin {"columns", "add_column", "store"}
  BY <1>1, <1>4 DEF Span, Reach, Tells, Ev, AskSession, Read, Commit, Answer, Do, Ask,
       Statement, Event
<1>6. \A i, k \in DOMAIN q : i < k => Before(q[k], k - i, q[i])
  BY <1>1, <1>4 DEF Before, Tells, Ev, AskSession, Read, Commit, Answer, Do, Ask, Statement, Event
<1>7. \A i, k \in DOMAIN q : i < k => After(q[i], k - i, q[k])
  BY <1>1, <1>4 DEF After, Ev, AskSession, Read, Commit, Answer, Do, Ask, Statement, Event
<1>8. \A i, k \in DOMAIN q : i < k => Independent(q[i], k - i, q[k])
  BY <1>1, <1>4 DEF Independent, Reach, Tells, Ev, AskSession, Read, Commit, Answer, Do, Ask,
       Statement, Event
<1> QED BY <1>1, <1>3, <1>5, <1>6, <1>7, <1>8 DEF Part, Shaped, Begins, Working, q

\* Finishing one.
LEMMA Finishes ==
    ASSUME NEW r \in Runs, NEW st \in States
    PROVE  Part(FinishSession(r, st)) /\ Working(FinishSession(r, st))
<1> DEFINE q == FinishSession(r, st)
<1>1. /\ Len(q) = 6 /\ DOMAIN q = 1..6
      /\ q[1] = AskToFinish(r) /\ q[2] = Mark(r, st)
      /\ q[3] = Commit /\ q[4] = Read
      /\ q[5] = Ev("finished", r) /\ q[6] = Commit
  BY DEF FinishSession, RecordEvent, AskToFinish, Mark, Ev
<1>2. /\ q[1] \in Statements /\ q[2] \in Statements /\ q[3] \in Statements
      /\ q[4] \in Statements /\ q[5] \in Statements /\ q[6] \in Statements
  BY <1>1 DEF Statements, Queries, Changers
<1>3. q \in Seq(Statements)
  <2>1. <<AskToFinish(r), Mark(r, st), Commit, Read>> \in Seq(Statements)
    BY <1>1, <1>2
  <2>2. <<Ev("finished", r), Commit>> \in Seq(Statements)
    BY <1>1, <1>2
  <2> QED BY <2>1, <2>2, ConcatProperties DEF FinishSession, RecordEvent, AskToFinish, Mark, Ev
<1> HIDE DEF q
<1>4. \A i \in DOMAIN q : i = 1 \/ i = 2 \/ i = 3 \/ i = 4 \/ i = 5 \/ i = 6
  BY <1>1
<1>5. /\ \A i \in DOMAIN q : i + Span(q[i]) <= 6 /\ i > Reach(q[i])
      /\ \A i \in DOMAIN q :
            q[i].sql \notin {"columns", "add_column", "store"}
  BY <1>1, <1>4 DEF Span, Reach, Tells, Ev, AskToFinish, Mark, Read, Commit, Answer, Do, Ask,
       Statement, Event
<1>6. \A i, k \in DOMAIN q : i < k => Before(q[k], k - i, q[i])
  BY <1>1, <1>4 DEF Before, Tells, Ev, AskToFinish, Mark, Read, Commit, Answer, Do, Ask,
       Statement, Event
<1>7. \A i, k \in DOMAIN q : i < k => After(q[i], k - i, q[k])
  BY <1>1, <1>4 DEF After, Ev, AskToFinish, Mark, Read, Commit, Answer, Do, Ask, Statement, Event
<1>8. \A i, k \in DOMAIN q : i < k => Independent(q[i], k - i, q[k])
  BY <1>1, <1>4 DEF Independent, Reach, Tells, Ev, AskToFinish, Mark, Read, Commit, Answer, Do,
       Ask, Statement, Event
<1> QED BY <1>1, <1>3, <1>5, <1>6, <1>7, <1>8 DEF Part, Shaped, Begins, Working, q

\* Getting a memory.
LEMMA Gets ==
    ASSUME NEW id \in Ids
    PROVE  Part(GetMemory(id)) /\ Working(GetMemory(id))
<1> DEFINE q == GetMemory(id)
<1>1. /\ Len(q) = 4 /\ DOMAIN q = 1..4
      /\ q[1] = Ask("id", id, "none", 3) /\ q[2] = Do("touch", Nothing)
      /\ q[3] = Commit /\ q[4] = Read
  BY DEF GetMemory, Touch
<1>2. /\ q[1] \in Statements /\ q[2] \in Statements /\ q[3] \in Statements
      /\ q[4] \in Statements
  BY <1>1 DEF Statements, Queries, Changers
<1>3. q \in Seq(Statements)
  <2>1. <<Ask("id", id, "none", 3)>> \in Seq(Statements)
    BY <1>1, <1>2
  <2>2. <<Do("touch", Nothing), Commit>> \in Seq(Statements)
    BY <1>1, <1>2
  <2>3. <<Read>> \in Seq(Statements)
    BY <1>1, <1>2
  <2> QED BY <2>1, <2>2, <2>3, ConcatProperties DEF GetMemory, Touch
<1> HIDE DEF q
<1>4. \A i \in DOMAIN q : i = 1 \/ i = 2 \/ i = 3 \/ i = 4
  BY <1>1
<1>5. /\ \A i \in DOMAIN q : i + Span(q[i]) <= 4 /\ i > Reach(q[i])
      /\ \A i \in DOMAIN q :
            q[i].sql \notin {"columns", "add_column", "store"}
  BY <1>1, <1>4 DEF Span, Reach, Tells, Read, Commit, Answer, Do, Ask, Statement
<1>6. \A i, k \in DOMAIN q : i < k => Before(q[k], k - i, q[i])
  BY <1>1, <1>4 DEF Before, Tells, Read, Commit, Answer, Do, Ask, Statement
<1>7. \A i, k \in DOMAIN q : i < k => After(q[i], k - i, q[k])
  BY <1>1, <1>4 DEF After, Read, Commit, Answer, Do, Ask, Statement
<1>8. \A i, k \in DOMAIN q : i < k => Independent(q[i], k - i, q[k])
  BY <1>1, <1>4 DEF Independent, Reach, Tells, Read, Commit, Answer, Do, Ask, Statement
<1> QED BY <1>1, <1>3, <1>5, <1>6, <1>7, <1>8 DEF Part, Shaped, Begins, Working, q

\* Searching for memories.
LEMMA Searches ==
    Part(SearchMemories) /\ Working(SearchMemories)
<1> DEFINE q == SearchMemories
<1>1. /\ Len(q) = 4 /\ DOMAIN q = 1..4
      /\ q[1] = Ask("match", Nothing, "never", 0) /\ q[2] = Ask("again", Nothing, "none", 2)
      /\ q[3] = Do("touch", Nothing) /\ q[4] = Commit
  BY DEF SearchMemories, Touch
<1>2. /\ q[1] \in Statements /\ q[2] \in Statements /\ q[3] \in Statements
      /\ q[4] \in Statements
  BY <1>1 DEF Statements, Queries, Changers
<1>3. q \in Seq(Statements)
  <2>1. <<Ask("match", Nothing, "never", 0), Ask("again", Nothing, "none", 2)>> \in Seq(Statements)
    BY <1>1, <1>2
  <2>2. <<Do("touch", Nothing), Commit>> \in Seq(Statements)
    BY <1>1, <1>2
  <2> QED BY <2>1, <2>2, ConcatProperties DEF SearchMemories, Touch
<1> HIDE DEF q
<1>4. \A i \in DOMAIN q : i = 1 \/ i = 2 \/ i = 3 \/ i = 4
  BY <1>1
<1>5. /\ \A i \in DOMAIN q : i + Span(q[i]) <= 4 /\ i > Reach(q[i])
      /\ \A i \in DOMAIN q :
            q[i].sql \notin {"columns", "add_column", "store"}
  BY <1>1, <1>4 DEF Span, Reach, Tells, Commit, Answer, Do, Ask, Statement
<1>6. \A i, k \in DOMAIN q : i < k => Before(q[k], k - i, q[i])
  BY <1>1, <1>4 DEF Before, Tells, Commit, Answer, Do, Ask, Statement
<1>7. \A i, k \in DOMAIN q : i < k => After(q[i], k - i, q[k])
  BY <1>1, <1>4 DEF After, Commit, Answer, Do, Ask, Statement
<1>8. \A i, k \in DOMAIN q : i < k => Independent(q[i], k - i, q[k])
  BY <1>1, <1>4 DEF Independent, Reach, Tells, Commit, Answer, Do, Ask, Statement
<1> QED BY <1>1, <1>3, <1>5, <1>6, <1>7, <1>8 DEF Part, Shaped, Begins, Working, q

\* Changing a weight.
LEMMA Weighs ==
    ASSUME NEW id \in Ids, NEW e \in Expiries
    PROVE  Part(UpdateMemoryWeight(id, e)) /\ Working(UpdateMemoryWeight(id, e))
<1> DEFINE q == UpdateMemoryWeight(id, e)
<1>1. /\ Len(q) = 4 /\ DOMAIN q = 1..4
      /\ q[1] = Ask("id", id, "none", 3) /\ q[2] = Weight(id, e)
      /\ q[3] = Commit /\ q[4] = Read
  BY DEF UpdateMemoryWeight, Weight
<1>2. /\ q[1] \in Statements /\ q[2] \in Statements /\ q[3] \in Statements
      /\ q[4] \in Statements
  BY <1>1 DEF Statements, Queries, Changers
<1>3. q \in Seq(Statements)
  BY <1>1, <1>2 DEF UpdateMemoryWeight, Weight
<1> HIDE DEF q
<1>4. \A i \in DOMAIN q : i = 1 \/ i = 2 \/ i = 3 \/ i = 4
  BY <1>1
<1>5. /\ \A i \in DOMAIN q : i + Span(q[i]) <= 4 /\ i > Reach(q[i])
      /\ \A i \in DOMAIN q :
            q[i].sql \notin {"columns", "add_column", "store"}
  BY <1>1, <1>4 DEF Span, Reach, Tells, Weight, Read, Commit, Answer, Do, Ask, Statement
<1>6. \A i, k \in DOMAIN q : i < k => Before(q[k], k - i, q[i])
  BY <1>1, <1>4 DEF Before, Tells, Weight, Read, Commit, Answer, Do, Ask, Statement
<1>7. \A i, k \in DOMAIN q : i < k => After(q[i], k - i, q[k])
  BY <1>1, <1>4 DEF After, Weight, Read, Commit, Answer, Do, Ask, Statement
<1>8. \A i, k \in DOMAIN q : i < k => Independent(q[i], k - i, q[k])
  BY <1>1, <1>4 DEF Independent, Reach, Tells, Weight, Read, Commit, Answer, Do, Ask, Statement
<1> QED BY <1>1, <1>3, <1>5, <1>6, <1>7, <1>8 DEF Part, Shaped, Begins, Working, q

\* Evicting memories.
LEMMA Evicts ==
    Part(EvictMemories) /\ Working(EvictMemories)
<1> DEFINE q == EvictMemories
<1>1. /\ Len(q) = 3 /\ DOMAIN q = 1..3
      /\ q[1] = Ask("expired", Nothing, "none", 2) /\ q[2] = Do("delete_memories", Nothing)
      /\ q[3] = Commit
  BY DEF EvictMemories
<1>2. q[1] \in Statements /\ q[2] \in Statements /\ q[3] \in Statements
  BY <1>1 DEF Statements, Queries, Changers
<1>3. q \in Seq(Statements)
  BY <1>1, <1>2 DEF EvictMemories
<1> HIDE DEF q
<1>4. \A i \in DOMAIN q : i = 1 \/ i = 2 \/ i = 3
  BY <1>1
<1>5. /\ \A i \in DOMAIN q : i + Span(q[i]) <= 3 /\ i > Reach(q[i])
      /\ \A i \in DOMAIN q :
            q[i].sql \notin {"columns", "add_column", "store"}
  BY <1>1, <1>4 DEF Span, Reach, Tells, Commit, Answer, Do, Ask, Statement
<1>6. \A i, k \in DOMAIN q : i < k => Before(q[k], k - i, q[i])
  BY <1>1, <1>4 DEF Before, Tells, Commit, Answer, Do, Ask, Statement
<1>7. \A i, k \in DOMAIN q : i < k => After(q[i], k - i, q[k])
  BY <1>1, <1>4 DEF After, Commit, Answer, Do, Ask, Statement
<1>8. \A i, k \in DOMAIN q : i < k => Independent(q[i], k - i, q[k])
  BY <1>1, <1>4 DEF Independent, Reach, Tells, Commit, Answer, Do, Ask, Statement
<1> QED BY <1>1, <1>3, <1>5, <1>6, <1>7, <1>8 DEF Part, Shaped, Begins, Working, q

\* Storing a member or an artifact.
LEMMA Upserts ==
    ASSUME NEW p \in Projects, NEW item \in Items
    PROVE  Part(Upsert(p, item)) /\ Working(Upsert(p, item))
<1> DEFINE q == Upsert(p, item)
<1>1. /\ Len(q) = 3 /\ DOMAIN q = 1..3
      /\ q[1] = Put(p, item) /\ q[2] = Commit
      /\ q[3] = Read
  BY DEF Upsert, Put
<1>2. q[1] \in Statements /\ q[2] \in Statements /\ q[3] \in Statements
  BY <1>1 DEF Statements, Queries, Changers
<1>3. q \in Seq(Statements)
  BY <1>1, <1>2 DEF Upsert, Put
<1> HIDE DEF q
<1>4. \A i \in DOMAIN q : i = 1 \/ i = 2 \/ i = 3
  BY <1>1
<1>5. /\ \A i \in DOMAIN q : i + Span(q[i]) <= 3 /\ i > Reach(q[i])
      /\ \A i \in DOMAIN q :
            q[i].sql \notin {"columns", "add_column", "store"}
  BY <1>1, <1>4 DEF Span, Reach, Tells, Put, Read, Commit, Answer, Do, Ask, Statement
<1>6. \A i, k \in DOMAIN q : i < k => Before(q[k], k - i, q[i])
  BY <1>1, <1>4 DEF Before, Tells, Put, Read, Commit, Answer, Do, Ask, Statement
<1>7. \A i, k \in DOMAIN q : i < k => After(q[i], k - i, q[k])
  BY <1>1, <1>4 DEF After, Put, Read, Commit, Answer, Do, Ask, Statement
<1>8. \A i, k \in DOMAIN q : i < k => Independent(q[i], k - i, q[k])
  BY <1>1, <1>4 DEF Independent, Reach, Tells, Put, Read, Commit, Answer, Do, Ask, Statement
<1> QED BY <1>1, <1>3, <1>5, <1>6, <1>7, <1>8 DEF Part, Shaped, Begins, Working, q

\* Logging a step of a run.
LEMMA Logs ==
    ASSUME NEW r \in Runs
    PROVE  Part(RecordEvent("logged", r)) /\ Working(RecordEvent("logged", r))
<1> DEFINE q == RecordEvent("logged", r)
<1>1. /\ Len(q) = 2 /\ DOMAIN q = 1..2
      /\ q[1] = Ev("logged", r) /\ q[2] = Commit
  BY DEF RecordEvent, Ev
<1>2. q[1] \in Statements /\ q[2] \in Statements
  BY <1>1 DEF Statements, Queries, Changers
<1>3. q \in Seq(Statements)
  BY <1>1, <1>2 DEF RecordEvent, Ev
<1> HIDE DEF q
<1>4. \A i \in DOMAIN q : i = 1 \/ i = 2
  BY <1>1
<1>5. /\ \A i \in DOMAIN q : i + Span(q[i]) <= 2 /\ i > Reach(q[i])
      /\ \A i \in DOMAIN q :
            q[i].sql \notin {"columns", "add_column", "store"}
  BY <1>1, <1>4 DEF Span, Reach, Tells, Ev, Commit, Answer, Do, Ask, Statement, Event
<1>6. \A i, k \in DOMAIN q : i < k => Before(q[k], k - i, q[i])
  BY <1>1, <1>4 DEF Before, Tells, Ev, Commit, Answer, Do, Ask, Statement, Event
<1>7. \A i, k \in DOMAIN q : i < k => After(q[i], k - i, q[k])
  BY <1>1, <1>4 DEF After, Ev, Commit, Answer, Do, Ask, Statement, Event
<1>8. \A i, k \in DOMAIN q : i < k => Independent(q[i], k - i, q[k])
  BY <1>1, <1>4 DEF Independent, Reach, Tells, Ev, Commit, Answer, Do, Ask, Statement, Event
<1> QED BY <1>1, <1>3, <1>5, <1>6, <1>7, <1>8 DEF Part, Shaped, Begins, Working, q

\* Syncing the context of a project.
LEMMA Syncs ==
    ASSUME NEW p \in Projects
    PROVE  Part(SyncProjectContext(p)) /\ Working(SyncProjectContext(p))
<1> DEFINE q == SyncProjectContext(p)
<1>1. /\ Len(q) = 10 /\ DOMAIN q = 1..10
      /\ q[1] = AskProfile(p) /\ q[2] = WriteFile(p)
      /\ q[3] = Put(p, "member") /\ q[4] = Commit
      /\ q[5] = Read /\ q[6] = Put(p, "artifact")
      /\ q[7] = Commit /\ q[8] = Read
      /\ q[9] = Ev("synced", p) /\ q[10] = Commit
  BY DEF SyncProjectContext, EnsureProjectProfile, UpsertProjectMember, UpsertProjectArtifact,
       Upsert,
              RecordEvent, AskProfile, Put, Ev
<1>2. /\ q[1] \in Statements /\ q[2] \in Statements /\ q[3] \in Statements
      /\ q[4] \in Statements /\ q[5] \in Statements /\ q[6] \in Statements
      /\ q[7] \in Statements /\ q[8] \in Statements /\ q[9] \in Statements
      /\ q[10] \in Statements
  BY <1>1 DEF Statements, Queries, Changers, Items
<1>3. q \in Seq(Statements)
  <2>1. <<AskProfile(p), WriteFile(p)>> \in Seq(Statements)
    BY <1>1, <1>2
  <2>2. <<Put(p, "member"), Commit, Read>> \in Seq(Statements)
    BY <1>1, <1>2
  <2>3. <<Put(p, "artifact"), Commit, Read>> \in Seq(Statements)
    BY <1>1, <1>2
  <2>4. <<Ev("synced", p), Commit>> \in Seq(Statements)
    BY <1>1, <1>2
  <2> QED BY <2>1, <2>2, <2>3, <2>4, ConcatProperties DEF SyncProjectContext,
       EnsureProjectProfile, UpsertProjectMember, UpsertProjectArtifact, Upsert,
              RecordEvent, AskProfile, Put, Ev
<1> HIDE DEF q
<1>4. \A i \in DOMAIN q : \/ i = 1 \/ i = 2 \/ i = 3 \/ i = 4 \/ i = 5
                          \/ i = 6 \/ i = 7 \/ i = 8 \/ i = 9 \/ i = 10
  BY <1>1
<1>5. /\ \A i \in DOMAIN q : i + Span(q[i]) <= 10 /\ i > Reach(q[i])
      /\ \A i \in DOMAIN q :
            q[i].sql \notin {"columns", "add_column", "store"}
  BY <1>1, <1>4 DEF Span, Reach, Tells, Ev, AskProfile, Put, Read, WriteFile, Commit, Answer,
       Do, Ask, Statement, Event
<1>6. \A i, k \in DOMAIN q : i < k => Before(q[k], k - i, q[i])
  BY <1>1, <1>4 DEF Before, Tells, Ev, AskProfile, Put, Read, WriteFile, Commit, Answer, Do,
       Ask, Statement, Event
<1>7. \A i, k \in DOMAIN q : i < k => After(q[i], k - i, q[k])
  BY <1>1, <1>4 DEF After, Ev, AskProfile, Put, Read, WriteFile, Commit, Answer, Do, Ask,
       Statement, Event
<1>8. \A i, k \in DOMAIN q : i < k => Independent(q[i], k - i, q[k])
  BY <1>1, <1>4 DEF Independent, Reach, Tells, Ev, AskProfile, Put, Read, WriteFile, Commit,
       Answer, Do, Ask, Statement, Event
<1> QED BY <1>1, <1>3, <1>5, <1>6, <1>7, <1>8 DEF Part, Shaped, Begins, Working, q

\* A statement that depends on nothing.
LEMMA Ones ==
    ASSUME NEW x \in Statements, x.sql \notin {"columns", "add_column", "store"},
           Span(x) = 0, Reach(x) = 0
    PROVE  Part(<<x>>) /\ Working(<<x>>)
<1> DEFINE q == <<x>>
<1>1. q \in Seq(Statements) /\ DOMAIN q = 1..1 /\ Len(q) = 1 /\ q[1] = x
  OBVIOUS
<1> HIDE DEF q
<1>2. \A i \in DOMAIN q : i = 1
  BY <1>1
<1>3. \A i \in DOMAIN q :
          /\ i + Span(q[i]) <= Len(q) /\ i > Reach(q[i])
          /\ q[i].sql \notin {"columns", "add_column", "store"}
  BY <1>1, <1>2
<1>4. \A i, k \in DOMAIN q : ~(i < k)
  BY <1>2
<1>5. Shaped(q)
  BY <1>1, <1>3, <1>4 DEF Shaped
<1>6. Part(q) /\ Working(q)
  BY <1>3, <1>5 DEF Part, Begins, Working
<1> QED BY <1>6 DEF q

\* A document with its chunks.
LEMMA Ingests ==
    Shaped(IngestDocument) /\ Begins(IngestDocument) /\ Working(IngestDocument)
<1> DEFINE q == IngestDocument
           C == Chunks
           Cs == [i \in 1..C |-> Chunk(i)]
<1>1. C \in Nat \ {0}
  BY StoreAssumption
<1>2. /\ NewDocument \in Statements /\ Commit \in Statements /\ Read \in Statements
      /\ \A i \in 1..C : Chunk(i) \in Statements
  BY DEF Statements, Queries, Changers
<1> HIDE DEF C
<1>3. /\ <<NewDocument>> \in Seq(Statements) /\ Len(<<NewDocument>>) = 1
      /\ <<NewDocument>>[1] = NewDocument
  BY <1>2
<1>4. Cs \in Seq(Statements) /\ Len(Cs) = C /\ \A i \in 1..C : Cs[i] = Chunk(i)
  <2>1. Cs \in [1..C -> Statements]
    BY <1>2
  <2>2. Cs \in Seq(Statements)
    BY <2>1, <1>1, SeqDef
  <2>3. Len(Cs) = C
    BY <1>1, <2>2, LenProperties
  <2> QED BY <2>2, <2>3
<1>5. /\ <<Commit, Read>> \in Seq(Statements) /\ Len(<<Commit, Read>>) = 2
      /\ <<Commit, Read>>[1] = Commit /\ <<Commit, Read>>[2] = Read
  BY <1>2
<1>6. q = (<<NewDocument>> \o Cs) \o <<Commit, Read>>
  BY DEF IngestDocument, NewDocument, Chunk, C
<1> DEFINE qa == <<NewDocument>> \o Cs
           z == <<Commit, Read>>
<1> HIDE DEF q, Cs, z
<1>7. /\ qa \in Seq(Statements) /\ Len(qa) = 1 + C
      /\ \A i \in 1..(1 + C) : qa[i] = IF i <= 1 THEN NewDocument ELSE Cs[i - 1]
  BY <1>3, <1>4, <1>1, ConcatProperties
<1> HIDE DEF qa
<1>8. /\ q \in Seq(Statements) /\ Len(q) = C + 3
      /\ \A i \in 1..(C + 3) : q[i] = IF i <= 1 + C THEN qa[i] ELSE z[i - (1 + C)]
  <2>1. /\ q \in Seq(Statements) /\ Len(q) = 1 + C + 2
        /\ \A i \in 1..(1 + C + 2) : q[i] = IF i <= 1 + C THEN qa[i] ELSE z[i - (1 + C)]
    BY <1>5, <1>6, <1>7, ConcatProperties DEF qa, z
  <2> QED BY <2>1, <1>1
<1>9. /\ DOMAIN q = 1..(C + 3)
      /\ q[1] = NewDocument /\ q[C + 2] = Commit /\ q[C + 3] = Read
      /\ \A i \in 1..C : q[i + 1] = Chunk(i)
  <2>1. q[1] = NewDocument
    BY <1>1, <1>7, <1>8
  <2>2. q[C + 2] = Commit /\ q[C + 3] = Read
    <3>1. /\ C + 2 \in 1..(C + 3) /\ C + 3 \in 1..(C + 3)
          /\ ~(C + 2 <= 1 + C) /\ ~(C + 3 <= 1 + C)
          /\ C + 2 - (1 + C) = 1 /\ C + 3 - (1 + C) = 2
      BY <1>1
    <3>2. \A i \in 1..(C + 3) : ~(i <= 1 + C) => q[i] = z[i - (1 + C)]
      BY <1>8
    <3>3. q[C + 2] = z[C + 2 - (1 + C)] /\ q[C + 3] = z[C + 3 - (1 + C)]
      BY <3>1, <3>2, <1>1
    <3> QED BY <3>1, <3>3, <1>5 DEF z
  <2>3. ASSUME NEW i \in 1..C
        PROVE  q[i + 1] = Chunk(i)
    <3>1. i + 1 \in 1..(C + 3) /\ i + 1 <= 1 + C /\ ~(i + 1 <= 1) /\ i + 1 - 1 = i
      BY <1>1
    <3>2. i + 1 \in 1..(1 + C)
      BY <1>1
    <3> QED BY <3>1, <3>2, <1>7, <1>8, <1>4
  <2> QED BY <2>1, <2>2, <2>3, <1>8, LenProperties
<1>10. \A i \in DOMAIN q : i = 1 \/ i = C + 2 \/ i = C + 3 \/ (i > 1 /\ i - 1 \in 1..C)
  BY <1>1, <1>9
<1>11. \A i \in DOMAIN q : i > 1 /\ i - 1 \in 1..C => q[i] = Chunk(i - 1)
  <2> SUFFICES ASSUME NEW i \in DOMAIN q, i > 1, i - 1 \in 1..C PROVE q[i] = Chunk(i - 1)
    OBVIOUS
  <2>1. q[(i - 1) + 1] = Chunk(i - 1) /\ (i - 1) + 1 = i
    BY <1>9
  <2> QED BY <2>1
<1>12. ASSUME NEW i \in DOMAIN q
       PROVE  /\ i + Span(q[i]) <= Len(q) /\ i > Reach(q[i])
              /\ q[i].sql \notin {"columns", "add_column", "store"} /\ q[i].skip = 0
              /\ q[i].is = "change" <=> i <= C + 1
              /\ Reach(q[i]) = IF i > 1 /\ i <= C + 1 THEN 1 ELSE 0
  <2>1. CASE i = 1
    BY <2>1, <1>1, <1>8, <1>9
       DEF Span, Reach, Tells, NewDocument, Do, Statement, Answer
  <2>2. CASE i > 1 /\ i - 1 \in 1..C
    <3>1. q[i] = Chunk(i - 1)
      BY <2>2, <1>11
    <3>2. /\ Span(q[i]) = 1 /\ Reach(q[i]) = 1 /\ q[i].skip = 0
          /\ q[i].sql = "insert_chunk" /\ q[i].is = "change"
      BY <3>1 DEF Span, Reach, Tells, Chunk, Do, Statement, Answer
    <3> QED BY <2>2, <3>2, <1>1, <1>8
  <2>3. CASE i = C + 2 \/ i = C + 3
    <3>1. q[i] = Commit \/ q[i] = Read
      BY <2>3, <1>9
    <3>2. /\ Span(q[i]) = 0 /\ Reach(q[i]) = 0 /\ q[i].skip = 0
          /\ q[i].sql \in {"commit", "rows"} /\ q[i].is # "change"
      BY <3>1 DEF Span, Reach, Tells, Commit, Read, Statement, Answer
    <3> QED BY <2>3, <3>2, <1>1, <1>8
  <2> QED BY <2>1, <2>2, <2>3, <1>10
<1>13. ASSUME NEW i \in DOMAIN q, NEW k \in DOMAIN q, i < k
       PROVE  Before(q[k], k - i, q[i])
  <2>1. CASE k > 1 /\ k - 1 \in 1..C /\ i = k - 1
    <3>1. q[k] = Chunk(k - 1) /\ q[i] = IF k - 1 = 1 THEN NewDocument ELSE Chunk(k - 1 - 1)
      BY <2>1, <1>1, <1>9, <1>10, <1>11
    <3> QED BY <3>1 DEF Before, Tells, Chunk, Do, Statement, Answer
  <2>2. CASE ~(k > 1 /\ k - 1 \in 1..C) \/ i # k - 1
    <3>1. k - i \in Nat /\ k - i > Reach(q[k]) /\ q[k] \in Statements
      BY <2>2, <1>13, <1>1, <1>8, <1>9, <1>12, ElementOfSeq
    <3> QED BY <3>1, Distances
  <2> QED BY <2>1, <2>2
<1>14. ASSUME NEW i \in DOMAIN q, NEW k \in DOMAIN q, i < k
       PROVE  After(q[i], k - i, q[k])
  <2>1. CASE i <= C + 1 /\ k = i + 1
    <3>1. CASE i = 1
      <4>1. q[i] = NewDocument /\ q[k] = Chunk(1)
        BY <3>1, <2>1, <1>1, <1>9
      <4> QED BY <4>1 DEF After, NewDocument, Do, Statement
    <3>2. CASE i > 1 /\ i < C + 1
      <4>1. q[i] = Chunk(i - 1) /\ q[k] = Chunk((i - 1) + 1) /\ i - 1 < C
        BY <3>2, <2>1, <1>1, <1>9, <1>11
      <4> QED BY <4>1 DEF After, Chunk, Do, Statement, C
    <3>3. CASE i = C + 1
      <4>1. q[i] = Chunk(C) /\ q[k] = Commit
        BY <3>3, <2>1, <1>1, <1>9
      <4> QED BY <4>1, <1>1 DEF After, Chunk, Do, Statement, C
    <3> QED BY <2>1, <3>1, <3>2, <3>3, <1>1, <1>9
  <2>2. CASE i > C + 1 \/ k # i + 1
    <3>1. k - i \in Nat /\ k - i > Span(q[i]) /\ q[i] \in Statements
      BY <2>2, <1>14, <1>1, <1>8, <1>9, <1>12, ElementOfSeq DEF Span
    <3> QED BY <3>1, Distances
  <2> QED BY <2>1, <2>2, <1>1, <1>9
<1> QED BY <1>8, <1>12, <1>13, <1>14 DEF Shaped, Begins, Working, Independent, q

\* Opening a store.
LEMMA Migrates ==
    ASSUME NEW cs \in Seq(Columns)
    PROVE  /\ Shaped(MigrateSchema(cs)) /\ Begins(MigrateSchema(cs)) /\ Opening(MigrateSchema(cs))
           /\ MigrateSchema(cs) # <<>> /\ Head(MigrateSchema(cs)) = AskColumns
           /\ \A i \in DOMAIN cs : \E k \in DOMAIN MigrateSchema(cs) :
                 MigrateSchema(cs)[k] = Column(cs[i])
<1> DEFINE q == MigrateSchema(cs)
           C == Len(cs)
           D == [i \in DOMAIN cs |-> Column(cs[i])]
           z == <<Commit, Answer("store")>>
           qa == <<AskColumns>> \o D
<1>1. C \in Nat /\ DOMAIN cs = 1..C /\ \A i \in 1..C : cs[i] \in Columns
  BY LenProperties, ElementOfSeq
<1> HIDE DEF C
<1>2. /\ AskColumns \in Statements /\ Commit \in Statements /\ Answer("store") \in Statements
      /\ \A i \in 1..C : Column(cs[i]) \in Statements
  BY <1>1 DEF Statements, Queries, Changers
<1>3. /\ <<AskColumns>> \in Seq(Statements) /\ Len(<<AskColumns>>) = 1
      /\ <<AskColumns>>[1] = AskColumns
  BY <1>2
<1>4. D \in Seq(Statements) /\ Len(D) = C /\ \A i \in 1..C : D[i] = Column(cs[i])
  <2>1. D \in [1..C -> Statements]
    BY <1>1, <1>2
  <2>2. D \in Seq(Statements)
    BY <2>1, <1>1, SeqDef
  <2>3. Len(D) = C
    BY <1>1, <2>2, <2>1, LenProperties
  <2> QED BY <2>2, <2>3, <1>1
<1>5. z \in Seq(Statements) /\ Len(z) = 2 /\ z[1] = Commit /\ z[2] = Answer("store")
  BY <1>2
<1>6. q = qa \o z
  BY DEF MigrateSchema, AskColumns, Column
<1> HIDE DEF q, D, z
<1>7. /\ qa \in Seq(Statements) /\ Len(qa) = 1 + C
      /\ \A i \in 1..(1 + C) : qa[i] = IF i <= 1 THEN AskColumns ELSE D[i - 1]
  BY <1>3, <1>4, <1>1, ConcatProperties
<1> HIDE DEF qa
<1>8. /\ q \in Seq(Statements) /\ Len(q) = C + 3
      /\ \A i \in 1..(C + 3) : q[i] = IF i <= 1 + C THEN qa[i] ELSE z[i - (1 + C)]
  <2>1. /\ q \in Seq(Statements) /\ Len(q) = 1 + C + 2
        /\ \A i \in 1..(1 + C + 2) : q[i] = IF i <= 1 + C THEN qa[i] ELSE z[i - (1 + C)]
    <3>1. /\ qa \o z \in Seq(Statements) /\ Len(qa \o z) = Len(qa) + Len(z)
          /\ \A i \in 1..(Len(qa) + Len(z)) :
                (qa \o z)[i] = IF i <= Len(qa) THEN qa[i] ELSE z[i - Len(qa)]
      BY <1>5, <1>7, ConcatProperties
    <3> QED BY <3>1, <1>5, <1>6, <1>7
  <2> QED BY <2>1, <1>1
<1>9. /\ DOMAIN q = 1..(C + 3)
      /\ q[1] = AskColumns /\ q[C + 2] = Commit /\ q[C + 3] = Answer("store")
      /\ \A i \in 1..C : q[i + 1] = Column(cs[i])
  <2>1. q[1] = AskColumns
    BY <1>1, <1>7, <1>8
  <2>2. q[C + 2] = Commit /\ q[C + 3] = Answer("store")
    <3>1. /\ C + 2 \in 1..(C + 3) /\ C + 3 \in 1..(C + 3)
          /\ ~(C + 2 <= 1 + C) /\ ~(C + 3 <= 1 + C)
          /\ C + 2 - (1 + C) = 1 /\ C + 3 - (1 + C) = 2
      BY <1>1
    <3>2. \A i \in 1..(C + 3) : ~(i <= 1 + C) => q[i] = z[i - (1 + C)]
      BY <1>8
    <3>3. q[C + 2] = z[C + 2 - (1 + C)] /\ q[C + 3] = z[C + 3 - (1 + C)]
      BY <3>1, <3>2, <1>1
    <3> QED BY <3>1, <3>3, <1>5
  <2>3. ASSUME NEW i \in 1..C
        PROVE  q[i + 1] = Column(cs[i])
    <3>1. i + 1 \in 1..(C + 3) /\ i + 1 <= 1 + C /\ ~(i + 1 <= 1) /\ i + 1 - 1 = i
      BY <1>1
    <3>2. i + 1 \in 1..(1 + C)
      BY <1>1
    <3> QED BY <3>1, <3>2, <1>7, <1>8, <1>4
  <2> QED BY <2>1, <2>2, <2>3, <1>8, LenProperties
<1>10. \A i \in DOMAIN q :
          \/ q[i] \in {AskColumns, Commit} \cup {Column(c) : c \in Columns}
          \/ q[i] = Answer("store") /\ i = Len(q)
  <2> SUFFICES ASSUME NEW i \in DOMAIN q
               PROVE  \/ q[i] \in {AskColumns, Commit} \cup {Column(c) : c \in Columns}
                      \/ q[i] = Answer("store") /\ i = Len(q)
    OBVIOUS
  <2>1. CASE i > 1 /\ i <= C + 1
    <3>1. i - 1 \in 1..C /\ (i - 1) + 1 = i
      BY <2>1, <1>1, <1>9
    <3>2. q[i] = Column(cs[i - 1])
      BY <3>1, <1>9
    <3> QED BY <3>1, <3>2, <1>1
  <2>2. CASE i = 1 \/ i = C + 2 \/ i = C + 3
    BY <2>2, <1>8, <1>9
  <2> QED BY <2>1, <2>2, <1>1, <1>9
<1>11. ASSUME NEW i \in DOMAIN q
       PROVE  /\ Span(q[i]) = 0 /\ Reach(q[i]) = 0 /\ q[i].skip = 0
              /\ q[i] \in Statements
  <2>1. \/ q[i] = AskColumns \/ q[i] = Commit \/ q[i] = Answer("store")
        \/ \E c \in Columns : q[i] = Column(c)
    BY <1>10
  <2>2. q[i] \in Statements
    BY <1>8, <1>9, ElementOfSeq
  <2> QED BY <2>1, <2>2
         DEF Span, Reach, Tells, AskColumns, Commit, Column, Ask, Statement, Answer
<1>12. Shaped(q) /\ Begins(q)
  <2>1. ASSUME NEW i \in DOMAIN q, NEW k \in DOMAIN q, i < k
        PROVE  Before(q[k], k - i, q[i]) /\ After(q[i], k - i, q[k])
    <3>1. k - i \in Nat /\ k - i > 0
      BY <2>1, <1>1, <1>9
    <3> QED BY <3>1, <1>11, Distances
  <2>2. \A i \in DOMAIN q : i + 0 <= Len(q) /\ i > 0
    BY <1>1, <1>8, <1>9
  <2> QED BY <2>1, <2>2, <1>8, <1>11 DEF Shaped, Begins, Independent
<1>13. q # <<>> /\ Head(q) = AskColumns
  BY <1>1, <1>8, <1>9
<1>14. ASSUME NEW i \in 1..C
       PROVE  \E k \in DOMAIN q : q[k] = Column(cs[i])
  <2>1. i + 1 \in DOMAIN q
    BY <1>1, <1>9
  <2> QED BY <2>1, <1>9
<1> QED BY <1>1, <1>10, <1>12, <1>13, <1>14 DEF Opening, q

\* What is dispatched is a program of this kind.
LEMMA Operate ==
    ASSUME file.memories \subseteq Memories, NEW tool \in Tools, NEW q \in Operations(tool)
    PROVE  Shaped(q) /\ Begins(q) /\ Working(q)
<1> DEFINE Good(p) == Part(p) /\ Working(p)
<1>0. CASE tool = "doc_ingest"
  BY <1>0, Ingests DEF Operations
<1>1. \A p : Good(p) => Shaped(p) /\ Begins(p) /\ Working(p)
  BY DEF Part
<1>2. \A a, b : Good(a) /\ Good(b) => Good(a \o b)
  BY Join DEF Part
<1>3. \A m \in file.memories : m.id \in Ids
  BY DEF Memories
<1>4. /\ Good(<<Read>>) /\ \A p \in Projects : Good(<<WriteFile(p)>>)
      /\ \A r \in Runs : Good(<<Ask("session", r, "never", 0)>>)
      /\ \A p \in Projects : Good(<<Ask("profile", p, "never", 0)>>)
  <2>1. ASSUME NEW x \in Statements, x.is \in {"query", "file"}, x.skip = 0, x.sql # "columns"
        PROVE  Good(<<x>>)
    <3>1. Span(x) = 0
      BY <2>1 DEF Span
    <3>2. x.sql \in {"digest", "id", "session", "profile", "match", "again", "rows", "expired"}
      BY <2>1, Kinds, QueryKinds DEF WriteFile, Statement
    <3>3. Reach(x) = 0
      BY <3>2 DEF Reach, Tells, Answer, Statement
    <3> QED BY <2>1, <3>1, <3>2, <3>3, Ones
  <2>2. /\ Read \in Statements /\ \A p \in Projects : WriteFile(p) \in Statements
        /\ \A r \in Runs : Ask("session", r, "never", 0) \in Statements
        /\ \A p \in Projects : Ask("profile", p, "never", 0) \in Statements
    BY DEF Statements, Queries
  <2>3. \A x : x \in Statements /\ x.is \in {"query", "file"} /\ x.skip = 0 /\ x.sql # "columns"
                  => Good(<<x>>)
    BY <2>1
  <2> HIDE DEF Good
  <2> QED BY <2>2, <2>3 DEF Read, WriteFile, Ask, Statement
<1>5. /\ \A d \in Digests, e \in Expiries : Good(WriteMemory(d, e))
      /\ \A r \in Runs : Good(StartSession(r))
      /\ \A r \in Runs, st \in States : Good(FinishSession(r, st))
      /\ \A id \in Ids : Good(GetMemory(id))
      /\ Good(SearchMemories) /\ Good(EvictMemories)
      /\ \A id \in Ids, e \in Expiries : Good(UpdateMemoryWeight(id, e))
      /\ \A p \in Projects, item \in Items : Good(Upsert(p, item))
      /\ \A r \in Runs : Good(RecordEvent("logged", r))
      /\ \A p \in Projects : Good(SyncProjectContext(p))
  BY Writes, Starts, Finishes, Gets, Searches, Evicts, Weighs, Upserts, Logs, Syncs
<1>6. Expiries = {"never", "past", "later"} /\ "failed" \in States /\ "completed" \in States
      /\ "running" \in States /\ "member" \in Items /\ "artifact" \in Items
  BY DEF Expiries, States, Items
<1> HIDE DEF Good
<1>7. \A q1, q2 : q = q1 \o q2 /\ Good(q1) /\ Good(q2) => Good(q)
  BY <1>2
<1> SUFFICES ASSUME tool # "doc_ingest" PROVE Good(q)
  BY <1>0, <1>1
<1>8. CASE tool \in {"memory_write", "memory_reflect"}
  <2>1. CASE tool = "memory_write"
    BY <2>1, <1>5, <1>6 DEF Operations
  <2>2. CASE tool = "memory_reflect"
    BY <2>2, <1>5, <1>6, <1>7 DEF Operations, Reflect
  <2> QED BY <1>8, <2>1, <2>2
<1>9. CASE tool \in {"memory_weight_update", "memory_get", "memory_search", "memory_evict"}
  <2>1. CASE tool = "memory_weight_update"
    BY <2>1, <1>3, <1>5, <1>6 DEF Operations
  <2>2. CASE tool = "memory_get"
    BY <2>2, <1>3, <1>5 DEF Operations
  <2>3. CASE tool = "memory_search"
    BY <2>3, <1>4, <1>5 DEF Operations, ListMemories
  <2>4. CASE tool = "memory_evict"
    BY <2>4, <1>5 DEF Operations
  <2> QED BY <1>9, <2>1, <2>2, <2>3, <2>4
<1>10. CASE tool \in {"session_start", "session_finish", "session_get", "process_log"}
  <2>1. CASE tool = "session_start"
    BY <2>1, <1>5 DEF Operations
  <2>2. CASE tool = "session_finish"
    BY <2>2, <1>5, <1>6 DEF Operations
  <2>3. CASE tool = "session_get"
    BY <2>3, <1>4 DEF Operations, GetSession
  <2>4. CASE tool = "process_log"
    BY <2>4, <1>5 DEF Operations
  <2> QED BY <1>10, <2>1, <2>2, <2>3, <2>4
<1>11. CASE tool = "record_agent_run"
  <2>1. PICK r \in Runs, d \in Digests : q = RecordAgentRun(r, "failed", d)
    BY <1>11 DEF Operations
  <2>2. Good(StartSession(r)) /\ Good(FinishSession(r, "failed")) /\ Good(WriteMemory(d, "never"))
    BY <1>5, <1>6
  <2> QED BY <2>1, <2>2, <1>2 DEF RecordAgentRun
<1>12. CASE tool \in {"sync_project_context", "profile_write"}
  <2>1. CASE tool = "sync_project_context"
    BY <2>1, <1>5 DEF Operations
  <2>2. CASE tool = "profile_write"
    BY <2>2, <1>4 DEF Operations, WritePointMemory
  <2> QED BY <1>12, <2>1, <2>2
<1>13. CASE tool = "project_context_upsert"
  <2>1. PICK p \in Projects : q = ProjectContextUpsert(p)
    BY <1>13 DEF Operations
  <2>2. Good(<<WriteFile(p)>>) /\ Good(Upsert(p, "member")) /\ Good(Upsert(p, "artifact"))
    BY <1>4, <1>5, <1>6
  <2> QED BY <2>1, <2>2, <1>2
          DEF ProjectContextUpsert, UpsertProjectMember, UpsertProjectArtifact
<1>14. CASE tool = "project_context_get"
  <2>1. PICK p \in Projects : q = GetProjectContext(p)
    BY <1>14 DEF Operations
  <2>2. GetProjectContext(p) =
            <<Ask("profile", p, "never", 0)>> \o (<<Read>> \o (<<Read>> \o <<Read>>))
    BY DEF GetProjectContext
  <2> QED BY <2>1, <2>2, <1>2, <1>4
<1>15. CASE tool = "doc_search"
  <2>1. SearchDocuments = <<Read>> \o <<Read>>
    BY DEF SearchDocuments
  <2>2. q = SearchDocuments
    BY <1>15 DEF Operations
  <2> QED BY <2>1, <2>2, <1>2, <1>4
<1> QED BY <1>8, <1>9, <1>10, <1>11, <1>12, <1>13, <1>14, <1>15 DEF Tools

-----------------------------------------------------------------------------
(* What the steps do, in terms of programs and tables.                     *)

\* The first k + 1 statements of s are done.
Moved(s, k) ==
    /\ todo' = [o \in Stores |-> todo'[o]]
    /\ \A o \in Stores \ {s} : todo'[o] = todo[o]
    /\ k + 1 <= Len(todo[s])
    /\ Len(todo'[s]) = Len(todo[s]) - (k + 1)
    /\ DOMAIN todo'[s] = 1..(Len(todo[s]) - (k + 1))
    /\ \A i \in 1..(Len(todo[s]) - (k + 1)) :
          todo'[s][i] = todo[s][i + (k + 1)] /\ i + (k + 1) \in DOMAIN todo[s]
    /\ Shaped(todo'[s])
    /\ Opening(todo[s]) => Opening(todo'[s])
    /\ Working(todo[s]) => Working(todo'[s])

\* s has another program, or none.
Given(s, q) ==
    /\ todo' = [o \in Stores |-> todo'[o]]
    /\ \A o \in Stores \ {s} : todo'[o] = todo[o]
    /\ todo'[s] = q /\ Shaped(q) /\ Begins(q)

\* Tables and copies stay what they are.
SameData ==
    /\ file' = file
    /\ \A o \in Stores : /\ Writer(o)' <=> Writer(o)
                         /\ Writer(o) => tx'[o].copy = tx[o].copy

\* s, and s alone, has changed something.
ChangedTo(s, db) ==
    /\ file' = file
    /\ Writer(s)' /\ tx'[s].copy = db
    /\ \A o \in Stores \ {s} : ~Writer(o) /\ ~Writer(o)'

\* Documents are never taken from those with a chunk that failed.
TornGrows == torn \subseteq torn' /\ torn' \subseteq Ids

\* Nothing is left to be committed, or was there to be.
Committed(s) ==
    IF Writer(s) THEN file' = tx[s].copy /\ \A o \in Stores : ~Writer(o)'
    ELSE SameData

\* What a process has before it.
LEMMA Ahead ==
    ASSUME NEW s \in Stores, Program(s)
    PROVE  /\ todo[s] \in Seq(Statements) /\ Len(todo[s]) \in Nat
           /\ DOMAIN todo[s] = 1..Len(todo[s])
           /\ \A i \in DOMAIN todo[s] : todo[s][i] \in Statements
           /\ todo[s] # <<>> <=> 1 <= Len(todo[s])
           /\ todo[s] # <<>> => Now(s) = todo[s][1] /\ Now(s) \in Statements /\ 1 \in DOMAIN todo[s]
<1>1. todo[s] \in Seq(Statements)
  BY DEF Program, Shaped
<1> QED BY <1>1, LenProperties, ElementOfSeq, EmptySeq DEF Now

\* The number of a call.
LEMMA NewIds ==
    ASSUME Types, NEW s \in Stores, calls[s] > 0
    PROVE  NewId(s) \in Ids /\ NewId(s).by = s /\ NewId(s).n = calls[s]
<1>1. calls[s] \in Nat /\ calls[s] <= MaxCalls[s] /\ MaxCalls[s] \in Nat
  BY StoreAssumption DEF Types
<1>2. calls[s] \in 1..MaxCalls[s]
  BY <1>1
<1> QED BY <1>2 DEF NewId, Ids

\* Doing statements.
LEMMA Moves ==
    ASSUME Types, NEW s \in Stores, Program(s), NEW k \in Nat, k + 1 <= Len(todo[s]),
           Continue(s, k)
    PROVE  Moved(s, k) /\ failed' = failed /\ torn' = torn /\ TornGrows
<1> DEFINE q == todo[s]
<1>1. /\ todo' = [todo EXCEPT ![s] = SubSeq(q, 2 + k, Len(q))] /\ failed' = failed
      /\ todo = [o \in Stores |-> todo[o]] /\ torn' = torn /\ TornGrows
  BY DEF Continue, Types, TornGrows
<1>2. todo'[s] = SubSeq(q, (k + 1) + 1, Len(q)) /\ \A o \in Stores \ {s} : todo'[o] = todo[o]
  <2>1. 2 + k = (k + 1) + 1
    OBVIOUS
  <2> QED BY <1>1, <2>1
<1>3. todo' = [o \in Stores |-> todo'[o]]
  BY <1>1
<1>4. k + 1 \in 0..Len(q) /\ Len(q) \in Nat /\ Shaped(q)
  BY Ahead DEF Program
<1>5. /\ Shaped(todo'[s]) /\ Len(todo'[s]) = Len(q) - (k + 1)
      /\ DOMAIN todo'[s] = 1..(Len(q) - (k + 1)) /\ DOMAIN q = 1..Len(q)
      /\ \A i \in 1..(Len(q) - (k + 1)) :
            todo'[s][i] = q[i + (k + 1)] /\ i + (k + 1) \in DOMAIN q
  BY <1>2, <1>4, Rest
<1> HIDE DEF q
<1>6. Opening(q) => Opening(todo'[s])
  <2> SUFFICES ASSUME Opening(q), NEW i \in DOMAIN todo'[s]
               PROVE  \/ todo'[s][i] \in {AskColumns, Commit} \cup {Column(c) : c \in Columns}
                      \/ todo'[s][i] = Answer("store") /\ i = Len(todo'[s])
    BY DEF Opening
  <2>1. i \in 1..(Len(q) - (k + 1))
    BY <1>5
  <2>2. i + (k + 1) = Len(q) => i = Len(q) - (k + 1)
    BY <2>1, <1>4
  <2> QED BY <2>1, <2>2, <1>5 DEF Opening
<1>7. Working(q) => Working(todo'[s])
  BY <1>5 DEF Working
<1> QED BY <1>1, <1>2, <1>3, <1>5, <1>6, <1>7 DEF Moved, q

\* The empty program.
LEMMA Nothings == Shaped(<<>>) /\ Begins(<<>>) /\ Opening(<<>>) /\ Working(<<>>)
<1>1. <<>> \in Seq(Statements) /\ DOMAIN <<>> = {} /\ Len(<<>>) = 0
  OBVIOUS
<1> QED BY <1>1 DEF Shaped, Begins, Opening, Working

\* A change is made by a process that has the store.
LEMMA Changing ==
    ASSUME Types, NEW s \in Stores, Program(s), todo[s] # <<>>, Now(s).is = "change"
    PROVE  s \in opened /\ calls[s] > 0 /\ NewId(s) \in Ids
<1>1. Now(s) = todo[s][1] /\ 1 \in DOMAIN todo[s]
  BY Ahead
<1>2. ~Opening(todo[s])
  BY <1>1 DEF Opening, AskColumns, Ask, Commit, Column, Answer, Statement
<1>3. s \in opened /\ calls[s] > 0
  BY <1>2 DEF Program
<1> QED BY <1>3, NewIds

\* Chunks are inserted by changes.
LEMMA ChunksAreChanges ==
    ASSUME NEW x \in Statements, x.sql = "insert_chunk"
    PROVE  x.is = "change"
BY Kinds, QueryKinds DEF Statements, Commit, WriteFile, Column, Answer, Statement

\* Giving up.
LEMMA Raises ==
    ASSUME Types, NEW s \in Stores, Program(s), todo[s] # <<>>, Raise(s)
    PROVE  /\ Given(s, <<>>) /\ failed' = failed \cup {s}
           /\ Now(s).sql = "insert_chunk" => torn' = torn \cup {NewId(s)}
           /\ TornGrows
<1>1. todo = [o \in Stores |-> todo[o]] /\ torn \subseteq Ids
  BY DEF Types
<1>2. Now(s).sql = "insert_chunk" => NewId(s) \in Ids
  BY Ahead, ChunksAreChanges, Changing
<1> QED BY <1>1, <1>2, Nothings DEF Raise, Given, TornGrows

\* What a connection reads are tables.
LEMMA Views ==
    ASSUME Types, OneWriter, NEW s \in Stores
    PROVE  /\ View(s) \in Tables
           /\ Writer(s) => tx[s].copy \in Tables /\ View(s) = tx[s].copy
           /\ ~Writer(s) => View(s) = file
BY DEF Types, OneWriter, View

\* The way on from a query.
LEMMA QueryMoves ==
    ASSUME Types, OneWriter, NEW s \in Stores, Program(s), Query(s)
    PROVE  /\ todo[s] # <<>> /\ Now(s) \in Queries
           /\ SameData
           /\ found' = [o \in Stores |-> found'[o]]
           /\ \A o \in Stores \ {s} : found'[o] = found[o]
           /\ found'[s] \in Matches(s, Now(s))
           /\ evicted' = IF Now(s).sql # "expired" THEN evicted
                         ELSE evicted \cup {r.id : r \in found'[s]}
           /\ \/ /\ Given(s, <<>>) /\ failed' = failed \cup {s}
                 /\ Now(s).when = "none_raises" /\ found'[s] = {}
              \/ /\ Moved(s, 0) /\ failed' = failed
                 /\ Now(s).when = "none_raises" => found'[s] # {}
                 /\ Now(s).when = "none" => found'[s] # {}
                 /\ Now(s).when = "found" => found'[s] = {}
              \/ /\ Moved(s, Now(s).skip) /\ failed' = failed /\ Now(s).skip > 0
                 /\ Now(s).when = "none" => found'[s] = {}
                 /\ Now(s).when = "found" => found'[s] # {}
           /\ TornGrows /\ UNCHANGED <<calls, opened, profiles, used, stops, told>>
<1>1. /\ todo[s] # <<>> /\ Head(todo[s]) = Now(s) /\ Now(s).is = "query" /\ Reads(s)
      /\ UNCHANGED <<calls, opened, profiles, used, stops, told>>
  BY DEF Query, Ready, Now
<1>2. PICK rows \in Matches(s, Now(s)) : Finds(s, rows)
  BY DEF Query
<1>3. Now(s) \in Queries /\ Now(s) \in Statements /\ Now(s).skip \in Nat
  BY <1>1, Ahead, Kinds
<1>4. SameData
  BY <1>1 DEF Reads, SameData, Writer, Types
<1>5. /\ found' = [o \in Stores |-> found'[o]] /\ found'[s] = rows
      /\ \A o \in Stores \ {s} : found'[o] = found[o]
  BY <1>2 DEF Finds, Types
<1>6. evicted' = IF Now(s).sql # "expired" THEN evicted ELSE evicted \cup {r.id : r \in rows}
  BY <1>2 DEF Finds
<1>7. Now(s).skip + 1 <= Len(todo[s]) /\ 0 + 1 <= Len(todo[s])
  <2>1. 1 + Span(Now(s)) <= Len(todo[s])
    BY <1>1, Ahead DEF Program, Shaped
  <2>2. Span(Now(s)) = Now(s).skip
    BY <1>1 DEF Span
  <2> QED BY <2>1, <2>2, <1>1, <1>3, Ahead
<1>8. CASE rows = {} /\ Now(s).when = "none_raises"
  BY <1>1, <1>2, <1>3, <1>4, <1>5, <1>6, <1>8, Raises DEF Finds
<1>9. CASE ~(rows = {} /\ Now(s).when = "none_raises")
  <2>1. CASE Now(s).when = (IF rows = {} THEN "none" ELSE "found") /\ Now(s).skip > 0
    <3>1. Continue(s, Now(s).skip)
      BY <1>2, <1>9, <2>1 DEF Finds
    <3>2. Moved(s, Now(s).skip) /\ failed' = failed /\ TornGrows
      BY <3>1, <1>3, <1>7, Moves
    <3>3. (Now(s).when = "none" => rows = {}) /\ (Now(s).when = "found" => rows # {})
      BY <2>1
    <3> QED BY <1>1, <1>3, <1>4, <1>5, <1>6, <2>1, <3>2, <3>3
  <2>2. CASE ~(Now(s).when = (IF rows = {} THEN "none" ELSE "found") /\ Now(s).skip > 0)
    <3>1. Continue(s, 0)
      BY <1>2, <1>3, <1>9, <2>2 DEF Finds
    <3>2. Moved(s, 0) /\ failed' = failed /\ TornGrows
      BY <3>1, <1>3, <1>7, Moves
    <3>3. Now(s).when \in {"none", "found"} => Now(s).skip > 0
      BY <1>3, QueryKinds DEF AskSession, AskToFinish, AskProfile, Ask
    <3>4. /\ Now(s).when = "none_raises" => rows # {}
          /\ Now(s).when = "none" => rows # {}
          /\ Now(s).when = "found" => rows = {}
      BY <2>2, <3>3, <1>9
    <3> QED BY <1>1, <1>3, <1>4, <1>5, <1>6, <3>2, <3>4
  <2> QED BY <2>1, <2>2
<1> QED BY <1>8, <1>9

\* A skip ends after a statement that nothing found depends on.
LEMMA Landing ==
    ASSUME NEW s \in Stores, Program(s), todo[s] # <<>>, Now(s) \in Queries, Now(s).skip > 0,
           Moved(s, Now(s).skip)
    PROVE  /\ Now(s).skip + 1 \in DOMAIN todo[s] /\ Now(s).skip \in {1, 2, 3, 5}
           /\ todo[s][Now(s).skip + 1] = IF Now(s).sql = "id" THEN Read
                                         ELSE IF Now(s).sql = "profile" THEN WriteFile(Now(s).key)
                                         ELSE Commit
           /\ Now(s).sql \notin {"digest", "profile"} => Begins(todo'[s])
<1> DEFINE q == todo[s]
           k == Now(s).skip
<1>1. /\ q \in Seq(Statements) /\ Len(q) \in Nat /\ DOMAIN q = 1..Len(q) /\ Now(s) = q[1]
      /\ 1 \in DOMAIN q /\ Shaped(q)
  BY Ahead DEF Program
<1>2. k \in {1, 2, 3, 5} /\ Now(s).is = "query" /\ k \in Nat
  BY QueryKinds DEF AskSession, AskToFinish, AskProfile, Ask
<1>3. k + 1 <= Len(q)
  BY DEF Moved
<1>a. \A i \in 1..(Len(q) - (k + 1)) : todo'[s][i] = q[i + (k + 1)] /\ i + (k + 1) \in DOMAIN q
  BY DEF Moved
<1>b. DOMAIN todo'[s] = 1..(Len(q) - (k + 1))
  BY DEF Moved
<1>c. Now(s).skip = k /\ todo[s] = q
  OBVIOUS
<1> HIDE DEF q, k
<1>4. k + 1 \in DOMAIN q /\ 1 < k + 1 /\ k + 1 - 1 = k
  BY <1>1, <1>2, <1>3
<1>5. After(q[1], k, q[k + 1])
  <2>1. After(q[1], k + 1 - 1, q[k + 1])
    BY <1>1, <1>2, <1>4 DEF Shaped
  <2> QED BY <2>1, <1>4
<1>6. q[k + 1] = IF Now(s).sql = "id" THEN Read
                 ELSE IF Now(s).sql = "profile" THEN WriteFile(Now(s).key) ELSE Commit
  BY <1>1, <1>2, <1>5, <1>c DEF After
<1>7. ASSUME Now(s).sql \notin {"digest", "profile"}, NEW i \in DOMAIN todo'[s]
      PROVE  i > Reach(todo'[s][i])
  <2>1. /\ i \in 1..(Len(q) - (k + 1)) /\ todo'[s][i] = q[i + (k + 1)] /\ i + (k + 1) \in DOMAIN q
    BY <1>a, <1>b
  <2>2. PICK j \in DOMAIN q : j = i + (k + 1)
    BY <2>1
  <2>3. 1 < j /\ j - 1 > k /\ j - 1 - k = i /\ todo'[s][i] = q[j]
    BY <2>1, <2>2, <1>1, <1>2
  <2>4. Independent(q[1], j - 1, q[j])
    BY <2>3, <1>1 DEF Shaped
  <2>5. q[1].skip > 0 /\ q[1].sql \notin {"digest", "profile"} /\ q[1].skip = k
    BY <1>1, <1>2, <1>c, <1>7
  <2>6. j - 1 - k > Reach(q[j])
    BY <2>3, <2>4, <2>5 DEF Independent
  <2> QED BY <2>3, <2>6
<1> QED BY <1>2, <1>4, <1>6, <1>7, <1>c DEF Begins

\* A change, or one that fails.
LEMMA ChangeMoves ==
    ASSUME Types, OneWriter, NEW s \in Stores, Program(s), Change(s)
    PROVE  /\ todo[s] # <<>> /\ Now(s) \in Changers
           /\ \/ /\ Allowed(View(s), Now(s)) /\ ChangedTo(s, Changed(s, View(s), Now(s)))
                 /\ Moved(s, 0) /\ failed' = failed /\ torn' = torn
              \/ /\ ChangedTo(s, View(s)) /\ Given(s, <<>>) /\ failed' = failed \cup {s}
                 /\ Now(s).sql = "insert_chunk" => torn' = torn \cup {NewId(s)}
           /\ TornGrows
           /\ UNCHANGED <<found, calls, opened, profiles, used, stops, told, evicted>>
<1>1. /\ todo[s] # <<>> /\ Head(todo[s]) = Now(s) /\ Now(s).is = "change" /\ CanChange(s)
      /\ UNCHANGED <<found, calls, opened, profiles, used, stops, told, evicted>>
  BY DEF Change, Ready, Now
<1>2. Now(s) \in Changers /\ 0 + 1 <= Len(todo[s])
  BY <1>1, Ahead, Kinds
<1>3. \A db : Changes(s, db) => ChangedTo(s, db)
  BY <1>1 DEF Changes, ChangedTo, CanChange, Writer, Types
<1>4. CASE /\ Allowed(View(s), Now(s)) /\ Continue(s, 0)
           /\ Changes(s, Changed(s, View(s), Now(s)))
  BY <1>1, <1>2, <1>3, <1>4, Moves
<1>5. CASE Changes(s, View(s)) /\ Raise(s)
  BY <1>1, <1>2, <1>3, <1>5, Raises
<1> QED BY <1>4, <1>5 DEF Change

\* A commit.
LEMMA CommitMoves ==
    ASSUME Types, OneWriter, NEW s \in Stores, Program(s), CommitWork(s)
    PROVE  /\ todo[s] # <<>> /\ Now(s) = Commit
           /\ Committed(s) /\ Moved(s, 0) /\ failed' = failed /\ TornGrows
           /\ UNCHANGED <<found, calls, opened, profiles, used, stops, told, evicted>>
<1>1. /\ todo[s] # <<>> /\ Head(todo[s]) = Now(s) /\ Now(s).is = "commit" /\ Commits(s)
      /\ Continue(s, 0)
      /\ UNCHANGED <<found, calls, opened, profiles, used, stops, told, evicted>>
  BY DEF CommitWork, Ready, Now
<1>2. Now(s) = Commit /\ 0 + 1 <= Len(todo[s])
  BY <1>1, Ahead, Kinds
<1>3. /\ file' = View(s) /\ tx'[s] = NoTx /\ \A o \in Stores \ {s} : tx'[o] = tx[o]
  BY <1>1 DEF Commits, Types
<1>4. ~Writer(s)' /\ \A o \in Stores \ {s} : Writer(o)' <=> Writer(o)
  BY <1>3 DEF Writer, NoTx
<1>5. Committed(s)
  <2>1. CASE Writer(s)
    BY <1>3, <1>4, <2>1 DEF Committed, View, OneWriter
  <2>2. CASE ~Writer(s)
    BY <1>3, <1>4, <2>2 DEF Committed, View, SameData
  <2> QED BY <2>1, <2>2
<1> QED BY <1>1, <1>2, <1>5, Moves

\* A column is there, or is added, or was added by somebody else.
LEMMA ColumnMoves ==
    ASSUME Types, OneWriter, NEW s \in Stores, Program(s), AddColumn(s)
    PROVE  /\ todo[s] # <<>> /\ s \notin opened
           /\ \E c \in Columns :
                 /\ Now(s) = Column(c)
                 /\ \/ c \in found[s] /\ file' = file /\ Moved(s, 0) /\ failed' = failed
                    \/ /\ c \notin found[s] /\ file' = [file EXCEPT !.columns = @ \cup {c}]
                       /\ \A o \in Stores : ~Writer(o)
                       /\ \/ Moved(s, 0) /\ failed' = failed
                          \/ Given(s, <<>>) /\ failed' = failed \cup {s}
           /\ tx' = tx /\ TornGrows
           /\ UNCHANGED <<found, calls, opened, profiles, used, stops, told, evicted>>
<1>1. /\ todo[s] # <<>> /\ Head(todo[s]) = Now(s) /\ Now(s).is = "define"
      /\ UNCHANGED <<found, calls, opened, profiles, used, stops, told, evicted>>
  BY DEF AddColumn, Ready, Now
<1>2. PICK c \in Columns : Now(s) = Column(c)
  BY <1>1, Ahead, Kinds
<1>3. 0 + 1 <= Len(todo[s])
  BY <1>1, Ahead
<1>4. Now(s).key = c /\ Now(s).sql = "add_column"
  BY <1>2 DEF Column, Statement
<1>5. s \notin opened
  BY <1>1, <1>4, Ahead DEF Program, Working
<1>6. CASE c \in found[s]
  <2>1. Continue(s, 0) /\ UNCHANGED sqlVars
    BY <1>4, <1>6 DEF AddColumn
  <2>2. Moved(s, 0) /\ failed' = failed /\ TornGrows
    BY <2>1, <1>3, Moves
  <2> QED BY <1>1, <1>2, <1>5, <1>6, <2>1, <2>2 DEF sqlVars
<1>7. CASE c \notin found[s]
  <2>1. /\ CanDefine(s) /\ Defines(s, Changed(s, file, Now(s)))
        /\ Continue(s, 0) \/ Raise(s)
    BY <1>4, <1>7 DEF AddColumn
  <2>2. tx' = tx /\ file' = [file EXCEPT !.columns = @ \cup {c}]
    BY <2>1, <1>4 DEF Defines, Changed
  <2>3. \A o \in Stores : ~Writer(o)
    <3>1. tx[s] = NoTx
      BY <1>5 DEF OneWriter
    <3> QED BY <3>1, <2>1 DEF CanDefine, CanChange, Writer, NoTx
  <2>4. /\ \/ Moved(s, 0) /\ failed' = failed
           \/ Given(s, <<>>) /\ failed' = failed \cup {s}
        /\ TornGrows
    BY <1>1, <2>1, <1>3, Moves, Raises
  <2> QED BY <1>1, <1>2, <1>5, <1>7, <2>2, <2>3, <2>4
<1> QED BY <1>6, <1>7

\* A profile is written.
LEMMA ProfileMoves ==
    ASSUME Types, NEW s \in Stores, Program(s), WriteProfile(s)
    PROVE  /\ todo[s] # <<>>
           /\ \E p \in Projects : Now(s) = WriteFile(p) /\ profiles' = profiles \cup {p}
           /\ Moved(s, 0) /\ failed' = failed /\ TornGrows
           /\ UNCHANGED <<sqlVars, found, calls, opened, used, stops, told, evicted>>
<1>1. /\ todo[s] # <<>> /\ Head(todo[s]) = Now(s) /\ Now(s).is = "file"
      /\ Continue(s, 0) /\ profiles' = profiles \cup {Now(s).key}
      /\ UNCHANGED <<sqlVars, found, calls, opened, used, stops, told, evicted>>
  BY DEF WriteProfile, Ready, Now
<1>2. PICK p \in Projects : Now(s) = WriteFile(p)
  BY <1>1, Ahead, Kinds
<1>3. Now(s).key = p
  BY <1>2 DEF WriteFile, Statement
<1>4. 0 + 1 <= Len(todo[s])
  BY <1>1, Ahead
<1> QED BY <1>1, <1>2, <1>3, <1>4, Moves

\* An answer.
LEMMA ReturnMoves ==
    ASSUME Types, NEW s \in Stores, Program(s), Return(s)
    PROVE  /\ todo[s] # <<>> /\ Moved(s, 0) /\ failed' = failed /\ TornGrows
           /\ \/ /\ Now(s) = Answer("store") /\ s \notin opened
                 /\ opened' = opened \cup {s} /\ told' = told /\ todo'[s] = <<>>
              \/ /\ Now(s) = Answer("memory") /\ s \in opened /\ opened' = opened
                 /\ told' = told \cup {[store |-> s, sound |-> s \notin failed, id |-> i] :
                        i \in IF found[s] = {} THEN {NewId(s)} ELSE {r.id : r \in found[s]}}
           /\ UNCHANGED <<sqlVars, found, calls, profiles, used, stops, evicted>>
<1>1. /\ todo[s] # <<>> /\ Head(todo[s]) = Now(s) /\ Now(s).is = "answer"
      /\ Continue(s, 0)
      /\ UNCHANGED <<sqlVars, found, calls, profiles, used, stops, evicted>>
  BY DEF Return, Ready, Now
<1>2. Now(s) = Answer("memory") \/ Now(s) = Answer("store")
  BY <1>1, Ahead, Kinds
<1>3. 0 + 1 <= Len(todo[s])
  BY <1>1, Ahead
<1>4. Moved(s, 0) /\ failed' = failed /\ TornGrows
  BY <1>1, <1>3, Moves
<1>5. CASE Now(s) = Answer("store")
  <2>1. opened' = opened \cup {s} /\ told' = told
    BY <1>5 DEF Return, Answer, Statement
  <2>2. s \notin opened
    BY <1>1, <1>5, Ahead DEF Program, Working, Answer, Statement
  <2>3. Len(todo[s]) = 1
    <3>1. Opening(todo[s]) /\ 1 \in DOMAIN todo[s] /\ todo[s][1] = Answer("store")
      BY <1>1, <1>5, <2>2, Ahead DEF Program
    <3>2. Answer("store") \notin {AskColumns, Commit} \cup {Column(c) : c \in Columns}
      BY DEF Answer, AskColumns, Commit, Column, Ask, Statement
    <3> QED BY <3>1, <3>2 DEF Opening
  <2>4. todo'[s] = <<>>
    <3>1. Len(todo'[s]) = 0 /\ todo'[s] \in Seq(Statements)
      BY <2>3, <1>4 DEF Moved, Shaped
    <3> QED BY <3>1, EmptySeq
  <2> QED BY <1>1, <1>4, <1>5, <2>1, <2>2, <2>4
<1>6. CASE Now(s) = Answer("memory")
  <2>1. /\ opened' = opened
        /\ told' = told \cup {[store |-> s, sound |-> s \notin failed, id |-> i] :
                        i \in IF found[s] = {} THEN {NewId(s)} ELSE {r.id : r \in found[s]}}
    BY <1>6 DEF Return, Answer, Statement
  <2>2. s \in opened
    <3>1. 1 \in DOMAIN todo[s] /\ todo[s][1] = Answer("memory")
      BY <1>1, <1>6, Ahead
    <3> QED BY <3>1 DEF Program, Opening, Answer, AskColumns, Commit, Column, Ask, Statement
  <2> QED BY <1>1, <1>4, <1>6, <2>1, <2>2
<1> QED BY <1>2, <1>5, <1>6

\* A statement waits too long.
LEMMA TimesOutMoves ==
    ASSUME Types, OneWriter, NEW s \in Stores, Program(s), TimesOut(s)
    PROVE  /\ todo[s] # <<>> /\ Now(s).is \notin {"file", "answer"}
           /\ Now(s).is = "change" => ~Writer(s)
           /\ SameData /\ TornGrows
           /\ \/ Given(s, <<>>) /\ failed' = failed \cup {s}
              \/ Moved(s, 0) /\ failed' = failed /\ Now(s).sql = "match"
           /\ UNCHANGED <<found, calls, opened, profiles, used, stops, told, evicted>>
<1>1. /\ todo[s] # <<>> /\ Head(todo[s]) = Now(s) /\ ~Free(s)
      /\ UNCHANGED <<found, calls, opened, profiles, used, stops, told, evicted>>
  BY DEF TimesOut, Waits, Now
<1>2. Now(s).is \notin {"file", "answer"}
  BY <1>1 DEF Free
<1>3. Now(s).is = "change" => ~Writer(s)
  BY <1>1 DEF Free, CanChange, OneWriter
<1>4. Now(s).is = "commit" => Writer(s)
  BY <1>1 DEF Free, CanCommit
<1>5. SameData
  <2>1. CASE Now(s).is = "change"
    <3>1. ChangeTimesOut(s)
      BY <2>1 DEF TimesOut
    <3> QED BY <3>1 DEF ChangeTimesOut, SameData, Writer, Types
  <2>2. CASE Now(s).is = "commit"
    <3>1. CommitTimesOut(s)
      BY <2>2 DEF TimesOut
    <3> QED BY <3>1, <2>2, <1>4 DEF CommitTimesOut, SameData, Writer, Types
  <2>3. CASE Now(s).is \notin {"change", "commit"}
    BY <2>3 DEF TimesOut, SameData, sqlVars, Writer
  <2> QED BY <2>1, <2>2, <2>3
<1>6. /\ \/ Given(s, <<>>) /\ failed' = failed \cup {s}
         \/ Moved(s, 0) /\ failed' = failed /\ Now(s).sql = "match"
      /\ TornGrows
  <2>1. (Continue(s, 0) /\ Now(s).sql = "match") \/ Raise(s)
    BY DEF TimesOut
  <2>2. 0 + 1 <= Len(todo[s])
    BY <1>1, Ahead
  <2> QED BY <1>1, <2>1, <2>2, Moves, Raises
<1> QED BY <1>1, <1>2, <1>3, <1>5, <1>6

\* A process ends.
LEMMA StopMoves ==
    ASSUME Types, NEW s \in Stores, Stop(s)
    PROVE  /\ stops < MaxStops /\ stops' = stops + 1
           /\ opened' = opened \ {s} /\ Given(s, <<>>)
           /\ found' = [o \in Stores |-> found'[o]] /\ found'[s] = {}
           /\ \A o \in Stores \ {s} : found'[o] = found[o]
           /\ file' = file /\ tx' = [tx EXCEPT ![s] = NoTx]
           /\ ~Writer(s)' /\ \A o \in Stores \ {s} : tx'[o] = tx[o] /\ (Writer(o)' <=> Writer(o))
           /\ UNCHANGED <<calls, profiles, used, failed, torn, told, evicted>>
<1>1. /\ stops < MaxStops /\ stops' = stops + 1 /\ opened' = opened \ {s}
      /\ todo' = [todo EXCEPT ![s] = <<>>] /\ found' = [found EXCEPT ![s] = {}]
      /\ file' = file /\ tx' = [tx EXCEPT ![s] = NoTx]
      /\ UNCHANGED <<calls, profiles, used, failed, torn, told, evicted>>
  BY DEF Stop, Closes, history
<1>2. Given(s, <<>>)
  BY <1>1, Nothings DEF Given, Types
<1>3. ~Writer(s)' /\ \A o \in Stores \ {s} : tx'[o] = tx[o] /\ (Writer(o)' <=> Writer(o))
  BY <1>1 DEF Writer, NoTx, Types
<1> QED BY <1>1, <1>2, <1>3 DEF Types

\* The columns in an order.
LEMMA Order ==
    /\ (CHOOSE o \in Orders : TRUE) \in Seq(Columns)
    /\ \A c \in Columns : \E i \in DOMAIN (CHOOSE o \in Orders : TRUE) :
          (CHOOSE o \in Orders : TRUE)[i] = c
<1> DEFINE n == Cardinality(Columns)
<1>1. IsFiniteSet(Columns)
  BY StoreAssumption
<1>2. n \in Nat /\ ExistsBijection(1..n, Columns)
  BY <1>1, FS_CardinalityType
<1>3. IsFiniteSet(1..n) /\ Cardinality(1..n) = n
  <2>1. IsFiniteSet(1..n) /\ Cardinality(1..n) = IF 1 > n THEN 0 ELSE n - 1 + 1
    BY <1>2, FS_Interval
  <2> QED BY <2>1, <1>2
<1>4. Orders = {o \in [1..n -> Columns] : \A i, j \in DOMAIN o : i # j => o[i] # o[j]}
  BY DEF Orders
<1> HIDE DEF n
<1>5. Orders # {}
  <2>1. PICK o : o \in Bijection(1..n, Columns)
    BY <1>2 DEF ExistsBijection
  <2>2. o \in [1..n -> Columns] /\ \A i, j \in DOMAIN o : i # j => o[i] # o[j]
    BY <2>1 DEF Bijection, Injection, IsInjective
  <2> QED BY <2>2, <1>4
<1>6. PICK o \in Orders : o = CHOOSE p \in Orders : TRUE
  BY <1>5
<1>7. o \in Injection(1..n, Columns)
  BY <1>4, <1>6 DEF Injection, IsInjective
<1>8. o \in Surjection(1..n, Columns)
  BY <1>7, <1>1, <1>3, FS_Injection DEF n
<1>9. o \in [1..n -> Columns] /\ \A c \in Columns : \E i \in DOMAIN o : o[i] = c
  BY <1>8 DEF Surjection
<1>10. o \in Seq(Columns)
  BY <1>9, <1>2, SeqDef
<1> QED BY <1>6, <1>9, <1>10

\* A store is opened.
LEMMA OpenMoves ==
    ASSUME Types, NEW s \in Stores, Open(s)
    PROVE  /\ s \notin opened /\ todo[s] = <<>>
           /\ Given(s, todo'[s]) /\ Opening(todo'[s]) /\ todo'[s] # <<>> /\ Now(s)' = AskColumns
           /\ \A c \in Columns : \E i \in DOMAIN todo'[s] : todo'[s][i] = Column(c)
           /\ failed' = failed \ {s}
           /\ UNCHANGED <<sqlVars, found, calls, opened, profiles, used, stops, torn, told,
                          evicted>>
<1> DEFINE cs == CHOOSE o \in Orders : TRUE
<1>1. /\ s \notin opened /\ todo[s] = <<>>
      /\ todo' = [todo EXCEPT ![s] = MigrateSchema(cs)] /\ failed' = failed \ {s}
      /\ UNCHANGED <<sqlVars, found, calls, opened, profiles, used, stops, torn, told, evicted>>
  BY DEF Open
<1>2. cs \in Seq(Columns) /\ \A c \in Columns : \E i \in DOMAIN cs : cs[i] = c
  BY Order
<1> HIDE DEF cs
<1>3. /\ todo'[s] = MigrateSchema(cs) /\ \A o \in Stores \ {s} : todo'[o] = todo[o]
      /\ todo' = [o \in Stores |-> todo'[o]]
  BY <1>1 DEF Types
<1>4. Given(s, todo'[s]) /\ Opening(todo'[s]) /\ todo'[s] # <<>> /\ Head(todo'[s]) = AskColumns
  BY <1>2, <1>3, Migrates DEF Given
<1>5. \A c \in Columns : \E i \in DOMAIN todo'[s] : todo'[s][i] = Column(c)
  BY <1>2, <1>3, Migrates
<1> QED BY <1>1, <1>4, <1>5 DEF Now

\* A tool is called.
LEMMA DispatchMoves ==
    ASSUME Types, NEW s \in Stores, Dispatch(s)
    PROVE  /\ s \in opened /\ todo[s] = <<>>
           /\ Given(s, todo'[s]) /\ Working(todo'[s])
           /\ calls[s] < MaxCalls[s] /\ calls' = [calls EXCEPT ![s] = @ + 1]
           /\ found' = [o \in Stores |-> found'[o]] /\ found'[s] = {}
           /\ \A o \in Stores \ {s} : found'[o] = found[o]
           /\ UNCHANGED <<sqlVars, opened, profiles, used, stops, failed, torn, told, evicted>>
<1>1. /\ s \in opened /\ todo[s] = <<>>
      /\ calls[s] < MaxCalls[s] /\ calls' = [calls EXCEPT ![s] = @ + 1]
      /\ found' = [found EXCEPT ![s] = {}]
      /\ UNCHANGED <<sqlVars, opened, profiles, used, stops, failed, torn, told, evicted>>
  BY DEF Dispatch, history
<1>a. PICK tool \in used : \E q \in Operations(tool) : todo' = [todo EXCEPT ![s] = q]
  BY DEF Dispatch
<1>2. PICK q \in Operations(tool) : todo' = [todo EXCEPT ![s] = q]
  BY <1>a
<1>3. tool \in Tools
  BY StoreAssumption DEF Types
<1>4. file.memories \subseteq Memories
  BY DEF Types, Tables
<1>5. Shaped(q) /\ Begins(q) /\ Working(q)
  BY <1>3, <1>4, Operate
<1>6. /\ todo'[s] = q /\ \A o \in Stores \ {s} : todo'[o] = todo[o]
      /\ todo' = [o \in Stores |-> todo'[o]]
      /\ found' = [o \in Stores |-> found'[o]] /\ found'[s] = {}
      /\ \A o \in Stores \ {s} : found'[o] = found[o]
  BY <1>1, <1>2 DEF Types
<1> QED BY <1>1, <1>5, <1>6 DEF Given

-----------------------------------------------------------------------------
(* Types, locks and programs.                                              *)

\* The next statement after the ones done, and the last of those.
LEMMA NextOne ==
    ASSUME NEW s \in Stores, Program(s), NEW k \in Nat, Moved(s, k), todo'[s] # <<>>
    PROVE  /\ Now(s)' = todo[s][k + 2] /\ Now(s)' = todo'[s][1] /\ 1 \in DOMAIN todo'[s]
           /\ Now(s)' \in Statements
           /\ k + 1 \in DOMAIN todo[s] /\ k + 2 \in DOMAIN todo[s]
           /\ todo[s][k + 1] \in Statements
           /\ Before(Now(s)', 1, todo[s][k + 1])
           /\ After(todo[s][k + 1], 1, Now(s)')
<1> DEFINE q == todo[s]
           r == todo'[s]
<1>1. /\ Len(q) \in Nat /\ DOMAIN q = 1..Len(q) /\ Shaped(q)
      /\ \A i \in DOMAIN q : q[i] \in Statements
  BY Ahead DEF Program
<1>2. /\ r \in Seq(Statements) /\ Len(r) = Len(q) - (k + 1)
      /\ \A i \in 1..(Len(q) - (k + 1)) : r[i] = q[i + (k + 1)]
      /\ DOMAIN r = 1..(Len(q) - (k + 1))
  BY DEF Moved, Shaped
<1>3. Len(r) >= 1 /\ Now(s)' = r[1]
  <2>1. Now(s)' = Head(r)
    BY DEF Now
  <2> QED BY <2>1, <1>2, LenProperties, EmptySeq
<1> HIDE DEF q, r
<1>4. /\ 1 \in 1..(Len(q) - (k + 1)) /\ 1 + (k + 1) = k + 2
      /\ k + 1 \in DOMAIN q /\ k + 2 \in DOMAIN q /\ k + 1 < k + 2 /\ (k + 2) - (k + 1) = 1
  <2>1. PICK n \in Nat : n = Len(q)
    BY <1>1
  <2>2. n - (k + 1) >= 1 /\ k \in Nat
    BY <2>1, <1>2, <1>3
  <2>3. /\ 1 \in 1..(n - (k + 1)) /\ 1 + (k + 1) = k + 2 /\ k + 1 \in 1..n
        /\ k + 2 \in 1..n /\ k + 1 < k + 2 /\ (k + 2) - (k + 1) = 1
    BY <2>2
  <2> QED BY <2>1, <2>3, <1>1
<1>5. r[1] = q[k + 2]
  BY <1>2, <1>4
<1>6. /\ Before(q[k + 2], (k + 2) - (k + 1), q[k + 1])
      /\ After(q[k + 1], (k + 2) - (k + 1), q[k + 2])
  BY <1>1, <1>4 DEF Shaped
<1>7. Before(q[k + 2], 1, q[k + 1]) /\ After(q[k + 1], 1, q[k + 2])
  BY <1>4, <1>6
<1> QED BY <1>1, <1>2, <1>3, <1>4, <1>5, <1>7 DEF q, r

\* The statement that a query with k = 0 has after it is the next one.
LEMMA FirstOne ==
    ASSUME NEW s \in Stores, Program(s), Moved(s, 0), todo'[s] # <<>>
    PROVE  /\ todo[s] # <<>> /\ Now(s) \in Statements /\ Now(s)' \in Statements
           /\ Before(Now(s)', 1, Now(s)) /\ After(Now(s), 1, Now(s)')
<1>1. 0 + 1 \in DOMAIN todo[s] /\ todo[s][0 + 1] = todo[s][1]
  BY NextOne
<1>2. todo[s] # <<>> /\ Now(s) = todo[s][1] /\ Now(s) \in Statements
  BY <1>1, Ahead
<1>3. /\ Before(Now(s)', 1, todo[s][0 + 1]) /\ After(todo[s][0 + 1], 1, Now(s)')
      /\ Now(s)' \in Statements
  BY NextOne
<1> QED BY <1>1, <1>2, <1>3

\* Where a program begins, there is no statement that depends on one before.
LEMMA FreshHead ==
    ASSUME NEW q \in Seq(Statements), Begins(q), q # <<>>
    PROVE  Head(q) = q[1] /\ 1 \in DOMAIN q /\ Reach(q[1]) = 0 /\ q[1] \in Statements
<1>1. /\ Head(q) = q[1] /\ 1 \in DOMAIN q /\ q[1] \in Statements
  BY LenProperties, EmptySeq, ElementOfSeq
<1>2. Reach(q[1]) \in Nat /\ 1 > Reach(q[1])
  BY <1>1, Distances DEF Begins
<1> QED BY <1>1, <1>2

\* A process that does nothing.
LEMMA SameProgram ==
    ASSUME NEW s \in Stores, Program(s), todo'[s] = todo[s], found'[s] = found[s],
           calls'[s] = calls[s], s \in opened' <=> s \in opened
    PROVE  Program(s)'
BY DEF Program, Now

\* A process that has done statements.
LEMMA NextProgram ==
    ASSUME NEW s \in Stores, Program(s), NEW k \in Nat, Moved(s, k),
           calls'[s] = calls[s], opened' = opened,
           todo'[s] # <<>> /\ Now(s)'.sql = "update_memory" =>
               found'[s] # {} /\ found'[s] \subseteq Memories
    PROVE  Program(s)'
<1>1. /\ s \notin opened => Opening(todo'[s])
      /\ s \in opened => Working(todo'[s])
      /\ s \in opened => calls[s] > 0
  <2>1. todo[s] # <<>>
    BY Ahead DEF Moved
  <2> QED BY <2>1 DEF Moved, Program
<1>2. Shaped(todo'[s])
  BY DEF Moved
<1> QED BY <1>1, <1>2 DEF Program, Now

\* A process that begins a program, or ends one.
LEMMA NewProgram ==
    ASSUME NEW s \in Stores, NEW q, Given(s, q), s \notin opened' => Opening(q),
           s \in opened' => Working(q) /\ (q # <<>> => calls'[s] > 0)
    PROVE  Program(s)'
<1>1. todo'[s] = q /\ Shaped(q) /\ Begins(q)
  BY DEF Given
<1>2. q # <<>> => Head(q).sql # "update_memory"
  BY <1>1, FreshHead DEF Shaped, Reach, Tells, Answer, Statement
<1> QED BY <1>1, <1>2 DEF Program, Now

\* What a change makes of the tables.
LEMMA ChangedTables ==
    ASSUME NEW db \in Tables, NEW a \in Changers, NEW s \in Stores, NewId(s) \in Ids,
           a.sql = "update_memory" => found[s] # {} /\ found[s] \subseteq Memories
    PROVE  Changed(s, db, a) \in Tables
<1>1. CASE a.sql = "insert_memory"
  BY <1>1, ChangeKinds DEF Changed, Tables, Memories
<1>2. CASE a.sql = "update_memory"
  <2>1. (CHOOSE r \in found[s] : TRUE) \in Memories
    BY <1>2
  <2>2. \A m \in db.memories : Weighted(s, m, a) \in Memories
    <3>1. db.memories \subseteq Memories
      BY DEF Tables
    <3>2. a.key.expires \in Expiries
      BY <1>2, ChangeKinds
    <3> QED BY <2>1, <3>1, <3>2 DEF Weighted, Memories
  <2>3. {Weighted(s, m, a) : m \in db.memories} \subseteq Memories
    BY <2>2
  <2> QED BY <1>2, <2>3 DEF Changed, Tables
<1>3. CASE a.sql = "delete_memories"
  BY <1>3 DEF Changed, Tables
<1>4. CASE a.sql = "insert_session"
  BY <1>4, ChangeKinds DEF Changed, Tables, States
<1>5. CASE a.sql = "update_session"
  BY <1>5, ChangeKinds DEF Changed, Tables
<1>6. CASE a.sql = "insert_event"
  <2>1. Append(db.events, a.key) \in Seq([what : Happenings, key : Runs \cup Projects])
    BY <1>6, ChangeKinds, AppendProperties DEF Tables
  <2> QED BY <1>6, <2>1 DEF Changed, Tables
<1>7. CASE a.sql = "upsert"
  BY <1>7, ChangeKinds DEF Changed, Tables
<1>8. CASE a.sql = "insert_document"
  BY <1>8 DEF Changed, Tables
<1>9. CASE a.sql = "insert_chunk"
  <2>1. <<NewId(s), a.key>> \in Ids \X (1..Chunks)
    BY <1>9, ChangeKinds
  <2>2. db.chunks \cup {<<NewId(s), a.key>>} \subseteq Ids \X (1..Chunks)
    BY <2>1 DEF Tables
  <2>3. Changed(s, db, a) = [db EXCEPT !.chunks = db.chunks \cup {<<NewId(s), a.key>>}]
    BY <1>9 DEF Changed
  <2> HIDE DEF Changed
  <2> QED BY <2>2, <2>3 DEF Tables
<1>10. CASE a.sql = "touch"
  BY <1>10 DEF Changed
<1> QED BY <1>1, <1>2, <1>3, <1>4, <1>5, <1>6, <1>7, <1>8, <1>9, <1>10, ChangeKinds

\* What a query selects among the memories.
LEMMA SelectedMemories ==
    ASSUME Types, OneWriter, NEW s \in Stores, Now(s).sql \in {"digest", "id", "expired"}
    PROVE  \A rows \in Matches(s, Now(s)) :
               rows \subseteq View(s).memories /\ rows \subseteq Memories
<1>1. View(s).memories \subseteq Memories
  BY Views DEF Tables
<1> QED BY <1>1 DEF Matches, Selected


\* The file and the transactions.
LEMMA Transactions ==
    ASSUME Types, OneWriter, NEW s \in Stores,
           \/ Reads(s) \/ Commits(s) \/ Closes(s) \/ ChangeTimesOut(s) \/ UNCHANGED sqlVars
           \/ CommitTimesOut(s) /\ Writer(s)
           \/ CanChange(s) /\ \E db \in Tables : Changes(s, db)
           \/ \E db \in Tables : Defines(s, db)
    PROVE  /\ file' \in Tables
           /\ tx' \in [Stores -> [open : BOOLEAN, lock : Locks, copy : Tables \cup {NoCopy}]]
           /\ \A o \in Stores : /\ tx'[o].lock # "none" => tx'[o].open
                                /\ tx'[o].copy = NoCopy <=> ~Writer(o)'
           /\ \A a, b \in Stores : Writer(a)' /\ Writer(b)' => a = b
           /\ \A o \in Stores \ {s} : tx'[o] = tx[o]
<1> USE NoCopyAssumption DEF Types, OneWriter
<1>1. CASE Reads(s)
  BY <1>1 DEF Reads, Writer, Locks
<1>2. CASE Commits(s)
  <2>1. View(s) \in Tables
    BY Views
  <2> QED BY <1>2, <2>1 DEF Commits, Writer, Locks, NoTx
<1>3. CASE Closes(s)
  BY <1>3 DEF Closes, Writer, Locks, NoTx
<1>4. CASE ChangeTimesOut(s)
  <2>1. /\ file' = file /\ tx'[s] = [tx[s] EXCEPT !.open = TRUE]
        /\ \A o \in Stores \ {s} : tx'[o] = tx[o]
        /\ tx' \in [Stores -> [open : BOOLEAN, lock : Locks, copy : Tables \cup {NoCopy}]]
    BY <1>4 DEF ChangeTimesOut
  <2>2. tx'[s].open = TRUE /\ tx'[s].lock = tx[s].lock /\ tx'[s].copy = tx[s].copy
    BY <2>1
  <2>3. \A o \in Stores : Writer(o)' <=> Writer(o)
    BY <2>1, <2>2 DEF Writer
  <2> QED BY <2>1, <2>2, <2>3
<1>5. CASE UNCHANGED sqlVars
  BY <1>5 DEF sqlVars, Writer
<1>6. CASE CommitTimesOut(s) /\ Writer(s)
  BY <1>6 DEF CommitTimesOut, Writer, Locks
<1>7. CASE CanChange(s) /\ \E db \in Tables : Changes(s, db)
  BY <1>7 DEF CanChange, Changes, Writer, Locks
<1>8. CASE \E db \in Tables : Defines(s, db)
  BY <1>8 DEF Defines, Writer
<1> QED BY <1>1, <1>2, <1>3, <1>4, <1>5, <1>6, <1>7, <1>8

\* All the other processes are as they were.
LEMMA Others ==
    ASSUME Base, NEW s \in Stores, NEW o \in Stores \ {s},
           todo'[o] = todo[o], found'[o] = found[o], calls'[o] = calls[o],
           o \in opened' <=> o \in opened
    PROVE  Program(o)'
<1>1. Program(o)
  BY DEF Base
<1> QED BY <1>1, SameProgram

\* A query leaves types, locks and programs right.
\* Where it skips, it lands on a statement that depends on none of those skipped.
LEMMA QueryBase ==
    ASSUME Base, NEW s \in Stores, Query(s)
    PROVE  Base'
<1>1. Types /\ OneWriter /\ Program(s)
  BY DEF Base
<1>2. /\ todo[s] # <<>> /\ Now(s) \in Queries
      /\ found' = [o \in Stores |-> found'[o]]
      /\ \A o \in Stores \ {s} : found'[o] = found[o]
      /\ found'[s] \in Matches(s, Now(s))
      /\ evicted' = IF Now(s).sql # "expired" THEN evicted
                    ELSE evicted \cup {r.id : r \in found'[s]}
      /\ \/ Given(s, <<>>) /\ failed' = failed \cup {s}
         \/ Moved(s, 0) /\ failed' = failed /\ (Now(s).when = "none" => found'[s] # {})
         \/ Moved(s, Now(s).skip) /\ failed' = failed /\ Now(s).skip > 0
      /\ TornGrows /\ UNCHANGED <<calls, opened, profiles, used, stops, told>>
  BY <1>1, QueryMoves
<1>3. Reads(s)
  BY DEF Query
<1>4. /\ file' \in Tables
      /\ tx' \in [Stores -> [open : BOOLEAN, lock : Locks, copy : Tables \cup {NoCopy}]]
      /\ \A o \in Stores : /\ tx'[o].lock # "none" => tx'[o].open
                           /\ tx'[o].copy = NoCopy <=> ~Writer(o)'
      /\ \A a, b \in Stores : Writer(a)' /\ Writer(b)' => a = b
      /\ \A o \in Stores \ {s} : tx'[o] = tx[o]
  BY <1>1, <1>3, Transactions
<1>5. OneWriter'
  <2>1. ASSUME s \notin opened
        PROVE  tx'[s] = NoTx
    <3>1. tx[s] = NoTx
      BY <1>1, <2>1 DEF OneWriter
    <3>2. tx'[s] = [tx[s] EXCEPT !.lock = "none"]
      BY <1>1, <1>3, <3>1 DEF Reads, Types, NoTx
    <3>3. tx'[s].open = FALSE /\ tx'[s].lock = "none" /\ tx'[s].copy = NoCopy
      BY <3>1, <3>2 DEF NoTx
    <3>4. tx'[s] \in [open : BOOLEAN, lock : Locks, copy : Tables \cup {NoCopy}]
      BY <1>4
    <3> QED BY <3>3, <3>4 DEF NoTx
  <2> QED BY <1>1, <1>2, <1>4, <2>1 DEF OneWriter
<1>6. evicted' \subseteq Ids
  <2>1. Now(s).sql = "expired" => found'[s] \subseteq Memories
    BY <1>1, <1>2, SelectedMemories
  <2> QED BY <1>1, <1>2, <2>1 DEF Types, Memories
<1>7. Types'
  <2>1. todo' = [o \in Stores |-> todo'[o]] /\ failed' \subseteq Stores
    BY <1>1, <1>2 DEF Moved, Given, Types
  <2> QED BY <1>1, <1>2, <1>4, <1>6, <2>1 DEF Types, TornGrows
<1>8. Program(s)'
  <2>1. CASE Given(s, <<>>)
    BY <1>2, <2>1, Nothings, NewProgram
  <2>2. CASE Moved(s, 0) /\ (Now(s).when = "none" => found'[s] # {})
    <3>1. ASSUME todo'[s] # <<>>, Now(s)'.sql = "update_memory"
          PROVE  found'[s] # {} /\ found'[s] \subseteq Memories
      <4>1. Before(Now(s)', 1, Now(s))
        BY <1>1, <2>2, <3>1, FirstOne
      <4>2. Now(s).sql = "id"
        BY <3>1, <4>1 DEF Before
      <4>3. Now(s).when = "none"
        BY <1>2, <4>2, QueryKinds
      <4> QED BY <1>1, <1>2, <2>2, <4>2, <4>3, SelectedMemories
    <3> QED BY <1>1, <1>2, <2>2, <3>1, NextProgram
  <2>3. CASE Moved(s, Now(s).skip) /\ Now(s).skip > 0
    <3>1. ASSUME todo'[s] # <<>>, Now(s)'.sql = "update_memory"
          PROVE  FALSE
      <4>1. /\ Now(s).skip \in Nat
            /\ todo[s][Now(s).skip + 1] = IF Now(s).sql = "id" THEN Read
                                          ELSE IF Now(s).sql = "profile" THEN WriteFile(Now(s).key)
                                          ELSE Commit
        BY <1>1, <1>2, <2>3, Landing, QueryKinds
      <4>2. Before(Now(s)', 1, todo[s][Now(s).skip + 1])
        BY <1>1, <2>3, <3>1, <4>1, NextOne
      <4>3. todo[s][Now(s).skip + 1].sql = "id"
        BY <3>1, <4>2 DEF Before
      <4> QED BY <4>1, <4>3 DEF Read, WriteFile, Commit, Statement
    <3>2. Now(s).skip \in Nat
      BY <1>2, QueryKinds
    <3> QED BY <1>1, <1>2, <2>3, <3>1, <3>2, NextProgram
  <2> QED BY <1>2, <2>1, <2>2, <2>3
<1>9. \A o \in Stores \ {s} : Program(o)'
  <2>1. \A o \in Stores \ {s} : todo'[o] = todo[o]
    BY <1>2 DEF Moved, Given
  <2> QED BY <1>2, <2>1, Others
<1> QED BY <1>5, <1>7, <1>8, <1>9 DEF Base

\* A change makes its process the only one with a copy.
LEMMA ChangeBase ==
    ASSUME Base, NEW s \in Stores, Change(s)
    PROVE  Base'
<1>1. Types /\ OneWriter /\ Program(s)
  BY DEF Base
<1>2. /\ todo[s] # <<>> /\ Now(s) \in Changers
      /\ \/ Moved(s, 0) /\ failed' = failed
         \/ Given(s, <<>>) /\ failed' = failed \cup {s}
      /\ TornGrows /\ UNCHANGED <<found, calls, opened, profiles, used, stops, told, evicted>>
  BY <1>1, ChangeMoves
<1>3. s \in opened /\ calls[s] > 0
  BY <1>1, <1>2, ChangeKinds, Changing
<1>4. /\ file' \in Tables
      /\ tx' \in [Stores -> [open : BOOLEAN, lock : Locks, copy : Tables \cup {NoCopy}]]
      /\ \A o \in Stores : /\ tx'[o].lock # "none" => tx'[o].open
                           /\ tx'[o].copy = NoCopy <=> ~Writer(o)'
      /\ \A a, b \in Stores : Writer(a)' /\ Writer(b)' => a = b
      /\ \A o \in Stores \ {s} : tx'[o] = tx[o]
  <2>1. View(s) \in Tables
    BY <1>1, Views
  <2>2. Changed(s, View(s), Now(s)) \in Tables
    <3>1. Now(s).sql = "update_memory" => found[s] # {} /\ found[s] \subseteq Memories
      BY <1>1, <1>2 DEF Program
    <3> QED BY <1>1, <1>2, <1>3, <2>1, <3>1, NewIds, ChangedTables
  <2>3. CanChange(s) /\ (Changes(s, Changed(s, View(s), Now(s))) \/ Changes(s, View(s)))
    BY DEF Change
  <2> QED BY <1>1, <2>1, <2>2, <2>3, Transactions
<1>5. OneWriter'
  BY <1>1, <1>2, <1>3, <1>4 DEF OneWriter
<1>6. Types'
  <2>1. todo' = [o \in Stores |-> todo'[o]] /\ failed' \subseteq Stores
    BY <1>1, <1>2 DEF Moved, Given, Types
  <2> QED BY <1>1, <1>2, <1>4, <2>1 DEF Types, TornGrows
<1>7. Program(s)'
  <2>1. CASE Given(s, <<>>)
    BY <1>2, <1>3, <2>1, Nothings, NewProgram
  <2>2. CASE Moved(s, 0)
    <3>1. ASSUME todo'[s] # <<>>, Now(s)'.sql = "update_memory"
          PROVE  FALSE
      <4>1. Before(Now(s)', 1, Now(s))
        BY <1>1, <2>2, <3>1, FirstOne
      <4>2. Now(s).sql = "id"
        BY <3>1, <4>1 DEF Before
      <4> QED BY <1>2, <4>2, ChangeKinds
    <3> QED BY <1>1, <1>2, <2>2, <3>1, NextProgram
  <2> QED BY <1>2, <2>1, <2>2
<1>8. \A o \in Stores \ {s} : Program(o)'
  <2>1. \A o \in Stores \ {s} : todo'[o] = todo[o]
    BY <1>2 DEF Moved, Given
  <2> QED BY <1>2, <2>1, Others
<1> QED BY <1>5, <1>6, <1>7, <1>8 DEF Base

\* A commit makes the copy the file.
LEMMA CommitBase ==
    ASSUME Base, NEW s \in Stores, CommitWork(s)
    PROVE  Base'
<1>1. Types /\ OneWriter /\ Program(s)
  BY DEF Base
<1>2. /\ todo[s] # <<>> /\ Now(s) = Commit /\ Moved(s, 0) /\ TornGrows
      /\ UNCHANGED <<failed, found, calls, opened, profiles, used, stops, told, evicted>>
  BY <1>1, CommitMoves
<1>3. Commits(s)
  BY DEF CommitWork
<1>4. /\ file' \in Tables
      /\ tx' \in [Stores -> [open : BOOLEAN, lock : Locks, copy : Tables \cup {NoCopy}]]
      /\ \A o \in Stores : /\ tx'[o].lock # "none" => tx'[o].open
                           /\ tx'[o].copy = NoCopy <=> ~Writer(o)'
      /\ \A a, b \in Stores : Writer(a)' /\ Writer(b)' => a = b
      /\ \A o \in Stores \ {s} : tx'[o] = tx[o]
  BY <1>1, <1>3, Transactions
<1>5. OneWriter'
  <2>1. tx'[s] = NoTx
    BY <1>1, <1>3 DEF Commits, Types
  <2> QED BY <1>1, <1>2, <1>4, <2>1 DEF OneWriter
<1>6. Types'
  BY <1>1, <1>2, <1>4 DEF Types, Moved, TornGrows
<1>7. Program(s)'
  <2>1. ASSUME todo'[s] # <<>>, Now(s)'.sql = "update_memory"
        PROVE  FALSE
    <3>1. Before(Now(s)', 1, Now(s))
      BY <1>1, <1>2, <2>1, FirstOne
    <3>2. Now(s).sql = "id"
      BY <2>1, <3>1 DEF Before
    <3> QED BY <1>2, <3>2 DEF Commit, Statement
  <2> QED BY <1>1, <1>2, <2>1, NextProgram
<1>8. \A o \in Stores \ {s} : Program(o)'
  BY <1>2, Others DEF Moved
<1> QED BY <1>5, <1>6, <1>7, <1>8 DEF Base

\* A column is added to the file itself.
LEMMA ColumnBase ==
    ASSUME Base, NEW s \in Stores, AddColumn(s)
    PROVE  Base'
<1>1. Types /\ OneWriter /\ Program(s)
  BY DEF Base
<1>2. /\ todo[s] # <<>> /\ s \notin opened /\ tx' = tx /\ TornGrows
      /\ UNCHANGED <<found, calls, opened, profiles, used, stops, told, evicted>>
  BY <1>1, ColumnMoves
<1>3. PICK c \in Columns :
          /\ Now(s) = Column(c)
          /\ file' = file \/ file' = [file EXCEPT !.columns = @ \cup {c}]
          /\ \/ Moved(s, 0) /\ failed' = failed
             \/ Given(s, <<>>) /\ failed' = failed \cup {s}
  BY <1>1, ColumnMoves
<1>4. OneWriter'
  BY <1>1, <1>2 DEF OneWriter, Writer
<1>5. file' \in Tables
  <2>1. file \in Tables /\ file.columns \cup {c} \subseteq Columns
    BY <1>1 DEF Types, Tables
  <2>2. [file EXCEPT !.columns = file.columns \cup {c}] \in Tables
    BY <2>1 DEF Tables
  <2> QED BY <1>3, <2>1, <2>2
<1>6. Types'
  <2>1. todo' = [o \in Stores |-> todo'[o]] /\ failed' \subseteq Stores
    BY <1>1, <1>3 DEF Moved, Given, Types
  <2> QED BY <1>1, <1>2, <1>5, <2>1 DEF Types, TornGrows
<1>7. Program(s)'
  <2>1. CASE Given(s, <<>>)
    BY <1>2, <2>1, Nothings, NewProgram
  <2>2. CASE Moved(s, 0)
    <3>1. ASSUME todo'[s] # <<>>, Now(s)'.sql = "update_memory"
          PROVE  FALSE
      <4>1. Before(Now(s)', 1, Now(s))
        BY <1>1, <2>2, <3>1, FirstOne
      <4>2. Now(s).sql = "id"
        BY <3>1, <4>1 DEF Before
      <4> QED BY <1>3, <4>2 DEF Column, Statement
    <3> QED BY <1>1, <1>2, <2>2, <3>1, NextProgram
  <2> QED BY <1>3, <2>1, <2>2
<1>8. \A o \in Stores \ {s} : Program(o)'
  <2>1. \A o \in Stores \ {s} : todo'[o] = todo[o]
    BY <1>3 DEF Moved, Given
  <2> QED BY <1>2, <2>1, Others
<1> QED BY <1>4, <1>6, <1>7, <1>8 DEF Base

\* A profile that is written is no matter of the file.
LEMMA ProfileBase ==
    ASSUME Base, NEW s \in Stores, WriteProfile(s)
    PROVE  Base'
<1>1. Types /\ OneWriter /\ Program(s)
  BY DEF Base
<1>2. /\ todo[s] # <<>> /\ Moved(s, 0) /\ TornGrows
      /\ UNCHANGED <<sqlVars, failed, found, calls, opened, used, stops, told, evicted>>
  BY <1>1, ProfileMoves
<1>3. PICK p \in Projects : Now(s) = WriteFile(p) /\ profiles' = profiles \cup {p}
  BY <1>1, ProfileMoves
<1>4. OneWriter'
  BY <1>1, <1>2 DEF OneWriter, Writer, sqlVars
<1>5. Types'
  BY <1>1, <1>2, <1>3 DEF Types, Moved, TornGrows, sqlVars
<1>6. Program(s)'
  <2>1. ASSUME todo'[s] # <<>>, Now(s)'.sql = "update_memory"
        PROVE  FALSE
    <3>1. Before(Now(s)', 1, Now(s))
      BY <1>1, <1>2, <2>1, FirstOne
    <3>2. Now(s).sql = "id"
      BY <2>1, <3>1 DEF Before
    <3> QED BY <1>3, <3>2 DEF WriteFile, Statement
  <2> QED BY <1>1, <1>2, <2>1, NextProgram
<1>7. \A o \in Stores \ {s} : Program(o)'
  BY <1>2, Others DEF Moved
<1> QED BY <1>4, <1>5, <1>6, <1>7 DEF Base

\* A process that gets its store has nothing left of the program that opened it.
LEMMA ReturnBase ==
    ASSUME Base, NEW s \in Stores, Return(s)
    PROVE  Base'
<1>1. Types /\ OneWriter /\ Program(s)
  BY DEF Base
<1>2. /\ todo[s] # <<>> /\ Moved(s, 0) /\ TornGrows
      /\ UNCHANGED <<sqlVars, failed, found, calls, profiles, used, stops, evicted>>
      /\ \/ Now(s) = Answer("store") /\ opened' = opened \cup {s} /\ todo'[s] = <<>>
         \/ Now(s) = Answer("memory") /\ opened' = opened
  BY <1>1, ReturnMoves
<1>3. OneWriter'
  BY <1>1, <1>2 DEF OneWriter, Writer, sqlVars
<1>4. Types'
  BY <1>1, <1>2 DEF Types, Moved, TornGrows, sqlVars
<1>5. Program(s)'
  <2>1. CASE Now(s) = Answer("store")
    <3>1. s \in opened' /\ todo'[s] = <<>>
      BY <1>2, <2>1 DEF Answer, Statement
    <3> QED BY <3>1, Nothings DEF Program
  <2>2. CASE Now(s) = Answer("memory")
    <3>1. opened' = opened
      BY <1>2, <2>2 DEF Answer, Statement
    <3>2. ASSUME todo'[s] # <<>>, Now(s)'.sql = "update_memory"
          PROVE  FALSE
      <4>1. Before(Now(s)', 1, Now(s))
        BY <1>1, <1>2, <3>2, FirstOne
      <4>2. Now(s).sql = "id"
        BY <3>2, <4>1 DEF Before
      <4> QED BY <2>2, <4>2 DEF Answer, Statement
    <3> QED BY <1>1, <1>2, <3>1, <3>2, NextProgram
  <2> QED BY <1>2, <2>1, <2>2
<1>6. \A o \in Stores \ {s} : Program(o)'
  BY <1>2, Others DEF Moved
<1> QED BY <1>3, <1>4, <1>5, <1>6 DEF Base

\* A statement that times out ends its program, or is a search that found nothing.
LEMMA TimesOutBase ==
    ASSUME Base, NEW s \in Stores, TimesOut(s)
    PROVE  Base'
<1>1. Types /\ OneWriter /\ Program(s)
  BY DEF Base
<1>2. /\ todo[s] # <<>>
      /\ \/ Given(s, <<>>) /\ failed' = failed \cup {s}
         \/ Moved(s, 0) /\ failed' = failed /\ Now(s).sql = "match"
      /\ TornGrows /\ UNCHANGED <<found, calls, opened, profiles, used, stops, told, evicted>>
  BY <1>1, TimesOutMoves
<1>3. \/ Now(s).is = "change" /\ ChangeTimesOut(s)
      \/ CommitTimesOut(s) /\ Writer(s)
      \/ UNCHANGED sqlVars
  BY DEF TimesOut, Waits, Free, CanCommit
<1>4. /\ file' \in Tables
      /\ tx' \in [Stores -> [open : BOOLEAN, lock : Locks, copy : Tables \cup {NoCopy}]]
      /\ \A o \in Stores : /\ tx'[o].lock # "none" => tx'[o].open
                           /\ tx'[o].copy = NoCopy <=> ~Writer(o)'
      /\ \A a, b \in Stores : Writer(a)' /\ Writer(b)' => a = b
      /\ \A o \in Stores \ {s} : tx'[o] = tx[o]
  BY <1>1, <1>3, Transactions
<1>5. OneWriter'
  <2>1. ASSUME s \notin opened
        PROVE  tx'[s] = NoTx
    <3>1. tx[s] = NoTx
      BY <1>1, <2>1 DEF OneWriter
    <3>2. Now(s).is # "change"
      <4>1. /\ Opening(todo[s]) /\ Now(s) = todo[s][1] /\ 1 \in DOMAIN todo[s]
            /\ Now(s).is = "change" <=> Now(s) \in Changers
        BY <1>1, <1>2, <2>1, Ahead, Kinds DEF Program
      <4> QED BY <4>1 DEF Opening, AskColumns, Ask, Commit, Column, Answer, Statement
    <3>3. ~Writer(s)
      BY <3>1 DEF Writer, NoTx
    <3> QED BY <1>3, <3>1, <3>2, <3>3 DEF sqlVars
  <2> QED BY <1>1, <1>2, <1>4, <2>1 DEF OneWriter
<1>6. Types'
  <2>1. todo' = [o \in Stores |-> todo'[o]] /\ failed' \subseteq Stores
    BY <1>1, <1>2 DEF Moved, Given, Types
  <2> QED BY <1>1, <1>2, <1>4, <2>1 DEF Types, TornGrows
<1>7. Program(s)'
  <2>1. CASE Given(s, <<>>)
    BY <1>2, <2>1, Nothings, NewProgram
  <2>2. CASE Moved(s, 0) /\ Now(s).sql = "match"
    <3>1. ASSUME todo'[s] # <<>>, Now(s)'.sql = "update_memory"
          PROVE  FALSE
      <4>1. Before(Now(s)', 1, Now(s))
        BY <1>1, <2>2, <3>1, FirstOne
      <4> QED BY <2>2, <3>1, <4>1 DEF Before
    <3> QED BY <1>1, <1>2, <2>2, <3>1, NextProgram
  <2> QED BY <1>2, <2>1, <2>2
<1>8. \A o \in Stores \ {s} : Program(o)'
  <2>1. \A o \in Stores \ {s} : todo'[o] = todo[o]
    BY <1>2 DEF Moved, Given
  <2> QED BY <1>2, <2>1, Others
<1> QED BY <1>5, <1>6, <1>7, <1>8 DEF Base

\* A process that ends leaves no program and no transaction.
LEMMA StopBase ==
    ASSUME Base, NEW s \in Stores, Stop(s)
    PROVE  Base'
<1>1. Types /\ OneWriter
  BY DEF Base
<1>2. /\ stops < MaxStops /\ stops' = stops + 1
      /\ opened' = opened \ {s} /\ Given(s, <<>>)
      /\ found' = [o \in Stores |-> found'[o]]
      /\ \A o \in Stores \ {s} : found'[o] = found[o]
      /\ tx' = [tx EXCEPT ![s] = NoTx]
      /\ UNCHANGED <<calls, profiles, used, failed, torn, told, evicted>>
  BY <1>1, StopMoves
<1>3. Closes(s)
  BY DEF Stop
<1>4. /\ file' \in Tables
      /\ tx' \in [Stores -> [open : BOOLEAN, lock : Locks, copy : Tables \cup {NoCopy}]]
      /\ \A o \in Stores : /\ tx'[o].lock # "none" => tx'[o].open
                           /\ tx'[o].copy = NoCopy <=> ~Writer(o)'
      /\ \A a, b \in Stores : Writer(a)' /\ Writer(b)' => a = b
      /\ \A o \in Stores \ {s} : tx'[o] = tx[o]
  BY <1>1, <1>3, Transactions
<1>5. OneWriter'
  BY <1>1, <1>2, <1>4 DEF OneWriter, Types
<1>6. Types'
  <2>1. stops' \in 0..MaxStops
    BY <1>1, <1>2, StoreAssumption DEF Types
  <2> QED BY <1>1, <1>2, <1>4, <2>1 DEF Types, Given
<1>7. Program(s)'
  BY <1>2, Nothings, NewProgram
<1>8. \A o \in Stores \ {s} : Program(o)'
  BY <1>2, Others DEF Given
<1> QED BY <1>5, <1>6, <1>7, <1>8 DEF Base

\* A process that opens the store begins the program that migrates the file.
LEMMA OpenBase ==
    ASSUME Base, NEW s \in Stores, Open(s)
    PROVE  Base'
<1>1. Types /\ OneWriter
  BY DEF Base
<1>2. /\ s \notin opened /\ Given(s, todo'[s]) /\ Opening(todo'[s])
      /\ failed' = failed \ {s}
      /\ UNCHANGED <<sqlVars, found, calls, opened, profiles, used, stops, torn, told, evicted>>
  BY <1>1, OpenMoves
<1>3. OneWriter'
  BY <1>1, <1>2 DEF OneWriter, Writer, sqlVars
<1>4. Types'
  BY <1>1, <1>2 DEF Types, Given, sqlVars
<1>5. Program(s)'
  BY <1>2, NewProgram
<1>6. \A o \in Stores \ {s} : Program(o)'
  BY <1>2, Others DEF Given
<1> QED BY <1>3, <1>4, <1>5, <1>6 DEF Base

\* A call begins the program of its tool, with a number of its own.
LEMMA DispatchBase ==
    ASSUME Base, NEW s \in Stores, Dispatch(s)
    PROVE  Base'
<1>1. Types /\ OneWriter
  BY DEF Base
<1>2. /\ s \in opened /\ Given(s, todo'[s]) /\ Working(todo'[s])
      /\ calls[s] < MaxCalls[s] /\ calls' = [calls EXCEPT ![s] = @ + 1]
      /\ found' = [o \in Stores |-> found'[o]]
      /\ \A o \in Stores \ {s} : found'[o] = found[o]
      /\ UNCHANGED <<sqlVars, opened, profiles, used, stops, failed, torn, told, evicted>>
  BY <1>1, DispatchMoves
<1>3. OneWriter'
  BY <1>1, <1>2 DEF OneWriter, Writer, sqlVars
<1>4. /\ calls[s] \in Nat /\ MaxCalls[s] \in Nat /\ calls'[s] = calls[s] + 1
      /\ calls' \in [Stores -> Nat] /\ \A o \in Stores \ {s} : calls'[o] = calls[o]
  <2>1. calls[s] \in Nat /\ MaxCalls[s] \in Nat /\ calls[s] + 1 \in Nat
    BY <1>1, StoreAssumption DEF Types
  <2> QED BY <1>1, <1>2, <2>1 DEF Types
<1>5. \A o \in Stores : calls'[o] <= MaxCalls[o]
  BY <1>1, <1>2, <1>4 DEF Types
<1>6. Types'
  BY <1>1, <1>2, <1>4, <1>5 DEF Types, Given, sqlVars
<1>7. Program(s)'
  <2>1. calls'[s] > 0
    BY <1>4
  <2> QED BY <1>2, <2>1, NewProgram
<1>8. \A o \in Stores \ {s} : Program(o)'
  BY <1>2, <1>4, Others DEF Given
<1> QED BY <1>3, <1>6, <1>7, <1>8 DEF Base

\* Types, locks and programs are what they are meant to be.
LEMMA BaseStep ==
    ASSUME Base, [Next]_vars
    PROVE  Base'
<1>1. ASSUME NEW s \in Stores, Open(s) \/ Dispatch(s) \/ Step(s) \/ Stop(s)
      PROVE  Base'
  BY <1>1, OpenBase, DispatchBase, QueryBase, ChangeBase, CommitBase, ColumnBase, ProfileBase,
     ReturnBase, TimesOutBase, StopBase DEF Step
<1>2. CASE UNCHANGED vars
  <2>1. UNCHANGED <<file, tx, todo, found, calls, opened, profiles, used, stops, failed, torn,
                    told, evicted>>
    BY <1>2 DEF vars, sqlVars, history
  <2> QED BY <2>1 DEF Base, Types, OneWriter, Program, Writer, Now
<1> QED BY <1>1, <1>2 DEF Next

-----------------------------------------------------------------------------
(* Whole documents.                                                        *)

\* What is stored is what was stored, or what s has changed and commits.
Preserves(s) ==
    /\ file' = file \/ (Writer(s) /\ file' = tx[s].copy)
    /\ Writer(s)' => Writer(s) /\ tx'[s].copy = tx[s].copy
    /\ \A o \in Stores \ {s} : /\ Writer(o)' <=> Writer(o)
                               /\ Writer(o) => tx'[o].copy = tx[o].copy

\* Steps that change no table.
Quiet(s) ==
    \/ Open(s) \/ Dispatch(s) \/ Query(s) \/ CommitWork(s) \/ WriteProfile(s) \/ Return(s)
    \/ TimesOut(s) \/ Stop(s)

\* They leave what is stored, and the programs of the others.
LEMMA QuietSteps ==
    ASSUME Base, NEW s \in Stores, Quiet(s)
    PROVE  /\ Preserves(s)
           /\ \A o \in Stores \ {s} : todo'[o] = todo[o] /\ found'[o] = found[o]
           /\ Dispatch(s) \/ calls' = calls
           /\ torn \subseteq torn'
<1>1. Types /\ OneWriter /\ Program(s)
  BY DEF Base
<1>2. SameData => Preserves(s)
  BY DEF SameData, Preserves
<1>3. UNCHANGED sqlVars => SameData
  BY DEF SameData, sqlVars, Writer
<1>4. CASE Open(s)
  BY <1>1, <1>2, <1>3, <1>4, OpenMoves DEF Given
<1>5. CASE Dispatch(s)
  BY <1>1, <1>2, <1>3, <1>5, DispatchMoves DEF Given
<1>6. CASE Query(s)
  BY <1>1, <1>2, <1>6, QueryMoves DEF Given, Moved, TornGrows
<1>7. CASE CommitWork(s)
  <2>1. Committed(s) => Preserves(s)
    BY <1>1, <1>2 DEF Committed, Preserves, OneWriter
  <2> QED BY <1>1, <1>7, <2>1, CommitMoves DEF Moved, TornGrows
<1>8. CASE WriteProfile(s)
  BY <1>1, <1>2, <1>3, <1>8, ProfileMoves DEF Moved, TornGrows
<1>9. CASE Return(s)
  BY <1>1, <1>2, <1>3, <1>9, ReturnMoves DEF Moved, TornGrows
<1>10. CASE TimesOut(s)
  BY <1>1, <1>2, <1>10, TimesOutMoves DEF Given, Moved, TornGrows
<1>11. CASE Stop(s)
  <2>1. Preserves(s)
    BY <1>1, <1>11, StopMoves DEF Preserves
  <2> QED BY <1>1, <1>11, <2>1, StopMoves DEF Given
<1> QED BY <1>4, <1>5, <1>6, <1>7, <1>8, <1>9, <1>10, <1>11 DEF Quiet

\* A chunk comes after a change.
LEMMA NoChunkNext ==
    ASSUME NEW s \in Stores, Program(s), NEW k \in Nat, Moved(s, k),
           todo[s][k + 1].is # "change"
    PROVE  ~At(s, "insert_chunk")'
<1> SUFFICES ASSUME todo'[s] # <<>>, Now(s)'.sql = "insert_chunk" PROVE FALSE
  BY DEF At
<1>1. Before(Now(s)', 1, todo[s][k + 1])
  BY NextOne
<1>2. \E n : todo[s][k + 1] = NewDocument \/ todo[s][k + 1] = Chunk(n)
  BY <1>1 DEF Before
<1> QED BY <1>2 DEF NewDocument, Chunk, Do, Statement

\* Where more documents have failed, no more is asked of a copy.
LEMMA WholeStays ==
    ASSUME torn \subseteq torn'
    PROVE  /\ \A db : Whole(db, torn) => Whole(db, torn')
           /\ \A db, id, n : Half(db, torn, id, n) => Half(db, torn', id, n)
BY DEF Whole, Half

\* Quiet steps lead to no chunk, and only those with nothing to lose start at one.
LEMMA QuietHeads ==
    ASSUME Base, NEW s \in Stores, Quiet(s)
    PROVE  /\ ~At(s, "insert_chunk")'
           /\ At(s, "insert_chunk") /\ ~Stop(s) => ~Writer(s)
<1>1. Types /\ OneWriter /\ Program(s)
  BY DEF Base
<1>2. \A q : Given(s, q) => ~At(s, "insert_chunk")'
  <2> SUFFICES ASSUME NEW q, Given(s, q), todo'[s] # <<>>, Now(s)'.sql = "insert_chunk"
               PROVE  FALSE
    BY DEF At
  <2>1. /\ q \in Seq(Statements) /\ Begins(q) /\ q # <<>> /\ Now(s)' = Head(q)
    BY DEF Given, Shaped, Now
  <2>2. Reach(Now(s)') = 0
    BY <2>1, FreshHead
  <2> QED BY <2>2 DEF Reach, Tells, Answer, Statement
<1>4. todo[s] # <<>> => /\ Now(s) = todo[s][1] /\ Now(s) = todo[s][0 + 1]
                        /\ Now(s) \in Statements /\ (Now(s).is = "change" <=> Now(s) \in Changers)
  BY <1>1, Ahead, Kinds
<1>5. Moved(s, 0) /\ todo[s] # <<>> /\ Now(s).is # "change" => ~At(s, "insert_chunk")'
  BY <1>1, <1>4, NoChunkNext
<1>6. todo[s] # <<>> /\ Now(s).sql = "insert_chunk" => Now(s).is = "change"
  BY <1>4, ChunksAreChanges
<1>7. CASE Open(s)
  <2>1. todo[s] = <<>> /\ Given(s, todo'[s]) /\ Now(s)' = AskColumns
    BY <1>1, <1>7, OpenMoves
  <2> QED BY <1>2, <2>1 DEF At, AskColumns, Ask
<1>8. CASE Dispatch(s)
  BY <1>1, <1>2, <1>8, DispatchMoves DEF At
<1>9. CASE Query(s)
  <2>1. /\ todo[s] # <<>> /\ Now(s) \in Queries /\ Now(s).is = "query"
        /\ \/ Given(s, <<>>) \/ Moved(s, 0)
           \/ Moved(s, Now(s).skip) /\ Now(s).skip > 0
    BY <1>1, <1>9, QueryMoves, QueryKinds
  <2>2. CASE Moved(s, Now(s).skip) /\ Now(s).skip > 0
    <3>1. /\ Now(s).skip \in Nat
          /\ todo[s][Now(s).skip + 1] = IF Now(s).sql = "id" THEN Read
                                        ELSE IF Now(s).sql = "profile" THEN WriteFile(Now(s).key)
                                        ELSE Commit
      BY <1>1, <2>1, <2>2, Landing, QueryKinds
    <3>2. todo[s][Now(s).skip + 1].is # "change"
      BY <3>1 DEF Read, WriteFile, Commit, Statement
    <3>3. ~At(s, "insert_chunk")'
      BY <1>1, <2>2, <3>1, <3>2, NoChunkNext
    <3> QED BY <1>6, <2>1, <3>3 DEF At
  <2> QED BY <1>2, <1>5, <1>6, <2>1, <2>2 DEF At
<1>10. CASE CommitWork(s)
  <2>1. todo[s] # <<>> /\ Now(s).is = "commit" /\ Moved(s, 0)
    BY <1>1, <1>10, CommitMoves DEF Commit, Statement
  <2> QED BY <1>5, <1>6, <2>1 DEF At
<1>11. CASE WriteProfile(s)
  <2>1. todo[s] # <<>> /\ Now(s).is = "file" /\ Moved(s, 0)
    BY <1>1, <1>11, ProfileMoves DEF WriteFile, Statement
  <2> QED BY <1>5, <1>6, <2>1 DEF At
<1>12. CASE Return(s)
  <2>1. todo[s] # <<>> /\ Now(s).is = "answer" /\ Moved(s, 0)
    BY <1>1, <1>12, ReturnMoves DEF Answer, Statement
  <2> QED BY <1>5, <1>6, <2>1 DEF At
<1>13. CASE TimesOut(s)
  <2>1. /\ todo[s] # <<>> /\ Now(s).is = "change" => ~Writer(s)
        /\ Given(s, <<>>) \/ (Moved(s, 0) /\ Now(s).sql = "match")
    BY <1>1, <1>13, TimesOutMoves
  <2>2. Now(s).sql = "match" /\ todo[s] # <<>> => Now(s).is # "change"
    BY <1>4, ChangeKinds
  <2>3. todo[s] # <<>>
    BY <1>1, <1>13, TimesOutMoves
  <2> QED BY <1>2, <1>5, <1>6, <2>1, <2>2, <2>3 DEF At
<1>14. CASE Stop(s)
  <2>1. Given(s, <<>>)
    BY <1>1, <1>14, StopMoves
  <2> QED BY <1>2, <1>14, <2>1
<1> QED BY <1>7, <1>8, <1>9, <1>10, <1>11, <1>12, <1>13, <1>14 DEF Quiet

\* Quiet steps leave the documents whole.
LEMMA QuietDocuments ==
    ASSUME Base, Documents, NEW s \in Stores, Quiet(s)
    PROVE  Documents'
<1>1. /\ Types /\ OneWriter /\ Preserves(s) /\ torn \subseteq torn'
      /\ \A o \in Stores \ {s} : todo'[o] = todo[o]
      /\ Dispatch(s) \/ calls' = calls
  BY QuietSteps DEF Base
<1>2. /\ ~At(s, "insert_chunk")'
      /\ At(s, "insert_chunk") => ~Writer(s) \/ Stop(s)
  BY QuietHeads
<1>3. Stop(s) => file' = file /\ ~Writer(s)'
  BY <1>1, StopMoves
<1>4. At(s, "insert_chunk") => file' = file /\ ~Writer(s)'
  BY <1>1, <1>2, <1>3 DEF Preserves
<1>5. Whole(file', torn')
  <2>1. Whole(file', torn)
    BY <1>1, <1>4 DEF Preserves, Documents, DocumentOf
  <2> QED BY <1>1, <2>1, WholeStays
<1>6. DocumentOf(s)'
  <2>1. Writer(s)' => Whole(tx'[s].copy, torn)
    BY <1>1, <1>4 DEF Preserves, Documents, DocumentOf
  <2> QED BY <1>1, <1>2, <2>1, WholeStays DEF DocumentOf, Whole
<1>7. ASSUME NEW o \in Stores \ {s}
      PROVE  DocumentOf(o)'
  <2>1. /\ At(o, "insert_chunk")' <=> At(o, "insert_chunk")
        /\ todo[o] # <<>> => Now(o)' = Now(o)
        /\ Writer(o)' <=> Writer(o)
        /\ Writer(o) => tx'[o].copy = tx[o].copy
    BY <1>1 DEF At, Now, Preserves, Writer
  <2>2. calls'[o] = calls[o]
    BY <1>1, DispatchMoves DEF Types
  <2>3. NewId(o)' = NewId(o)
    BY <2>2 DEF NewId
  <2>4. DocumentOf(o)
    BY DEF Documents
  <2> QED BY <1>1, <2>1, <2>3, <2>4, WholeStays DEF DocumentOf, Whole, Half, At
<1>8. (\A o \in Stores : DocumentOf(o))'
  BY <1>6, <1>7
<1> QED BY <1>5, <1>8 DEF Documents, Whole

\* So does a column that is added.
LEMMA ColumnDocuments ==
    ASSUME Base, Documents, NEW s \in Stores, AddColumn(s)
    PROVE  Documents'
<1>1. Types /\ OneWriter /\ Program(s)
  BY DEF Base
<1>2. /\ todo[s] # <<>> /\ s \notin opened /\ tx' = tx /\ calls' = calls /\ torn \subseteq torn'
      /\ \E c \in Columns : Now(s) = Column(c)
      /\ (Moved(s, 0) \/ Given(s, <<>>))
      /\ file'.documents = file.documents /\ file'.chunks = file.chunks
  <2>1. /\ todo[s] # <<>> /\ s \notin opened /\ tx' = tx /\ calls' = calls /\ torn \subseteq torn'
    BY <1>1, ColumnMoves DEF TornGrows
  <2>2. PICK c \in Columns :
          /\ Now(s) = Column(c)
          /\ file' = file \/ file' = [file EXCEPT !.columns = @ \cup {c}]
          /\ (Moved(s, 0) \/ Given(s, <<>>))
    BY <1>1, ColumnMoves
  <2>3. file'.documents = file.documents /\ file'.chunks = file.chunks
    BY <1>1, <2>2 DEF Types, Tables
  <2> QED BY <2>1, <2>2, <2>3
<1>3. ~At(s, "insert_chunk")'
  <2>1. CASE Moved(s, 0)
    <3>1. todo[s][0 + 1].is # "change"
      BY <1>1, <1>2, Ahead DEF Column, Statement
    <3> QED BY <1>1, <2>1, <3>1, NoChunkNext
  <2>2. CASE Given(s, <<>>)
    BY <2>2 DEF Given, At
  <2> QED BY <1>2, <2>1, <2>2
<1>4. \A o \in Stores : Writer(o)' <=> Writer(o)
  BY <1>2 DEF Writer
<1>5. \A o \in Stores \ {s} : todo'[o] = todo[o]
  BY <1>2 DEF Moved, Given
<1>6. DocumentOf(s)'
  <2>1. ~Writer(s)
    BY <1>1, <1>2 DEF OneWriter, Writer, NoTx
  <2> QED BY <1>3, <1>4, <2>1 DEF DocumentOf
<1>7. ASSUME NEW o \in Stores \ {s}
      PROVE  DocumentOf(o)'
  <2>1. DocumentOf(o)
    BY DEF Documents
  <2>2. /\ NewId(o)' = NewId(o) /\ Now(o)' = Now(o)
        /\ At(o, "insert_chunk")' <=> At(o, "insert_chunk")
    BY <1>2, <1>5 DEF NewId, Now, At
  <2> QED BY <2>1, <2>2, <1>2, <1>4, WholeStays DEF DocumentOf, Half, Whole
<1>8. (\A o \in Stores : DocumentOf(o))'
  BY <1>6, <1>7
<1>9. Whole(file', torn')
  <2>1. Whole(file', torn)
    BY <1>2 DEF Documents, Whole
  <2> QED BY <1>2, <2>1, WholeStays
<1> QED BY <1>8, <1>9 DEF Documents, Whole

\* What changes do to documents, and what follows them.
LEMMA ChangeAhead ==
    ASSUME Base, NEW s \in Stores, Change(s)
    PROVE  /\ s \in opened /\ todo[s] # <<>> /\ calls[s] > 0 /\ NewId(s) \in Ids
           /\ Now(s) \in Changers /\ View(s) \in Tables
           /\ Moved(s, 0) =>
                 /\ todo'[s] # <<>>
                 /\ Now(s)' = CASE Now(s).sql = "insert_document" -> Chunk(1)
                                [] Now(s).sql = "insert_chunk" /\ Now(s).key < Chunks ->
                                      Chunk(Now(s).key + 1)
                                [] OTHER -> Commit
<1>1. Types /\ OneWriter /\ Program(s)
  BY DEF Base
<1>2. /\ todo[s] # <<>> /\ Now(s) \in Changers
  BY <1>1, ChangeMoves
<1>3. Now(s) = todo[s][1] /\ 1 \in DOMAIN todo[s] /\ Now(s) \in Statements /\ Now(s).is = "change"
  BY <1>1, <1>2, Ahead, Kinds
<1>4. s \in opened /\ calls[s] > 0 /\ NewId(s) \in Ids
  BY <1>1, <1>2, <1>3, Changing
<1>5. View(s) \in Tables
  BY <1>1, Views
<1>6. ASSUME Moved(s, 0)
      PROVE  /\ todo'[s] # <<>>
             /\ Now(s)' = CASE Now(s).sql = "insert_document" -> Chunk(1)
                            [] Now(s).sql = "insert_chunk" /\ Now(s).key < Chunks ->
                                  Chunk(Now(s).key + 1)
                            [] OTHER -> Commit
  <2>1. 1 + Span(Now(s)) <= Len(todo[s]) /\ Span(Now(s)) = 1 /\ Len(todo[s]) \in Nat
    BY <1>1, <1>3, Ahead DEF Program, Shaped, Span
  <2>2. Len(todo'[s]) >= 1
    BY <1>6, <2>1 DEF Moved
  <2>3. todo'[s] # <<>>
    BY <2>2
  <2>4. After(Now(s), 1, Now(s)')
    BY <1>1, <1>6, <2>3, FirstOne
  <2> QED BY <1>3, <2>3, <2>4 DEF After
<1> QED BY <1>2, <1>4, <1>5, <1>6

\* A document is stored with its chunks one after the other, until one of them fails.
LEMMA ChangeHalf ==
    ASSUME Base, Documents, NEW s \in Stores, Change(s)
    PROVE  DocumentOf(s)'
<1>1. Types /\ OneWriter /\ Program(s) /\ DocumentOf(s)
  BY DEF Base, Documents
<1> DEFINE a == Now(s)
           db == View(s)
           id == NewId(s)
<1>2. /\ s \in opened /\ todo[s] # <<>> /\ calls[s] > 0 /\ id \in Ids
      /\ a \in Changers /\ db \in Tables
  BY ChangeAhead
<1>3. /\ \/ ChangedTo(s, Changed(s, db, a)) /\ Moved(s, 0) /\ torn' = torn
         \/ /\ ChangedTo(s, db) /\ Given(s, <<>>)
            /\ a.sql = "insert_chunk" => torn' = torn \cup {id}
      /\ calls' = calls /\ torn \subseteq torn'
  BY <1>1, ChangeMoves DEF TornGrows
<1>4. id' = id
  BY <1>3 DEF NewId
<1>5. a.sql # "insert_chunk" => Whole(db, torn)
  BY <1>1, <1>2 DEF DocumentOf, Documents, View, At
<1>6. ASSUME a.sql = "insert_chunk"
      PROVE  Half(db, torn, id, a.key)
  BY <1>1, <1>2, <1>6 DEF DocumentOf, At, View
<1>7. CASE /\ ChangedTo(s, db) /\ Given(s, <<>>)
           /\ a.sql = "insert_chunk" => torn' = torn \cup {id}
  <2>1. Whole(db, torn')
    <3>1. CASE a.sql = "insert_chunk"
      <4>1. Half(db, torn, id, a.key) /\ torn' = torn \cup {id}
        BY <1>6, <1>7, <3>1
      <4> HIDE DEF db, id, a
      <4> QED BY <4>1 DEF Half, Whole
    <3>2. CASE a.sql # "insert_chunk"
      BY <1>3, <1>5, <3>2, WholeStays
    <3> QED BY <3>1, <3>2
  <2>2. ~At(s, "insert_chunk")' /\ tx'[s].copy = db
    BY <1>7 DEF At, Given, ChangedTo
  <2> HIDE DEF db
  <2> QED BY <2>1, <2>2 DEF DocumentOf, Whole
<1>8. CASE ChangedTo(s, Changed(s, db, a)) /\ Moved(s, 0) /\ torn' = torn
  <2>1. Writer(s)' /\ tx'[s].copy = Changed(s, db, a) /\ todo'[s] # <<>>
    BY <1>8, ChangeAhead DEF ChangedTo
  <2> DEFINE db2 == tx'[s].copy
  <2>2. CASE a.sql = "insert_document"
    <3>1. Now(s)' = Chunk(1)
      BY <1>8, <2>2, ChangeAhead
    <3>2. At(s, "insert_chunk")' /\ Now(s)'.key = 1
      BY <2>1, <3>1 DEF At, Chunk, Do, Statement
    <3>3. db2.documents = db.documents \cup {id} /\ db2.chunks = db.chunks
      BY <1>2, <2>1, <2>2 DEF Changed, Tables
    <3>4. Whole(db, torn) /\ \A m \in 1..Chunks : ~(m < 1)
      BY <1>5, <2>2, StoreAssumption
    <3>5. Half(db2, torn', id, 1)
      <4> HIDE DEF db, id, db2
      <4> QED BY <1>8, <3>3, <3>4 DEF Half, Whole
    <3> QED BY <1>4, <2>1, <3>2, <3>5 DEF DocumentOf, Half
  <2>3. CASE a.sql = "insert_chunk"
    <3>1. PICK n \in 1..Chunks : a.key = n
      BY <1>2, <2>3, ChangeKinds
    <3>2. Half(db, torn, id, n)
      BY <1>6, <2>3, <3>1
    <3>3. db2.documents = db.documents /\ db2.chunks = db.chunks \cup {<<id, n>>}
      BY <1>2, <2>1, <2>3, <3>1 DEF Changed, Tables
    <3>4. \A m \in 1..Chunks : m < n + 1 => m < n \/ m = n
      BY StoreAssumption
    <3>5. Half(db2, torn', id, n + 1)
      <4> HIDE DEF db, id, db2
      <4> QED BY <1>8, <3>2, <3>3, <3>4 DEF Half
    <3>6. CASE n < Chunks
      <4>1. Now(s)' = Chunk(n + 1)
        <5>1. Now(s).key < Chunks /\ Now(s).sql = "insert_chunk"
          BY <2>3, <3>1, <3>6
        <5> QED BY <1>8, <3>1, <5>1, ChangeAhead
      <4>2. At(s, "insert_chunk")' /\ Now(s)'.key = n + 1
        BY <2>1, <4>1 DEF At, Chunk, Do, Statement
      <4> QED BY <1>4, <2>1, <3>5, <4>2 DEF DocumentOf, Half
    <3>7. CASE ~(n < Chunks)
      <4>1. Now(s)' = Commit
        <5>1. ~(Now(s).key < Chunks) /\ Now(s).sql = "insert_chunk"
          BY <2>3, <3>1, <3>7
        <5> QED BY <1>8, <5>1, ChangeAhead
      <4>2. ~At(s, "insert_chunk")'
        BY <4>1 DEF At, Commit, Statement
      <4>3. \A m \in 1..Chunks : m < n + 1
        BY <3>7, StoreAssumption
      <4>4. Whole(db2, torn')
        <5> HIDE DEF db2, id
        <5> QED BY <3>5, <4>3 DEF Half, Whole
      <4> QED BY <4>2, <4>4 DEF DocumentOf, Whole
    <3> QED BY <3>6, <3>7
  <2>4. CASE a.sql \notin {"insert_document", "insert_chunk"}
    <3>1. Now(s)' = Commit
      BY <1>8, <2>4, ChangeAhead
    <3>2. ~At(s, "insert_chunk")'
      BY <3>1 DEF At, Commit, Statement
    <3>3. db2.documents = db.documents /\ db2.chunks = db.chunks
      BY <1>2, <2>1, <2>4 DEF Changed, Tables
    <3>4. Whole(db2, torn')
      <4> HIDE DEF db, db2
      <4> QED BY <1>5, <1>8, <2>4, <3>3 DEF Whole
    <3> QED BY <3>2, <3>4 DEF DocumentOf, Whole
  <2> QED BY <2>2, <2>3, <2>4
<1> QED BY <1>3, <1>7, <1>8

\* A change leaves the documents of the others.
LEMMA ChangeDocuments ==
    ASSUME Base, Documents, NEW s \in Stores, Change(s)
    PROVE  Documents'
<1>1. Types /\ OneWriter /\ Program(s)
  BY DEF Base
<1>2. /\ torn \subseteq torn' /\ file' = file
      /\ Writer(s)' /\ \A o \in Stores \ {s} : ~Writer(o) /\ ~Writer(o)'
      /\ \A o \in Stores \ {s} : todo'[o] = todo[o]
  BY <1>1, ChangeMoves DEF TornGrows, ChangedTo, Moved, Given
<1>3. ASSUME NEW o \in Stores \ {s}
      PROVE  DocumentOf(o)'
  <2>1. DocumentOf(o)
    BY DEF Documents
  <2>2. ~At(o, "insert_chunk")
    BY <1>2, <2>1 DEF DocumentOf
  <2> QED BY <1>2, <2>2 DEF DocumentOf, At, Now
<1>4. Whole(file', torn')
  BY <1>2, WholeStays DEF Documents
<1>5. (\A o \in Stores : DocumentOf(o))'
  BY <1>3, ChangeHalf
<1> QED BY <1>4, <1>5 DEF Documents, Whole

\* Documents are whole.
LEMMA DocumentsStep ==
    ASSUME Base, Documents, [Next]_vars
    PROVE  Documents'
<1>1. ASSUME NEW s \in Stores, Open(s) \/ Dispatch(s) \/ Step(s) \/ Stop(s)
      PROVE  Documents'
  BY <1>1, QuietDocuments, ColumnDocuments, ChangeDocuments DEF Quiet, Step
<1>2. CASE UNCHANGED vars
  <2>1. UNCHANGED <<file, tx, todo, calls, torn>>
    BY <1>2 DEF vars, sqlVars, history
  <2> QED BY <2>1 DEF Documents, DocumentOf, Writer, At, Now, NewId, Half, Whole
<1> QED BY <1>1, <1>2 DEF Next

-----------------------------------------------------------------------------
(* The columns.                                                            *)

\* What is not done yet is still to be done.
LEMMA LeftOver ==
    ASSUME NEW s \in Stores, Program(s), Moved(s, 0), NEW i \in DOMAIN todo[s],
           todo[s][i] # Now(s)
    PROVE  \E j \in DOMAIN todo'[s] : todo'[s][j] = todo[s][i]
<1>1. /\ Len(todo[s]) \in Nat /\ DOMAIN todo[s] = 1..Len(todo[s]) /\ i # 1
  BY Ahead
<1>2. PICK n \in Nat : n = Len(todo[s])
  BY <1>1
<1>3. PICK j \in Nat : i = j + 1 /\ j \in 1..(n - 1)
  <2>1. i \in Nat /\ i - 1 \in Nat /\ i = (i - 1) + 1 /\ i - 1 \in 1..(n - 1)
    BY <1>1, <1>2
  <2> QED BY <2>1
<1>4. j + (0 + 1) = i /\ j \in 1..(n - (0 + 1))
  BY <1>1, <1>2, <1>3
<1>5. j \in DOMAIN todo'[s] /\ todo'[s][j] = todo[s][j + (0 + 1)]
  BY <1>2, <1>4 DEF Moved
<1> QED BY <1>4, <1>5

\* What a process that opens the store may be at.
LEMMA OpeningHeads ==
    ASSUME NEW s \in Stores, Program(s), s \notin opened, todo[s] # <<>>
    PROVE  \/ Now(s) \in {AskColumns, Commit} \cup {Column(c) : c \in Columns}
           \/ Now(s) = Answer("store")
BY Ahead DEF Program, Opening

\* For each process that opens the store.
Migrating(s) ==
    todo[s] # <<>> =>
        /\ Now(s) # AskColumns => found[s] \subseteq file.columns
        /\ \A c \in Columns \ file.columns : \E i \in DOMAIN todo[s] : todo[s][i] = Column(c)

\* A step that adds no column and leaves what was found.
LEMMA StillMigrating ==
    ASSUME NEW s \in Stores, Program(s), Migrating(s), todo[s] # <<>>, Moved(s, 0),
           \/ found'[s] = found[s] /\ Now(s) # AskColumns
           \/ found'[s] \subseteq file'.columns,
           file.columns \subseteq file'.columns,
           \A c \in Columns : Now(s) = Column(c) => c \in file'.columns
    PROVE  Migrating(s)'
<1>1. ASSUME NEW c \in Columns \ file'.columns
      PROVE  \E j \in DOMAIN todo'[s] : todo'[s][j] = Column(c)
  <2>1. PICK i \in DOMAIN todo[s] : todo[s][i] = Column(c)
    BY DEF Migrating
  <2> QED BY <2>1, LeftOver
<1>2. found'[s] \subseteq file'.columns
  BY DEF Migrating
<1>3. Migrating(s)' <=>
        (todo'[s] # <<>> =>
            /\ Now(s)' # AskColumns' => found'[s] \subseteq file'.columns
            /\ \A c \in Columns \ file'.columns :
                  \E j \in DOMAIN todo'[s] : todo'[s][j] = Column(c))
  BY DEF Migrating, Column, Statement
<1> QED BY <1>1, <1>2, <1>3

\* The others, when no column is added, or one is.
LEMMA OthersMigrate ==
    ASSUME NEW o \in Stores, Migrating(o), todo'[o] = todo[o], found'[o] = found[o],
           file.columns \subseteq file'.columns
    PROVE  Migrating(o)'
BY DEF Migrating, Now, AskColumns, Column, Ask, Statement

\* Quiet steps leave the columns.
LEMMA QuietSchema ==
    ASSUME Base, Schema, NEW s \in Stores, Quiet(s)
    PROVE  Schema'
<1>1. /\ Types /\ OneWriter /\ Program(s) /\ Preserves(s)
      /\ \A o \in Stores \ {s} : todo'[o] = todo[o] /\ found'[o] = found[o]
  BY QuietSteps DEF Base
<1>2. file'.columns = file.columns
  BY <1>1 DEF Preserves, Schema
<1>3. \A o \in Stores : Writer(o)' => tx'[o].copy.columns = file'.columns
  BY <1>1, <1>2 DEF Preserves, Schema
<1>4. file.columns \subseteq Columns
  BY <1>1 DEF Types, Tables
<1>5. \/ opened' = opened
      \/ opened' = opened \ {s} /\ Given(s, <<>>)
      \/ opened' = opened \cup {s} /\ todo'[s] = <<>> /\ file.columns = Columns
  <2>1. CASE Return(s)
    <3>1. /\ todo[s] # <<>>
          /\ \/ /\ Now(s) = Answer("store") /\ s \notin opened
                /\ opened' = opened \cup {s} /\ todo'[s] = <<>> /\ Moved(s, 0)
             \/ opened' = opened
      BY <1>1, <2>1, ReturnMoves
    <3>2. ASSUME Now(s) = Answer("store"), s \notin opened, Moved(s, 0), todo'[s] = <<>>,
                 NEW c \in Columns
          PROVE  c \in file.columns
      <4>1. Migrating(s)
        BY <3>2 DEF Schema, Migrating
      <4>2. CASE c \notin file.columns
        <5>1. PICK i \in DOMAIN todo[s] : todo[s][i] = Column(c)
          BY <3>1, <4>1, <4>2 DEF Migrating
        <5>2. todo[s][i] # Now(s)
          BY <3>2, <5>1 DEF Answer, Column, Statement
        <5>3. DOMAIN todo'[s] # {}
          BY <1>1, <3>2, <5>2, LeftOver
        <5> QED BY <3>2, <5>3
      <4> QED BY <4>2
    <3> QED BY <1>4, <3>1, <3>2
  <2>2. CASE Stop(s)
    BY <1>1, <2>2, StopMoves
  <2>3. CASE ~Return(s) /\ ~Stop(s)
    BY <1>1, <2>3, OpenMoves, DispatchMoves, QueryMoves, CommitMoves, ProfileMoves, TimesOutMoves
       DEF Quiet
  <2> QED BY <2>1, <2>2, <2>3
<1>6. opened' # {} => file'.columns = Columns
  BY <1>2, <1>5 DEF Schema
<1>7. ASSUME NEW o \in Stores \ opened', o # s
      PROVE  Migrating(o)'
  <2>1. Migrating(o)
    BY <1>5, <1>7 DEF Schema, Migrating
  <2> QED BY <1>1, <1>2, <1>7, <2>1, OthersMigrate
<1>8. ASSUME s \notin opened'
      PROVE  Migrating(s)'
  <2>1. Given(s, <<>>) => Migrating(s)'
    BY DEF Given, Migrating
  <2>2. s \notin opened => Migrating(s)
    BY DEF Schema, Migrating
  <2>3. s \notin opened /\ todo[s] # <<>> => Now(s) = AskColumns \/ Now(s) = Commit
                               \/ Now(s) = Answer("store") \/ \E c \in Columns : Now(s) = Column(c)
    BY <1>1, OpeningHeads
  <2>4. CASE Open(s)
    <3>1. /\ Now(s)' = AskColumns
          /\ \A c \in Columns : \E i \in DOMAIN todo'[s] : todo'[s][i] = Column(c)
      BY <1>1, <2>4, OpenMoves
    <3> QED BY <3>1 DEF Migrating, AskColumns, Column, Ask, Statement
  <2>5. CASE Dispatch(s)
    BY <1>1, <1>8, <2>5, DispatchMoves
  <2>6. CASE Query(s)
    <3>1. /\ todo[s] # <<>> /\ Now(s) \in Queries /\ s \notin opened
          /\ found'[s] \in Matches(s, Now(s))
          /\ \/ Given(s, <<>>) \/ Moved(s, 0)
             \/ Moved(s, Now(s).skip) /\ Now(s).skip > 0
      BY <1>1, <1>8, <2>6, QueryMoves
    <3>2. Now(s) = AskColumns
      <4>1. Now(s).is = "query"
        BY <3>1, QueryKinds
      <4> QED BY <2>3, <3>1, <4>1 DEF Commit, Answer, Column, Statement
    <3>3. Now(s).skip = 0
      BY <3>2 DEF AskColumns, Ask
    <3>4. ~Writer(s)
      BY <1>1, <3>1 DEF OneWriter, Writer, NoTx
    <3>5. found'[s] = file.columns
      BY <3>1, <3>2, <3>4 DEF Matches, Selected, View, AskColumns, Ask
    <3>6. \A c \in Columns : Now(s) # Column(c)
      BY <3>2 DEF AskColumns, Ask, Column, Statement
    <3>7. Given(s, <<>>) \/ Moved(s, 0)
      BY <3>1, <3>3
    <3> QED BY <1>1, <1>2, <2>1, <2>2, <3>1, <3>5, <3>6, <3>7, StillMigrating
  <2>7. CASE CommitWork(s)
    <3>1. todo[s] # <<>> /\ Now(s) = Commit /\ Moved(s, 0) /\ found' = found /\ s \notin opened
      BY <1>1, <1>8, <2>7, CommitMoves
    <3>2. Now(s) # AskColumns /\ \A c \in Columns : Now(s) # Column(c)
      BY <3>1 DEF Commit, AskColumns, Ask, Column, Statement
    <3> QED BY <1>1, <1>2, <2>2, <3>1, <3>2, StillMigrating
  <2>8. CASE WriteProfile(s)
    <3>1. /\ todo[s] # <<>> /\ s \notin opened
          /\ \E p \in Projects : Now(s) = WriteFile(p)
      BY <1>1, <1>8, <2>8, ProfileMoves
    <3>2. Now(s).is = "file"
      BY <3>1 DEF WriteFile, Statement
    <3>3. Now(s).is # "file"
      BY <2>3, <3>1 DEF Commit, AskColumns, Ask, Column, Answer, Statement
    <3> QED BY <3>2, <3>3
  <2>9. CASE Return(s)
    <3>1. s \in opened'
      BY <1>1, <2>9, ReturnMoves
    <3> QED BY <1>8, <3>1
  <2>10. CASE TimesOut(s)
    <3>1. /\ todo[s] # <<>> /\ s \notin opened
          /\ Given(s, <<>>) \/ (Moved(s, 0) /\ Now(s).sql = "match")
      BY <1>1, <1>8, <2>10, TimesOutMoves
    <3>2. Now(s).sql # "match"
      BY <2>3, <3>1 DEF Commit, AskColumns, Ask, Column, Answer, Statement
    <3> QED BY <2>1, <3>1, <3>2
  <2>11. CASE Stop(s)
    BY <1>1, <2>1, <2>11, StopMoves
  <2> QED BY <2>4, <2>5, <2>6, <2>7, <2>8, <2>9, <2>10, <2>11 DEF Quiet
<1>9. \A o \in Stores \ opened' : Migrating(o)'
  BY <1>7, <1>8
<1>10. (\A o \in Stores \ opened : Migrating(o))'
  BY <1>9
<1> QED BY <1>3, <1>6, <1>10 DEF Schema, Migrating

\* A column that is added is one less to be added.
LEMMA ColumnSchema ==
    ASSUME Base, Schema, NEW s \in Stores, AddColumn(s)
    PROVE  Schema'
<1>1. Types /\ OneWriter /\ Program(s)
  BY DEF Base
<1>2. /\ todo[s] # <<>> /\ s \notin opened /\ tx' = tx /\ found' = found /\ opened' = opened
  BY <1>1, ColumnMoves
<1>3. PICK c \in Columns :
          /\ Now(s) = Column(c)
          /\ \/ c \in found[s] /\ file' = file /\ Moved(s, 0)
             \/ /\ c \notin found[s] /\ file' = [file EXCEPT !.columns = @ \cup {c}]
                /\ \A o \in Stores : ~Writer(o)
                /\ Moved(s, 0) \/ Given(s, <<>>)
  BY <1>1, ColumnMoves
<1>4. Now(s) # AskColumns /\ \A d \in Columns : Now(s) = Column(d) => d = c
  BY <1>3 DEF Column, AskColumns, Ask, Statement
<1>5. Migrating(s)
  BY <1>2 DEF Schema, Migrating
<1>6. /\ c \in file'.columns /\ file.columns \subseteq file'.columns
      /\ file.columns = Columns => file'.columns = Columns
      /\ \A o \in Stores : Writer(o) => file'.columns = file.columns
  <2>1. found[s] \subseteq file.columns
    BY <1>2, <1>4, <1>5 DEF Migrating
  <2>2. file \in Tables /\ file.columns \subseteq Columns
    BY <1>1 DEF Types, Tables
  <2>3. CASE c \in found[s] /\ file' = file
    BY <2>1, <2>3
  <2>4. CASE /\ file' = [file EXCEPT !.columns = @ \cup {c}]
             /\ \A o \in Stores : ~Writer(o)
    <3>1. file'.columns = file.columns \cup {c}
      BY <2>2, <2>4 DEF Tables
    <3> QED BY <2>2, <2>4, <3>1
  <2> QED BY <1>3, <2>3, <2>4
<1>7. Migrating(s)'
  <2>1. CASE Moved(s, 0)
    BY <1>1, <1>2, <1>4, <1>5, <1>6, <2>1, StillMigrating
  <2>2. CASE Given(s, <<>>)
    BY <2>2 DEF Given, Migrating
  <2> QED BY <1>3, <2>1, <2>2
<1>8. ASSUME NEW o \in Stores \ opened, o # s
      PROVE  Migrating(o)'
  <2>1. Migrating(o) /\ todo'[o] = todo[o]
    BY <1>3, <1>8 DEF Schema, Migrating, Moved, Given
  <2> QED BY <1>2, <1>6, <2>1, OthersMigrate
<1>9. (\A o \in Stores \ opened : Migrating(o))'
  BY <1>2, <1>7, <1>8
<1>10. opened' # {} => file'.columns = Columns
  BY <1>2, <1>6 DEF Schema
<1>11. \A o \in Stores : Writer(o)' => tx'[o].copy.columns = file'.columns
  BY <1>2, <1>6 DEF Schema, Writer
<1> QED BY <1>9, <1>10, <1>11 DEF Schema, Migrating

\* A change has nothing to do with the columns.
LEMMA ChangeSchema ==
    ASSUME Base, Schema, NEW s \in Stores, Change(s)
    PROVE  Schema'
<1>1. Types /\ OneWriter /\ Program(s)
  BY DEF Base
<1> DEFINE a == Now(s)
           db == View(s)
<1>2. s \in opened /\ a \in Changers /\ db \in Tables
  BY ChangeAhead
<1>3. /\ \/ ChangedTo(s, Changed(s, db, a)) /\ Moved(s, 0)
         \/ ChangedTo(s, db) /\ Given(s, <<>>)
      /\ found' = found /\ opened' = opened
  BY <1>1, ChangeMoves
<1>4. file' = file /\ \A o \in Stores \ {s} : ~Writer(o)' /\ todo'[o] = todo[o]
  BY <1>3 DEF ChangedTo, Moved, Given
<1>5. tx'[s].copy.columns = file'.columns
  <2>1. db.columns = file.columns
    BY <1>1 DEF Schema, View
  <2>2. Changed(s, db, a).columns = db.columns
    BY <1>2, ChangeKinds DEF Changed, Tables
  <2> QED BY <1>3, <1>4, <2>1, <2>2 DEF ChangedTo
<1>6. ASSUME NEW o \in Stores \ opened
      PROVE  Migrating(o)'
  <2>1. Migrating(o) /\ todo'[o] = todo[o]
    BY <1>2, <1>4 DEF Schema, Migrating
  <2> QED BY <1>3, <1>4, <2>1, OthersMigrate
<1>7. (\A o \in Stores \ opened : Migrating(o))'
  BY <1>3, <1>6
<1> QED BY <1>3, <1>4, <1>5, <1>7 DEF Schema, Migrating

\* Who has the store has all columns in it.
LEMMA SchemaStep ==
    ASSUME Base, Schema, [Next]_vars
    PROVE  Schema'
<1>1. ASSUME NEW s \in Stores, Open(s) \/ Dispatch(s) \/ Step(s) \/ Stop(s)
      PROVE  Schema'
  BY <1>1, QuietSchema, ColumnSchema, ChangeSchema DEF Quiet, Step
<1>2. CASE UNCHANGED vars
  <2>1. UNCHANGED <<file, tx, todo, found, opened>>
    BY <1>2 DEF vars, sqlVars
  <2> QED BY <2>1 DEF Schema, Writer, Now, AskColumns, Column, Ask, Statement
<1> QED BY <1>1, <1>2 DEF Next

-----------------------------------------------------------------------------
(* The log of events.                                                      *)

\* What is soon told after a step.
LEMMA SoonNext ==
    ASSUME NEW s \in Stores, NEW what, NEW key, NEW n
    PROVE  Soon(s, what, key, n)' <=>
              \E i \in DOMAIN todo'[s] : i <= n /\ todo'[s][i] = Ev(what, key)
BY DEF Soon, Ev, Event, Do, Statement

\* What comes after the statements done, and how they come before it.
LEMMA Earlier ==
    ASSUME NEW s \in Stores, Program(s), NEW k \in Nat, Moved(s, k), NEW i \in DOMAIN todo'[s]
    PROVE  /\ i \in Nat \ {0} /\ i + (k + 1) \in DOMAIN todo[s]
           /\ todo'[s][i] = todo[s][i + (k + 1)]
           /\ Before(todo'[s][i], i, todo[s][k + 1])
           /\ Before(todo'[s][i], i + k, Now(s))
<1>1. /\ Len(todo[s]) \in Nat /\ DOMAIN todo[s] = 1..Len(todo[s]) /\ Shaped(todo[s])
      /\ todo[s] # <<>> => Now(s) = todo[s][1]
  BY Ahead DEF Program
<1>2. /\ i \in 1..(Len(todo[s]) - (k + 1)) /\ todo'[s][i] = todo[s][i + (k + 1)]
      /\ i + (k + 1) \in DOMAIN todo[s]
  BY DEF Moved
<1>3. PICK n \in Nat : n = Len(todo[s])
  BY <1>1
<1>4. i \in 1..(n - (k + 1)) /\ k \in Nat
  BY <1>2, <1>3
<1>5. /\ i \in Nat \ {0} /\ k + 1 \in 1..n /\ 1 \in 1..n
      /\ k + 1 < i + (k + 1) /\ i + (k + 1) - (k + 1) = i
      /\ 1 < i + (k + 1) /\ i + (k + 1) - 1 = i + k
  BY <1>4
<1>6. todo[s] # <<>>
  BY <1>1, <1>3, <1>5
<1>7. \A a, b \in DOMAIN todo[s] : a < b => Before(todo[s][b], b - a, todo[s][a])
  BY <1>1 DEF Shaped
<1>8. PICK m \in Nat : m = i + (k + 1) /\ m - (k + 1) = i /\ m - 1 = i + k
  BY <1>5
<1>9. /\ m \in DOMAIN todo[s] /\ k + 1 \in DOMAIN todo[s] /\ 1 \in DOMAIN todo[s]
      /\ k + 1 < m /\ 1 < m
  BY <1>1, <1>2, <1>3, <1>5, <1>8
<1>10. Before(todo[s][m], m - (k + 1), todo[s][k + 1]) /\ Before(todo[s][m], m - 1, todo[s][1])
  BY <1>7, <1>9
<1> QED BY <1>1, <1>2, <1>5, <1>6, <1>8, <1>10

\* After one statement.
LEMMA SoonShift ==
    ASSUME NEW s \in Stores, Program(s), Moved(s, 0), NEW what, NEW key, NEW n \in Nat,
           Soon(s, what, key, n)'
    PROVE  /\ Soon(s, what, key, n) \/ Before(Ev(what, key), n, Now(s))
           /\ \E i \in 1..n : Before(Ev(what, key), i, Now(s))
<1>1. PICK i \in DOMAIN todo'[s] : i <= n /\ todo'[s][i] = Ev(what, key)
  BY SoonNext
<1>2. /\ i \in Nat \ {0} /\ i + (0 + 1) \in DOMAIN todo[s]
      /\ todo'[s][i] = todo[s][i + (0 + 1)]
      /\ Before(todo'[s][i], i + 0, Now(s))
  BY Earlier
<1>3. i + (0 + 1) = i + 1 /\ i + 0 = i /\ i \in 1..n /\ (i + 1 <= n \/ i = n)
  BY <1>1, <1>2
<1>4. Before(Ev(what, key), i, Now(s))
  BY <1>1, <1>2, <1>3
<1>5. i + 1 <= n => Soon(s, what, key, n)
  BY <1>1, <1>2, <1>3 DEF Soon
<1> QED BY <1>3, <1>4, <1>5

\* After a skip.
LEMMA SoonSkip ==
    ASSUME NEW s \in Stores, Program(s), NEW k \in Nat, Moved(s, k), NEW what, NEW key,
           NEW n \in Nat, Soon(s, what, key, n)'
    PROVE  \E i \in 1..n : /\ Before(Ev(what, key), i, todo[s][k + 1])
                           /\ Before(Ev(what, key), i + k, Now(s))
<1>1. PICK i \in DOMAIN todo'[s] : i <= n /\ todo'[s][i] = Ev(what, key)
  BY SoonNext
<1>2. /\ i \in Nat \ {0}
      /\ Before(todo'[s][i], i, todo[s][k + 1])
      /\ Before(todo'[s][i], i + k, Now(s))
  BY Earlier
<1>3. i \in 1..n
  BY <1>1, <1>2
<1> QED BY <1>1, <1>2, <1>3

\* A program that begins, or the rest of one, tells nothing soon.
LEMMA SoonBegins ==
    ASSUME NEW s \in Stores, todo'[s] \in Seq(Statements), Begins(todo'[s]), NEW key
    PROVE  /\ ~Soon(s, "started", key, 3)'
           /\ ~Soon(s, "finished", key, 4)'
           /\ \A n \in {3, 6, 7} : ~Soon(s, "synced", key, n)'
<1>1. /\ Reach(Ev("started", key)) = 4 /\ Reach(Ev("finished", key)) = 4
      /\ Reach(Ev("synced", key)) = 8
  <2>1. /\ Tells(Ev("started", key), "started") /\ Tells(Ev("finished", key), "finished")
        /\ Tells(Ev("synced", key), "synced") /\ ~Tells(Ev("synced", key), "started")
        /\ ~Tells(Ev("synced", key), "finished") /\ ~Tells(Ev("started", key), "synced")
        /\ ~Tells(Ev("finished", key), "synced")
        /\ \A what : Ev(what, key).sql = "insert_event" /\ Ev(what, key) # Answer("memory")
    BY DEF Tells, Ev, Event, Do, Answer, Statement
  <2> QED BY <2>1 DEF Reach
<1>2. \A i \in DOMAIN todo'[s] : i \in Nat /\ i > Reach(todo'[s][i])
  BY LenProperties DEF Begins
<1>3. ASSUME NEW what, NEW n \in Nat, Soon(s, what, key, n)'
      PROVE  n > Reach(Ev(what, key)) \/ Reach(Ev(what, key)) \notin Nat
  <2>1. PICK i \in DOMAIN todo'[s] : i <= n /\ todo'[s][i] = Ev(what, key)
    BY <1>3, SoonNext
  <2>2. i \in Nat /\ i > Reach(Ev(what, key))
    BY <1>2, <2>1
  <2> QED BY <2>1, <2>2
<1> QED BY <1>1, <1>3

\* The events and what stands before them.
LEMMA EventsBefore ==
    ASSUME NEW y, NEW key
    PROVE  /\ Before(Ev("started", key), 1, y) => y = Read
           /\ Before(Ev("started", key), 2, y) => y = Commit
           /\ Before(Ev("started", key), 3, y) => y = Do("insert_session", key)
           /\ Before(Ev("started", key), 4, y) => y = AskSession(key)
           /\ Before(Ev("finished", key), 1, y) => y = Read
           /\ Before(Ev("finished", key), 2, y) => y = Commit
           /\ Before(Ev("finished", key), 3, y) => y.sql = "update_session"
           /\ Before(Ev("finished", key), 4, y) => y = AskToFinish(key)
           /\ \A n \in {1, 4} : Before(Ev("synced", key), n, y) => y = Read
           /\ \A n \in {2, 5} : Before(Ev("synced", key), n, y) => y = Commit
           /\ Before(Ev("synced", key), 3, y) => y = Put(key, "artifact")
           /\ Before(Ev("synced", key), 6, y) => y = Put(key, "member")
           /\ Before(Ev("synced", key), 7, y) => y = WriteFile(key)
           /\ Before(Ev("synced", key), 8, y) => y = AskProfile(key)
<1>1. /\ Tells(Ev("started", key), "started") /\ Ev("started", key).key.key = key
      /\ Tells(Ev("finished", key), "finished") /\ Ev("finished", key).key.key = key
      /\ Tells(Ev("synced", key), "synced") /\ Ev("synced", key).key.key = key
  BY DEF Tells, Ev, Event, Do, Statement
<1>2. \A n : Before(Ev("started", key), n, y) =>
          /\ n = 1 => y = Read
          /\ n = 2 => y = Commit
          /\ n = 3 => y = Do("insert_session", key)
          /\ n = 4 => y = AskSession(key)
  BY <1>1 DEF Before
<1>3. \A n : Before(Ev("finished", key), n, y) =>
          /\ n = 1 => y = Read
          /\ n = 2 => y = Commit
          /\ n = 3 => y.sql = "update_session"
          /\ n = 4 => y = AskToFinish(key)
  BY <1>1 DEF Before
<1>4. \A n : Before(Ev("synced", key), n, y) =>
          /\ n \in {1, 4} => y = Read
          /\ n \in {2, 5} => y = Commit
          /\ n = 3 => y = Put(key, "artifact")
          /\ n = 6 => y = Put(key, "member")
          /\ n = 7 => y = WriteFile(key)
          /\ n = 8 => y = AskProfile(key)
  BY <1>1 DEF Before
<1> QED BY <1>2, <1>3, <1>4

\* What comes soon after a skip: a project's event, after its profile was found.
LEMMA SkipSoon ==
    ASSUME NEW s \in Stores, Program(s), todo[s] # <<>>, Now(s) \in Queries, Now(s).skip > 0,
           Moved(s, Now(s).skip), NEW key
    PROVE  /\ ~Soon(s, "started", key, 3)'
           /\ ~Soon(s, "finished", key, 4)'
           /\ ~Soon(s, "synced", key, 3)' /\ ~Soon(s, "synced", key, 6)'
           /\ Soon(s, "synced", key, 7)' => Now(s) = AskProfile(key)
<1> DEFINE k == Now(s).skip
           y == todo[s][k + 1]
<1>1. /\ k \in {1, 2, 3, 5} /\ k \in Nat
      /\ y = IF Now(s).sql = "id" THEN Read
             ELSE IF Now(s).sql = "profile" THEN WriteFile(Now(s).key) ELSE Commit
      /\ Now(s).sql \notin {"digest", "profile"} => Begins(todo'[s])
  BY Landing
<1>2. todo'[s] \in Seq(Statements)
  BY DEF Moved, Shaped
<1>3. CASE Now(s).sql \notin {"digest", "profile"}
  BY <1>1, <1>2, <1>3, SoonBegins
<1>4. /\ \A n \in 1..3 : n \in {1, 2, 3}
      /\ \A n \in 1..4 : n \in {1, 2, 3, 4}
      /\ \A n \in 1..7 : n \in {1, 2, 3, 4, 5, 6, 7}
  OBVIOUS
<1>5. /\ Soon(s, "started", key, 3)' =>
            \E i \in {1, 2, 3} : /\ Before(Ev("started", key), i, y)
                                 /\ Before(Ev("started", key), i + k, Now(s))
      /\ Soon(s, "finished", key, 4)' =>
            \E i \in {1, 2, 3, 4} : /\ Before(Ev("finished", key), i, y)
                                    /\ Before(Ev("finished", key), i + k, Now(s))
      /\ Soon(s, "synced", key, 7)' =>
            \E i \in {1, 2, 3, 4, 5, 6, 7} : /\ Before(Ev("synced", key), i, y)
                                             /\ Before(Ev("synced", key), i + k, Now(s))
      /\ \A n \in {3, 6} : Soon(s, "synced", key, n)' =>
            \E i \in {1, 2, 3, 4, 5, 6} : /\ Before(Ev("synced", key), i, y)
                                          /\ Before(Ev("synced", key), i + k, Now(s))
  <2>1. /\ \A n \in 1..6 : n \in {1, 2, 3, 4, 5, 6}
        /\ \A n \in 1..3 : n \in {1, 2, 3, 4, 5, 6}
    OBVIOUS
  <2> HIDE DEF k
  <2>2. k \in Nat /\ Moved(s, k)
    BY <1>1 DEF k
  <2>3. /\ Soon(s, "started", key, 3)' =>
              \E i \in 1..3 : /\ Before(Ev("started", key), i, todo[s][k + 1])
                              /\ Before(Ev("started", key), i + k, Now(s))
        /\ Soon(s, "finished", key, 4)' =>
              \E i \in 1..4 : /\ Before(Ev("finished", key), i, todo[s][k + 1])
                              /\ Before(Ev("finished", key), i + k, Now(s))
    BY <2>2, SoonSkip
  <2>4. \A n \in {3, 6, 7} : Soon(s, "synced", key, n)' =>
              \E i \in 1..n : /\ Before(Ev("synced", key), i, todo[s][k + 1])
                              /\ Before(Ev("synced", key), i + k, Now(s))
    BY <2>2, SoonSkip
  <2> QED BY <2>1, <2>3, <2>4, <1>4
<1>6. CASE Now(s).sql = "digest"
  <2>1. y = Commit /\ k = 2
    BY <1>1, <1>6, QueryKinds
  <2>2. /\ Commit # Read /\ Commit.sql = "commit"
        /\ Commit # Do("insert_session", key) /\ Commit # AskToFinish(key)
        /\ Commit # Put(key, "artifact") /\ Commit # Put(key, "member") /\ Commit # WriteFile(key)
        /\ Now(s) # AskSession(key) /\ Now(s) # AskToFinish(key) /\ Now(s) # Read
        /\ Now(s) # WriteFile(key)
    BY <1>6 DEF Commit, Read, Do, Put, WriteFile, AskSession, AskToFinish, Ask, Statement
  <2> HIDE DEF k, y
  <2>3. 1 + k = 3 /\ 2 + k = 4 /\ 3 + k = 5 /\ 4 + k = 6 /\ 5 + k = 7 /\ 6 + k = 8 /\ 7 + k = 9
    BY <2>1
  <2> QED BY <1>5, <2>1, <2>2, <2>3, EventsBefore
<1>7. CASE Now(s).sql = "profile"
  <2>1. /\ y = WriteFile(Now(s).key) /\ k = 1
        /\ Now(s) = AskProfile(Now(s).key)
    BY <1>1, <1>7, QueryKinds DEF AskProfile, Ask
  <2>2. /\ y # Read /\ y # Commit /\ y.sql = "profile" /\ y # Do("insert_session", key)
        /\ y # AskToFinish(key) /\ y # Put(key, "artifact") /\ y # Put(key, "member")
    BY <2>1 DEF Commit, Read, Do, Put, WriteFile, AskToFinish, Ask, Statement
  <2> HIDE DEF k, y
  <2>3. 7 + k = 8
    BY <2>1
  <2> QED BY <1>5, <2>1, <2>2, <2>3, EventsBefore
<1> QED BY <1>3, <1>6, <1>7

\* What is soon told, after a quiet step.
LEMMA QuietSoon ==
    ASSUME Base, NEW s \in Stores, Quiet(s)
    PROVE  /\ \A r \in Runs :
                 /\ Soon(s, "started", r, 3)' => Soon(s, "started", r, 3) /\ ~Stop(s)
                 /\ Soon(s, "finished", r, 4)' =>
                       ~Stop(s) /\ (Soon(s, "finished", r, 4) \/ View(s).sessions[r] # "none")
           /\ \A p \in Projects :
                 /\ \A n \in {3, 6} :
                       Soon(s, "synced", p, n)' => Soon(s, "synced", p, n) /\ ~Stop(s)
                 /\ Soon(s, "synced", p, 7)' => Soon(s, "synced", p, 7) \/ p \in profiles'
           /\ profiles \subseteq profiles'
<1>1. Types /\ OneWriter /\ Program(s)
  BY DEF Base
<1> DEFINE Right ==
             /\ \A r \in Runs :
                   /\ Soon(s, "started", r, 3)' => Soon(s, "started", r, 3) /\ ~Stop(s)
                   /\ Soon(s, "finished", r, 4)' =>
                         ~Stop(s) /\ (Soon(s, "finished", r, 4) \/ View(s).sessions[r] # "none")
             /\ \A p \in Projects :
                   /\ \A n \in {3, 6} :
                         Soon(s, "synced", p, n)' => Soon(s, "synced", p, n) /\ ~Stop(s)
                   /\ Soon(s, "synced", p, 7)' => Soon(s, "synced", p, 7) \/ p \in profiles'
<1>2. profiles \subseteq profiles'
  BY <1>1, OpenMoves, DispatchMoves, QueryMoves, CommitMoves, ProfileMoves, ReturnMoves,
     TimesOutMoves, StopMoves DEF Quiet
<1>3. ASSUME NEW q, Given(s, q)
      PROVE  Right
  <2>1. todo'[s] \in Seq(Statements) /\ Begins(todo'[s])
    BY <1>3 DEF Given, Shaped
  <2> QED BY <2>1, SoonBegins
<1>4. ASSUME Moved(s, 0), todo[s] # <<>>, Now(s).is # "change", ~Stop(s),
             \A r \in Runs : Now(s) = AskToFinish(r) => View(s).sessions[r] # "none",
             \A p \in Projects : Now(s) = WriteFile(p) => p \in profiles'
      PROVE  Right
  <2>1. ASSUME NEW r \in Runs
        PROVE  /\ Soon(s, "started", r, 3)' => Soon(s, "started", r, 3)
               /\ Soon(s, "finished", r, 4)' =>
                     Soon(s, "finished", r, 4) \/ View(s).sessions[r] # "none"
    <3>1. Now(s) # Do("insert_session", r)
      BY <1>4 DEF Do, Statement
    <3>2. Soon(s, "started", r, 3)' =>
              Soon(s, "started", r, 3) \/ Before(Ev("started", r), 3, Now(s))
      BY <1>1, <1>4, SoonShift
    <3>3. Soon(s, "finished", r, 4)' =>
              Soon(s, "finished", r, 4) \/ Before(Ev("finished", r), 4, Now(s))
      BY <1>1, <1>4, SoonShift
    <3> QED BY <1>4, <3>1, <3>2, <3>3, EventsBefore
  <2>2. ASSUME NEW p \in Projects
        PROVE  /\ \A n \in {3, 6} : Soon(s, "synced", p, n)' => Soon(s, "synced", p, n)
               /\ Soon(s, "synced", p, 7)' => Soon(s, "synced", p, 7) \/ p \in profiles'
    <3>1. Now(s) # Put(p, "artifact") /\ Now(s) # Put(p, "member")
      BY <1>4 DEF Put, Do, Statement
    <3>2. Soon(s, "synced", p, 3)' =>
              Soon(s, "synced", p, 3) \/ Before(Ev("synced", p), 3, Now(s))
      BY <1>1, <1>4, SoonShift
    <3>3. Soon(s, "synced", p, 6)' =>
              Soon(s, "synced", p, 6) \/ Before(Ev("synced", p), 6, Now(s))
      BY <1>1, <1>4, SoonShift
    <3>4. Soon(s, "synced", p, 7)' =>
              Soon(s, "synced", p, 7) \/ Before(Ev("synced", p), 7, Now(s))
      BY <1>1, <1>4, SoonShift
    <3> QED BY <1>4, <3>1, <3>2, <3>3, <3>4, EventsBefore
  <2> QED BY <1>4, <2>1, <2>2
<1>5. CASE Stop(s)
  <2>1. Given(s, <<>>)
    BY <1>1, <1>5, StopMoves
  <2>2. \A what, key, n : ~Soon(s, what, key, n)'
    BY <2>1 DEF Soon, Given
  <2> QED BY <1>2, <2>2
<1>6. CASE Query(s) /\ ~Stop(s)
  <2>1. /\ todo[s] # <<>> /\ Now(s) \in Queries /\ Now(s).is = "query"
        /\ found'[s] \in Matches(s, Now(s))
        /\ \/ Given(s, <<>>)
           \/ Moved(s, 0) /\ (Now(s).when = "none_raises" => found'[s] # {})
           \/ /\ Moved(s, Now(s).skip) /\ Now(s).skip > 0
              /\ (Now(s).when = "found" => found'[s] # {})
        /\ profiles' = profiles
    BY <1>1, <1>6, QueryMoves, QueryKinds
  <2>2. CASE Moved(s, 0) /\ (Now(s).when = "none_raises" => found'[s] # {})
    <3>1. ASSUME NEW r \in Runs, Now(s) = AskToFinish(r)
          PROVE  View(s).sessions[r] # "none"
      BY <2>1, <2>2, <3>1 DEF AskToFinish, Ask, Matches, Selected
    <3>2. \A p \in Projects : Now(s) # WriteFile(p)
      BY <2>1 DEF WriteFile, Statement
    <3> QED BY <1>2, <1>4, <1>6, <2>1, <2>2, <3>1, <3>2
  <2>3. CASE /\ Moved(s, Now(s).skip) /\ Now(s).skip > 0
             /\ (Now(s).when = "found" => found'[s] # {})
    <3>1. ASSUME NEW p \in Projects, Now(s) = AskProfile(p)
          PROVE  p \in profiles'
      BY <2>1, <2>3, <3>1 DEF AskProfile, Ask, Matches, Selected
    <3>2. \A key : /\ ~Soon(s, "started", key, 3)'
                   /\ ~Soon(s, "finished", key, 4)'
                   /\ ~Soon(s, "synced", key, 3)' /\ ~Soon(s, "synced", key, 6)'
                   /\ Soon(s, "synced", key, 7)' => Now(s) = AskProfile(key)
      BY <1>1, <2>1, <2>3, SkipSoon
    <3> QED BY <1>2, <3>1, <3>2
  <2> QED BY <1>2, <1>3, <2>1, <2>2, <2>3
<1>7. CASE WriteProfile(s) /\ ~Stop(s)
  <2>1. PICK p \in Projects : Now(s) = WriteFile(p) /\ profiles' = profiles \cup {p}
    BY <1>1, <1>7, ProfileMoves
  <2>2. todo[s] # <<>> /\ Moved(s, 0)
    BY <1>1, <1>7, ProfileMoves
  <2>3. /\ Now(s).is # "change" /\ \A r \in Runs : Now(s) # AskToFinish(r)
        /\ \A x \in Projects : Now(s) = WriteFile(x) => x = p
    BY <2>1 DEF WriteFile, AskToFinish, Ask, Statement
  <2> QED BY <1>2, <1>4, <1>7, <2>1, <2>2, <2>3
<1>8. CASE (CommitWork(s) \/ Return(s)) /\ ~Stop(s)
  <2>1. /\ todo[s] # <<>> /\ Moved(s, 0)
        /\ Now(s) \in {Commit, Answer("store"), Answer("memory")}
    BY <1>1, <1>8, CommitMoves, ReturnMoves
  <2>2. /\ Now(s).is # "change" /\ \A r \in Runs : Now(s) # AskToFinish(r)
        /\ \A x \in Projects : Now(s) # WriteFile(x)
    BY <2>1 DEF Commit, Answer, WriteFile, AskToFinish, Ask, Statement
  <2> QED BY <1>2, <1>4, <1>8, <2>1, <2>2
<1>9. CASE TimesOut(s) /\ ~Stop(s)
  <2>1. /\ todo[s] # <<>>
        /\ Given(s, <<>>) \/ (Moved(s, 0) /\ Now(s).sql = "match")
    BY <1>1, <1>9, TimesOutMoves
  <2>2. CASE Moved(s, 0) /\ Now(s).sql = "match"
    <3>1. todo[s] # <<>> /\ (Now(s).is = "change" <=> Now(s) \in Changers)
      BY <1>1, <1>9, TimesOutMoves, Ahead, Kinds
    <3>2. /\ Now(s).is # "change" /\ \A r \in Runs : Now(s) # AskToFinish(r)
          /\ \A x \in Projects : Now(s) # WriteFile(x)
      BY <2>2, <3>1, ChangeKinds DEF WriteFile, AskToFinish, Ask, Statement
    <3> QED BY <1>2, <1>4, <1>9, <2>2, <3>1, <3>2
  <2> QED BY <1>2, <1>3, <2>1, <2>2
<1>10. CASE Open(s) \/ Dispatch(s)
  BY <1>1, <1>2, <1>3, <1>10, OpenMoves, DispatchMoves
<1> QED BY <1>5, <1>6, <1>7, <1>8, <1>9, <1>10 DEF Quiet

\* What a process sees after a quiet step of it.
LEMMA QuietView ==
    ASSUME Base, NEW s \in Stores, Quiet(s), ~Stop(s)
    PROVE  View(s)' = View(s)
<1>1. Types /\ OneWriter /\ Program(s)
  BY DEF Base
<1>2. SameData => View(s)' = View(s)
  BY DEF SameData, View, Writer
<1>3. UNCHANGED sqlVars => View(s)' = View(s)
  BY DEF sqlVars, View, Writer
<1>4. Committed(s) => View(s)' = View(s)
  BY <1>2 DEF Committed, View
<1> QED BY <1>1, <1>2, <1>3, <1>4, OpenMoves, DispatchMoves, QueryMoves, CommitMoves,
           ProfileMoves, ReturnMoves, TimesOutMoves DEF Quiet


\* A log stays true with more profiles.
LEMMA LogStays ==
    ASSUME NEW db, NEW ps, NEW qs, LogTrue(db, ps), ps \subseteq qs
    PROVE  LogTrue(db, qs)
BY DEF LogTrue

\* Two operators after a step.
LEMMA LogNext ==
    /\ \A o \in Stores, r \in Runs :
          StartTrue(o, r)' <=>
              (Soon(o, "started", r, 3)' =>
                  /\ View(o)'.sessions[r] # "none"
                  /\ Logged(file', "started", r) = {}
                  /\ \A x \in Stores :
                        /\ Writer(x)' => Logged(tx'[x].copy, "started", r) = {}
                        /\ Soon(x, "started", r, 3)' => x = o)
    /\ \A o \in Stores, r \in Runs :
          FinishTrue(o, r)' <=> (Soon(o, "finished", r, 4)' => View(o)'.sessions[r] # "none")
    /\ \A o \in Stores, p \in Projects :
          SyncTrue(o, p)' <=>
              /\ Soon(o, "synced", p, 3)' => <<p, "artifact">> \in View(o)'.context
              /\ Soon(o, "synced", p, 6)' => <<p, "member">> \in View(o)'.context
              /\ Soon(o, "synced", p, 7)' => p \in profiles'
    /\ \A o \in Stores :
          CopyTrue(o)' <=>
              (Writer(o)' =>
                  /\ LogTrue(tx'[o].copy, profiles')
                  /\ \A r \in Runs :
                        file'.sessions[r] # "none" => tx'[o].copy.sessions[r] # "none"
                  /\ file'.context \subseteq tx'[o].copy.context)
BY DEF StartTrue, FinishTrue, SyncTrue, CopyTrue, Logged, LogTrue, Event, Items

\* What others see of a step.
Grows ==
    /\ \A r \in Runs : file.sessions[r] # "none" => file'.sessions[r] # "none"
    /\ file.context \subseteq file'.context

\* Quiet steps leave the log true.
LEMMA QuietLog ==
    ASSUME Base, Log, NEW s \in Stores, Quiet(s)
    PROVE  Log'
<1>1. /\ Types /\ OneWriter /\ Program(s) /\ Preserves(s)
      /\ \A o \in Stores \ {s} : todo'[o] = todo[o]
  BY QuietSteps DEF Base
<1>2. profiles \subseteq profiles'
  BY QuietSoon
<1>3. /\ LogTrue(file, profiles') /\ \A o \in Stores : Writer(o) => LogTrue(tx[o].copy, profiles')
  BY <1>2, LogStays DEF Log, CopyTrue
<1>4. LogTrue(file', profiles')
  BY <1>1, <1>3 DEF Preserves
<1>5. Grows
  BY <1>1 DEF Preserves, Log, CopyTrue, Grows
<1>6. ASSUME NEW o \in Stores
      PROVE  CopyTrue(o)'
  <2>1. ASSUME Writer(o)'
        PROVE  Writer(o) /\ tx'[o].copy = tx[o].copy
    BY <1>1, <2>1 DEF Preserves
  <2>2. ASSUME Writer(o)', ~(Writer(s) /\ file' = tx[s].copy)
        PROVE  file' = file
    BY <1>1, <2>2 DEF Preserves
  <2>3. ASSUME Writer(o)', Writer(s), file' = tx[s].copy
        PROVE  tx'[o].copy = file'
    <3>1. o = s
      BY <1>1, <2>1, <2>3 DEF OneWriter
    <3> QED BY <2>1, <2>3, <3>1
  <2>4. Writer(o) => CopyTrue(o)
    BY DEF Log
  <2>5. ASSUME Writer(o)'
        PROVE  /\ LogTrue(tx'[o].copy, profiles')
               /\ \A r \in Runs : file'.sessions[r] # "none" => tx'[o].copy.sessions[r] # "none"
               /\ file'.context \subseteq tx'[o].copy.context
    BY <1>3, <2>1, <2>2, <2>3, <2>4, <2>5 DEF CopyTrue
  <2> QED BY <2>5, LogNext
<1>7. ASSUME NEW o \in Stores, o # s
      PROVE  /\ \A r \in Runs : View(o).sessions[r] # "none" => View(o)'.sessions[r] # "none"
             /\ View(o).context \subseteq View(o)'.context
             /\ \A what, key, n : Soon(o, what, key, n)' <=> Soon(o, what, key, n)
  <2>1. /\ Writer(o)' <=> Writer(o)
        /\ Writer(o) => View(o)' = View(o)
    BY <1>1, <1>7 DEF Preserves, View, Writer
  <2>2. ~Writer(o) => View(o)' = file' /\ View(o) = file
    BY <2>1 DEF View
  <2>3. \A what, key, n : Soon(o, what, key, n)' <=> Soon(o, what, key, n)
    <3>1. todo'[o] = todo[o]
      BY <1>1, <1>7
    <3> QED BY <3>1, SoonNext DEF Soon
  <2> QED BY <1>5, <2>1, <2>2, <2>3 DEF Grows
<1>8. \A r \in Runs, o \in Stores : Soon(o, "started", r, 3)' => Soon(o, "started", r, 3)
  <2>1. \A r \in Runs : Soon(s, "started", r, 3)' => Soon(s, "started", r, 3)
    BY QuietSoon
  <2> QED BY <1>7, <2>1
<1>9. ASSUME NEW o \in Stores, NEW r \in Runs
      PROVE  StartTrue(o, r)'
  <2> SUFFICES ASSUME Soon(o, "started", r, 3)'
               PROVE  /\ View(o)'.sessions[r] # "none"
                      /\ Logged(file', "started", r) = {}
                      /\ \A x \in Stores :
                            /\ Writer(x)' => Logged(tx'[x].copy, "started", r) = {}
                            /\ Soon(x, "started", r, 3)' => x = o
    BY LogNext
  <2>1. /\ View(o).sessions[r] # "none" /\ Logged(file, "started", r) = {}
        /\ \A x \in Stores : /\ Writer(x) => Logged(tx[x].copy, "started", r) = {}
                             /\ Soon(x, "started", r, 3) => x = o
    BY <1>8 DEF Log, StartTrue
  <2>2. View(o)'.sessions[r] # "none"
    <3>1. CASE o = s
      BY <2>1, <3>1, QuietSoon, QuietView
    <3>2. CASE o # s
      BY <1>7, <2>1, <3>2
    <3> QED BY <3>1, <3>2
  <2>3. Logged(file', "started", r) = {}
    BY <1>1, <2>1 DEF Preserves
  <2>4. \A x \in Stores : Writer(x)' => Logged(tx'[x].copy, "started", r) = {}
    BY <1>1, <2>1 DEF Preserves
  <2> QED BY <1>8, <2>1, <2>2, <2>3, <2>4
<1>10. ASSUME NEW o \in Stores, NEW r \in Runs
       PROVE  FinishTrue(o, r)'
  <2> SUFFICES ASSUME Soon(o, "finished", r, 4)' PROVE View(o)'.sessions[r] # "none"
    BY LogNext
  <2>1. FinishTrue(o, r)
    BY DEF Log
  <2>2. CASE o = s
    <3>1. ~Stop(s) /\ View(s).sessions[r] # "none"
      BY <2>1, <2>2, QuietSoon DEF FinishTrue
    <3> QED BY <2>2, <3>1, QuietView
  <2>3. CASE o # s
    BY <1>7, <2>1, <2>3 DEF FinishTrue
  <2> QED BY <2>2, <2>3
<1>11. ASSUME NEW o \in Stores, NEW p \in Projects
       PROVE  SyncTrue(o, p)'
  <2>1. SyncTrue(o, p)
    BY DEF Log
  <2>2. CASE o = s
    <3>1. /\ \A n \in {3, 6} : Soon(s, "synced", p, n)' => Soon(s, "synced", p, n) /\ ~Stop(s)
          /\ Soon(s, "synced", p, 7)' => Soon(s, "synced", p, 7) \/ p \in profiles'
      BY QuietSoon
    <3>2. ~Stop(s) => View(s)' = View(s)
      BY QuietView
    <3>3. /\ Soon(o, "synced", p, 3)' => <<p, "artifact">> \in View(o)'.context
          /\ Soon(o, "synced", p, 6)' => <<p, "member">> \in View(o)'.context
          /\ Soon(o, "synced", p, 7)' => p \in profiles'
      BY <1>2, <2>1, <2>2, <3>1, <3>2 DEF SyncTrue
    <3> QED BY <3>3, LogNext
  <2>3. CASE o # s
    <3>1. /\ Soon(o, "synced", p, 3)' => <<p, "artifact">> \in View(o)'.context
          /\ Soon(o, "synced", p, 6)' => <<p, "member">> \in View(o)'.context
          /\ Soon(o, "synced", p, 7)' => p \in profiles'
      BY <1>2, <1>7, <2>1, <2>3 DEF SyncTrue
    <3> QED BY <3>1, LogNext
  <2> QED BY <2>2, <2>3
<1>12. LogTrue(file, profiles)'
  BY <1>4 DEF LogTrue, Logged, Event, Items
<1>13. /\ (\A o \in Stores : CopyTrue(o))'
       /\ (\A o \in Stores, r \in Runs : StartTrue(o, r) /\ FinishTrue(o, r))'
       /\ (\A o \in Stores, p \in Projects : SyncTrue(o, p))'
  BY <1>6, <1>9, <1>10, <1>11
<1> QED BY <1>12, <1>13 DEF Log

\* A column does not change the log.
LEMMA ColumnLog ==
    ASSUME Base, Log, NEW s \in Stores, AddColumn(s)
    PROVE  Log'
<1>1. Types /\ OneWriter /\ Program(s)
  BY DEF Base
<1>2. s \notin opened /\ tx' = tx /\ profiles' = profiles /\ opened' = opened
  BY <1>1, ColumnMoves
<1>3. PICK c \in Columns :
          /\ file' = file \/ file' = [file EXCEPT !.columns = @ \cup {c}]
          /\ (Moved(s, 0) \/ Given(s, <<>>))
  BY <1>1, ColumnMoves
<1>4. /\ file'.sessions = file.sessions /\ file'.events = file.events
      /\ file'.context = file.context
  BY <1>1, <1>3 DEF Types, Tables
<1>5. \A what, key : Logged(file', what, key) = Logged(file, what, key)
  BY <1>4 DEF Logged
<1>6. \A o \in Stores : /\ Writer(o)' <=> Writer(o)
                        /\ View(o)'.sessions = View(o).sessions
                        /\ View(o)'.context = View(o).context
  BY <1>2, <1>4 DEF View, Writer
<1>7. \A o \in Stores : \A what, key, n : Soon(o, what, key, n)' => Soon(o, what, key, n)
  <2>1. Opening(todo'[s])
    <3>1. Opening(todo[s])
      BY <1>1, <1>2 DEF Program
    <3> QED BY <1>3, <3>1, Nothings DEF Moved, Given
  <2>2. \A what, key, n : ~Soon(s, what, key, n)'
    <3> SUFFICES ASSUME NEW what, NEW key, NEW n, NEW i \in DOMAIN todo'[s],
                        todo'[s][i] = Ev(what, key)
                 PROVE  FALSE
      BY SoonNext
    <3> QED BY <2>1 DEF Opening, AskColumns, Ask, Commit, Column, Answer, Ev, Do, Statement
  <2>3. \A o \in Stores \ {s} : todo'[o] = todo[o]
    BY <1>3 DEF Moved, Given
  <2> QED BY <2>2, <2>3, SoonNext DEF Soon
<1>8. ASSUME NEW o \in Stores, NEW r \in Runs
      PROVE  StartTrue(o, r)' /\ FinishTrue(o, r)'
  <2>1. StartTrue(o, r) /\ FinishTrue(o, r)
    BY DEF Log
  <2>2. Soon(o, "started", r, 3)' =>
                  /\ View(o)'.sessions[r] # "none"
                  /\ Logged(file', "started", r) = {}
                  /\ \A x \in Stores :
                        /\ Writer(x)' => Logged(tx'[x].copy, "started", r) = {}
                        /\ Soon(x, "started", r, 3)' => x = o
    BY <1>2, <1>5, <1>6, <1>7, <2>1 DEF StartTrue
  <2>3. Soon(o, "finished", r, 4)' => View(o)'.sessions[r] # "none"
    BY <1>6, <1>7, <2>1 DEF FinishTrue
  <2> QED BY <2>2, <2>3, LogNext
<1>9. ASSUME NEW o \in Stores, NEW p \in Projects
      PROVE  SyncTrue(o, p)'
  <2>1. SyncTrue(o, p)
    BY DEF Log
  <2>2. /\ Soon(o, "synced", p, 3)' => <<p, "artifact">> \in View(o)'.context
        /\ Soon(o, "synced", p, 6)' => <<p, "member">> \in View(o)'.context
        /\ Soon(o, "synced", p, 7)' => p \in profiles'
    BY <1>2, <1>6, <1>7, <2>1 DEF SyncTrue
  <2> QED BY <2>2, LogNext
<1>10. LogTrue(file', profiles')
  BY <1>2, <1>4, <1>5 DEF Log, LogTrue
<1>11. \A o \in Stores : CopyTrue(o)'
  <2>1. \A o \in Stores : CopyTrue(o)
    BY DEF Log
  <2> QED BY <1>2, <1>4, <1>6, <2>1, LogNext DEF CopyTrue
<1>12. LogTrue(file, profiles)'
  BY <1>10 DEF LogTrue, Logged, Event, Items
<1>13. /\ (\A o \in Stores : CopyTrue(o))'
       /\ (\A o \in Stores, r \in Runs : StartTrue(o, r) /\ FinishTrue(o, r))'
       /\ (\A o \in Stores, p \in Projects : SyncTrue(o, p))'
  BY <1>8, <1>9, <1>11
<1> QED BY <1>12, <1>13 DEF Log

\* What a change leaves of the tables that the log is about.
LEMMA ChangedLog ==
    ASSUME NEW db \in Tables, NEW a \in Changers, NEW s \in Stores, Allowed(db, a)
    PROVE  /\ \A r \in Runs :
                 /\ db.sessions[r] # "none" => Changed(s, db, a).sessions[r] # "none"
                 /\ a = Do("insert_session", r) =>
                       db.sessions[r] = "none" /\ Changed(s, db, a).sessions[r] # "none"
           /\ db.context \subseteq Changed(s, db, a).context
           /\ a.sql = "upsert" => a.key \in Changed(s, db, a).context
           /\ IF a.sql = "insert_event" THEN Changed(s, db, a).events = Append(db.events, a.key)
              ELSE Changed(s, db, a).events = db.events
<1>1. CASE a.sql = "insert_session"
  <2>1. /\ db.sessions[a.key] = "none" /\ a.key \in Runs
        /\ Changed(s, db, a) = [db EXCEPT !.sessions[a.key] = "running"]
    BY <1>1, ChangeKinds DEF Allowed, Changed
  <2>2. \A r \in Runs : a = Do("insert_session", r) => r = a.key
    BY DEF Do, Statement
  <2> QED BY <1>1, <2>1, <2>2 DEF Tables
<1>2. CASE a.sql = "update_session"
  <2>1. /\ a.key.run \in Runs /\ a.key.status \in States
        /\ Changed(s, db, a) = [db EXCEPT !.sessions[a.key.run] = a.key.status]
    BY <1>2, ChangeKinds DEF Changed
  <2>2. a.key.status # "none"
    BY <2>1 DEF States
  <2> QED BY <1>2, <2>1, <2>2 DEF Tables, Do, Statement
<1>3. CASE a.sql \in {"insert_event", "upsert"}
  BY <1>3 DEF Tables, Changed, Do, Statement
<1>4. CASE a.sql \in {"insert_memory", "update_memory", "delete_memories", "touch",
                      "insert_document", "insert_chunk"}
  BY <1>4 DEF Tables, Changed, Do, Statement
<1> QED BY <1>1, <1>2, <1>3, <1>4, ChangeKinds

\* One more event.
LEMMA LoggedMore ==
    ASSUME NEW db \in Tables, NEW db2, NEW e \in [what : Happenings, key : Runs \cup Projects],
           db2.events = Append(db.events, e), NEW what, NEW key
    PROVE  /\ Logged(db, what, key) \subseteq Logged(db2, what, key)
           /\ e # Event(what, key) => Logged(db2, what, key) = Logged(db, what, key)
           /\ Logged(db, what, key) = {} => \A i, j \in Logged(db2, what, key) : i = j
<1>1. db.events \in Seq([what : Happenings, key : Runs \cup Projects])
  BY DEF Tables
<1>2. PICK n \in Nat : n = Len(db.events)
  BY <1>1
<1>3. /\ DOMAIN db.events = 1..n /\ DOMAIN db2.events = 1..(n + 1)
      /\ \A i \in 1..n : db2.events[i] = db.events[i]
      /\ db2.events[n + 1] = e
  BY <1>1, <1>2
<1>4. \A i \in 1..(n + 1) : i \in 1..n \/ i = n + 1
  OBVIOUS
<1>5. n + 1 \notin 1..n /\ \A i \in 1..n : i \in 1..(n + 1)
  OBVIOUS
<1> QED BY <1>3, <1>4, <1>5 DEF Logged

\* A change leaves the log true.
LEMMA ChangedLogTrue ==
    ASSUME Base, Log, NEW s \in Stores, Change(s), Allowed(View(s), Now(s))
    PROVE  LogTrue(Changed(s, View(s), Now(s)), profiles)
<1> DEFINE a == Now(s)
           db == View(s)
           db2 == Changed(s, db, a)
<1>1. Types /\ OneWriter /\ Program(s)
  BY DEF Base
<1>2. a \in Changers /\ db \in Tables /\ todo[s] # <<>>
  BY ChangeAhead
<1>3. LogTrue(db, profiles)
  BY DEF Log, CopyTrue, View
<1>4. /\ \A r \in Runs : db.sessions[r] # "none" => db2.sessions[r] # "none"
      /\ db.context \subseteq db2.context
      /\ IF a.sql = "insert_event" THEN db2.events = Append(db.events, a.key)
         ELSE db2.events = db.events
  BY <1>2, ChangedLog
<1>5. CASE a.sql # "insert_event"
  <2>1. db2.events = db.events
    BY <1>4, <1>5
  <2>2. \A what, key : Logged(db2, what, key) = Logged(db, what, key)
    BY <2>1 DEF Logged
  <2> HIDE DEF db2, db
  <2>3. LogTrue(db2, profiles)
    BY <1>3, <1>4, <2>2 DEF LogTrue
  <2> QED BY <2>3 DEF db2, db
<1>6. CASE a.sql = "insert_event"
  <2>1. /\ a.key \in [what : Happenings, key : Runs \cup Projects] /\ a = Ev(a.key.what, a.key.key)
    BY <1>2, <1>6, ChangeKinds
  <2>2. db2.events = Append(db.events, a.key)
    BY <1>4, <1>6
  <2>3. \A n \in {3, 4, 6, 7} : Soon(s, a.key.what, a.key.key, n)
    <3>1. a = todo[s][1] /\ 1 \in DOMAIN todo[s]
      BY <1>1, <1>2, Ahead
    <3>2. \A n \in {3, 4, 6, 7} : 1 <= n
      OBVIOUS
    <3> QED BY <2>1, <3>1, <3>2 DEF Soon
  <2>4. \A what, key : a.key = Event(what, key) => a.key.what = what /\ a.key.key = key
    BY DEF Event
  <2> HIDE DEF db2
  <2>5. \A what, key : /\ Logged(db, what, key) \subseteq Logged(db2, what, key)
                       /\ a.key # Event(what, key) => Logged(db2, what, key) = Logged(db, what, key)
                       /\ Logged(db, what, key) = {} => \A i, j \in Logged(db2, what, key) : i = j
    BY <1>2, <2>1, <2>2, LoggedMore
  <2>6. ASSUME NEW r \in Runs
        PROVE  \A i, j \in Logged(db2, "started", r) : i = j
    <3>1. CASE a.key = Event("started", r)
      <4>1. Soon(s, "started", r, 3)
        BY <2>3, <2>4, <3>1
      <4>2. Logged(db, "started", r) = {}
        BY <4>1 DEF Log, StartTrue, View
      <4> QED BY <2>5, <4>2
    <3>2. CASE a.key # Event("started", r)
      BY <1>3, <2>5, <3>2 DEF LogTrue
    <3> QED BY <3>1, <3>2
  <2>7. ASSUME NEW r \in Runs, Logged(db2, "started", r) \cup Logged(db2, "finished", r) # {}
        PROVE  db2.sessions[r] # "none"
    <3>1. CASE a.key = Event("started", r) \/ a.key = Event("finished", r)
      <4>1. Soon(s, "started", r, 3) \/ Soon(s, "finished", r, 4)
        BY <2>3, <2>4, <3>1
      <4>2. db.sessions[r] # "none"
        BY <4>1 DEF Log, StartTrue, FinishTrue
      <4> QED BY <1>4, <4>2
    <3>2. CASE a.key # Event("started", r) /\ a.key # Event("finished", r)
      <4>1. Logged(db, "started", r) \cup Logged(db, "finished", r) # {}
        BY <2>5, <2>7, <3>2
      <4> QED BY <1>3, <1>4, <4>1 DEF LogTrue
    <3> QED BY <3>1, <3>2
  <2>8. ASSUME NEW p \in Projects, Logged(db2, "synced", p) # {}
        PROVE  {p} \X Items \subseteq db2.context /\ p \in profiles
    <3>1. CASE a.key = Event("synced", p)
      <4>1. Soon(s, "synced", p, 3) /\ Soon(s, "synced", p, 6) /\ Soon(s, "synced", p, 7)
        BY <2>3, <2>4, <3>1
      <4>2. <<p, "artifact">> \in db.context /\ <<p, "member">> \in db.context /\ p \in profiles
        BY <4>1 DEF Log, SyncTrue
      <4> QED BY <1>4, <4>2 DEF Items
    <3>2. CASE a.key # Event("synced", p)
      <4>1. Logged(db, "synced", p) # {}
        BY <2>5, <2>8, <3>2
      <4> QED BY <1>3, <1>4, <4>1 DEF LogTrue
    <3> QED BY <3>1, <3>2
  <2>9. LogTrue(db2, profiles)
    BY <2>6, <2>7, <2>8 DEF LogTrue
  <2> QED BY <2>9 DEF db2
<1> QED BY <1>5, <1>6

\* What is soon told after a change.
LEMMA ChangeSoon ==
    ASSUME Base, NEW s \in Stores, Change(s), Moved(s, 0)
    PROVE  /\ \A r \in Runs :
                 /\ Soon(s, "started", r, 3)' => Now(s) = Do("insert_session", r)
                 /\ Soon(s, "finished", r, 4)' => Soon(s, "finished", r, 4)
           /\ \A p \in Projects :
                 /\ Soon(s, "synced", p, 3)' =>
                       Soon(s, "synced", p, 3) \/ Now(s) = Put(p, "artifact")
                 /\ Soon(s, "synced", p, 6)' =>
                       Soon(s, "synced", p, 6) \/ Now(s) = Put(p, "member")
                 /\ Soon(s, "synced", p, 7)' => Soon(s, "synced", p, 7)
<1>1. Program(s) /\ Now(s).is = "change"
  BY ChangeAhead, ChangeKinds DEF Base
<1>2. /\ Now(s) # Read /\ Now(s) # Commit /\ \A r : Now(s) # AskToFinish(r)
      /\ \A p : Now(s) # WriteFile(p)
  BY <1>1 DEF Read, Commit, AskToFinish, Ask, WriteFile, Statement
<1>3. ASSUME NEW r \in Runs
      PROVE  /\ Soon(s, "started", r, 3)' => Now(s) = Do("insert_session", r)
             /\ Soon(s, "finished", r, 4)' => Soon(s, "finished", r, 4)
  <2>1. Soon(s, "started", r, 3)' => \E i \in 1..3 : Before(Ev("started", r), i, Now(s))
    BY <1>1, SoonShift
  <2>2. \A i \in 1..3 : i \in {1, 2, 3}
    OBVIOUS
  <2>3. Soon(s, "finished", r, 4)' =>
            Soon(s, "finished", r, 4) \/ Before(Ev("finished", r), 4, Now(s))
    BY <1>1, SoonShift
  <2> QED BY <1>2, <2>1, <2>2, <2>3, EventsBefore
<1>4. ASSUME NEW p \in Projects
      PROVE  /\ Soon(s, "synced", p, 3)' =>
                   Soon(s, "synced", p, 3) \/ Now(s) = Put(p, "artifact")
             /\ Soon(s, "synced", p, 6)' =>
                   Soon(s, "synced", p, 6) \/ Now(s) = Put(p, "member")
             /\ Soon(s, "synced", p, 7)' => Soon(s, "synced", p, 7)
  <2>1. Soon(s, "synced", p, 3)' =>
            Soon(s, "synced", p, 3) \/ Before(Ev("synced", p), 3, Now(s))
    BY <1>1, SoonShift
  <2>2. Soon(s, "synced", p, 6)' =>
            Soon(s, "synced", p, 6) \/ Before(Ev("synced", p), 6, Now(s))
    BY <1>1, SoonShift
  <2>3. Soon(s, "synced", p, 7)' =>
            Soon(s, "synced", p, 7) \/ Before(Ev("synced", p), 7, Now(s))
    BY <1>1, SoonShift
  <2> QED BY <1>2, <2>1, <2>2, <2>3, EventsBefore
<1> QED BY <1>3, <1>4

\* A change leaves what will be told true.
LEMMA ChangeLog ==
    ASSUME Base, Log, NEW s \in Stores, Change(s)
    PROVE  Log'
<1> DEFINE a == Now(s)
           db == View(s)
           db2 == tx'[s].copy
<1>1. Types /\ OneWriter /\ Program(s)
  BY DEF Base
<1>2. a \in Changers /\ db \in Tables /\ todo[s] # <<>>
  BY ChangeAhead
<1>3. /\ \/ /\ Allowed(db, a) /\ ChangedTo(s, Changed(s, db, a)) /\ Moved(s, 0)
         \/ ChangedTo(s, db) /\ Given(s, <<>>)
      /\ profiles' = profiles
  BY <1>1, ChangeMoves
<1>4. /\ file' = file /\ Writer(s)' /\ \A o \in Stores \ {s} : ~Writer(o) /\ ~Writer(o)'
      /\ \A o \in Stores \ {s} : todo'[o] = todo[o]
  BY <1>3 DEF ChangedTo, Moved, Given
<1>5. /\ View(s)' = db2
      /\ \A o \in Stores \ {s} : View(o)' = file /\ View(o) = file
  BY <1>4 DEF View
<1>6. /\ \A o \in Stores \ {s} : \A what, key, n : Soon(o, what, key, n)' <=> Soon(o, what, key, n)
  BY <1>4, SoonNext DEF Soon
<1>7. Given(s, <<>>) => \A what, key, n : ~Soon(s, what, key, n)'
  BY SoonNext DEF Given
<1>8. /\ LogTrue(db2, profiles)
      /\ \A r \in Runs : db.sessions[r] # "none" => db2.sessions[r] # "none"
      /\ db.context \subseteq db2.context
  <2>1. LogTrue(db, profiles)
    BY DEF Log, CopyTrue, View
  <2>2. CASE ChangedTo(s, db)
    BY <2>1, <2>2 DEF ChangedTo
  <2>3. CASE Allowed(db, a) /\ ChangedTo(s, Changed(s, db, a))
    <3>1. db2 = Changed(s, db, a)
      BY <2>3 DEF ChangedTo
    <3> QED BY <1>2, <2>3, <3>1, ChangedLogTrue, ChangedLog
  <2> QED BY <1>3, <2>2, <2>3
<1>9. /\ \A r \in Runs : file.sessions[r] # "none" => db.sessions[r] # "none"
      /\ file.context \subseteq db.context
  BY DEF Log, CopyTrue, View
<1>10. \A o \in Stores : CopyTrue(o)'
  <2>1. /\ \A r \in Runs : file'.sessions[r] # "none" => tx'[s].copy.sessions[r] # "none"
        /\ file'.context \subseteq tx'[s].copy.context
        /\ LogTrue(tx'[s].copy, profiles')
    BY <1>3, <1>4, <1>8, <1>9
  <2> QED BY <1>4, <2>1, LogNext
<1>11. LogTrue(file', profiles')
  BY <1>3, <1>4 DEF Log
<1>12. ASSUME NEW r \in Runs, Soon(s, "started", r, 3)'
       PROVE  /\ Allowed(db, a) /\ a = Do("insert_session", r) /\ db2 = Changed(s, db, a)
              /\ db.sessions[r] = "none" /\ db2.sessions[r] # "none"
  <2>1. Allowed(db, a) /\ ChangedTo(s, Changed(s, db, a)) /\ Moved(s, 0)
    BY <1>3, <1>7, <1>12
  <2>2. db2 = Changed(s, db, a)
    BY <2>1 DEF ChangedTo
  <2>3. a = Do("insert_session", r)
    BY <1>12, <2>1, ChangeSoon
  <2> QED BY <1>2, <2>1, <2>2, <2>3, ChangedLog
<1>13. ASSUME NEW r \in Runs, NEW o \in Stores, Soon(o, "started", r, 3)'
       PROVE  /\ View(o)'.sessions[r] # "none"
              /\ Logged(file', "started", r) = {}
              /\ \A x \in Stores :
                    /\ Writer(x)' => Logged(tx'[x].copy, "started", r) = {}
                    /\ Soon(x, "started", r, 3)' => x = o
  <2>1. CASE o = s
    <3>1. /\ a = Do("insert_session", r) /\ db2 = Changed(s, db, a) /\ Allowed(db, a)
          /\ db.sessions[r] = "none" /\ db2.sessions[r] # "none"
      BY <1>12, <1>13, <2>1
    <3>2. file.sessions[r] = "none"
      BY <1>9, <3>1
    <3>3. Logged(file, "started", r) = {} /\ Logged(db, "started", r) = {}
      <4>1. LogTrue(file, profiles) /\ LogTrue(db, profiles)
        BY DEF Log, CopyTrue, View
      <4> QED BY <3>1, <3>2, <4>1 DEF LogTrue
    <3>4. db2.events = db.events
      <4>1. a.sql # "insert_event"
        BY <3>1 DEF Do, Statement
      <4> QED BY <1>2, <3>1, <4>1, ChangedLog
    <3>5. Logged(db2, "started", r) = {}
      BY <3>3, <3>4 DEF Logged
    <3>6. ASSUME NEW x \in Stores, Soon(x, "started", r, 3)', x # s
          PROVE  FALSE
      <4>1. Soon(x, "started", r, 3)
        BY <1>6, <3>6
      <4>2. View(x).sessions[r] # "none"
        BY <4>1 DEF Log, StartTrue
      <4> QED BY <1>5, <3>2, <3>6, <4>2
    <3> QED BY <1>4, <1>5, <2>1, <3>1, <3>3, <3>5, <3>6
  <2>2. CASE o # s
    <3>1. Soon(o, "started", r, 3)
      BY <1>6, <1>13, <2>2
    <3>2. /\ View(o).sessions[r] # "none" /\ Logged(file, "started", r) = {}
          /\ \A x \in Stores : /\ Writer(x) => Logged(tx[x].copy, "started", r) = {}
                               /\ Soon(x, "started", r, 3) => x = o
      BY <3>1 DEF Log, StartTrue
    <3>3. Logged(db, "started", r) = {}
      BY <3>2 DEF View
    <3>4. ~Soon(s, "started", r, 3)'
      <4>1. file.sessions[r] # "none"
        BY <1>5, <2>2, <3>2
      <4> QED BY <1>9, <1>12, <4>1
    <3>5. Logged(db2, "started", r) = {}
      <4>1. CASE ChangedTo(s, db)
        BY <3>3, <4>1 DEF ChangedTo
      <4>2. CASE Allowed(db, a) /\ ChangedTo(s, Changed(s, db, a))
        <5>1. db2 = Changed(s, db, a)
          BY <4>2 DEF ChangedTo
        <5>2. IF a.sql = "insert_event" THEN db2.events = Append(db.events, a.key)
              ELSE db2.events = db.events
          BY <1>2, <4>2, <5>1, ChangedLog
        <5>3. CASE a.sql # "insert_event"
          <6>1. db2.events = db.events
            BY <5>2, <5>3
          <6> QED BY <3>3, <6>1 DEF Logged
        <5>4. CASE a.sql = "insert_event"
          <6>1. /\ a.key \in [what : Happenings, key : Runs \cup Projects]
                /\ a = Ev(a.key.what, a.key.key)
            BY <1>2, <5>4, ChangeKinds
          <6>2. a.key # Event("started", r)
            <7> SUFFICES ASSUME a.key = Event("started", r) PROVE FALSE
              OBVIOUS
            <7>1. a.key.what = "started" /\ a.key.key = r
              BY DEF Event
            <7>2. a = todo[s][1] /\ 1 \in DOMAIN todo[s] /\ a = Ev("started", r)
              BY <1>1, <1>2, <6>1, <7>1, Ahead
            <7>3. todo[s][1] = Ev("started", r) /\ 1 <= 3 /\ 1 \in DOMAIN todo[s]
              BY <7>2
            <7>4. Soon(s, "started", r, 3)
              BY <7>3 DEF Soon
            <7> QED BY <2>2, <3>2, <7>4
          <6>3. db2.events = Append(db.events, a.key)
            BY <5>2, <5>4
          <6> HIDE DEF db2
          <6>4. Logged(db2, "started", r) = Logged(db, "started", r)
            BY <1>2, <6>1, <6>2, <6>3, LoggedMore
          <6> QED BY <3>3, <6>4
        <5> QED BY <5>3, <5>4
      <4> QED BY <1>3, <4>1, <4>2
    <3> QED BY <1>4, <1>5, <1>6, <2>2, <3>2, <3>4, <3>5
  <2> QED BY <2>1, <2>2
<1>14. ASSUME NEW r \in Runs, NEW o \in Stores, Soon(o, "finished", r, 4)'
       PROVE  View(o)'.sessions[r] # "none"
  <2>1. Soon(o, "finished", r, 4)
    BY <1>3, <1>6, <1>7, <1>14, ChangeSoon
  <2>2. View(o).sessions[r] # "none"
    BY <2>1 DEF Log, FinishTrue
  <2> QED BY <1>5, <1>8, <2>2
<1>15. ASSUME NEW p \in Projects, NEW o \in Stores
       PROVE  /\ Soon(o, "synced", p, 3)' => <<p, "artifact">> \in View(o)'.context
              /\ Soon(o, "synced", p, 6)' => <<p, "member">> \in View(o)'.context
              /\ Soon(o, "synced", p, 7)' => p \in profiles'
  <2>1. SyncTrue(o, p)
    BY DEF Log
  <2>2. CASE o # s
    BY <1>3, <1>5, <1>6, <2>1, <2>2 DEF SyncTrue
  <2>3. CASE o = s /\ Given(s, <<>>)
    BY <1>7, <2>3
  <2>4. CASE o = s /\ Allowed(db, a) /\ ChangedTo(s, Changed(s, db, a)) /\ Moved(s, 0)
    <3>1. \A item \in Items : a = Put(p, item) => <<p, item>> \in db2.context
      <4>1. db2 = Changed(s, db, a)
        BY <2>4 DEF ChangedTo
      <4>2. \A item \in Items : a = Put(p, item) => a.sql = "upsert" /\ a.key = <<p, item>>
        BY DEF Put, Do, Statement
      <4> QED BY <1>2, <2>4, <4>1, <4>2, ChangedLog
    <3>2. "artifact" \in Items /\ "member" \in Items
      BY DEF Items
    <3>3. /\ Soon(s, "synced", p, 3)' => Soon(s, "synced", p, 3) \/ a = Put(p, "artifact")
          /\ Soon(s, "synced", p, 6)' => Soon(s, "synced", p, 6) \/ a = Put(p, "member")
          /\ Soon(s, "synced", p, 7)' => Soon(s, "synced", p, 7)
      BY <2>4, ChangeSoon
    <3>4. /\ Soon(s, "synced", p, 3)' => <<p, "artifact">> \in db2.context
          /\ Soon(s, "synced", p, 6)' => <<p, "member">> \in db2.context
          /\ Soon(s, "synced", p, 7)' => p \in profiles'
      BY <1>3, <1>8, <2>1, <2>4, <3>1, <3>2, <3>3 DEF SyncTrue
    <3> QED BY <1>5, <2>4, <3>4
  <2> QED BY <1>3, <2>2, <2>3, <2>4
<1>16. LogTrue(file, profiles)'
  BY <1>11 DEF LogTrue, Logged, Event, Items
<1>17. /\ (\A o \in Stores : CopyTrue(o))'
       /\ (\A o \in Stores, r \in Runs : StartTrue(o, r) /\ FinishTrue(o, r))'
       /\ (\A o \in Stores, p \in Projects : SyncTrue(o, p))'
  BY <1>10, <1>13, <1>14, <1>15, LogNext
<1> QED BY <1>16, <1>17 DEF Log

\* The log is true, and will be.
LEMMA LogStep ==
    ASSUME Base, Log, [Next]_vars
    PROVE  Log'
<1>1. ASSUME NEW s \in Stores, Open(s) \/ Dispatch(s) \/ Step(s) \/ Stop(s)
      PROVE  Log'
  BY <1>1, QuietLog, ColumnLog, ChangeLog DEF Quiet, Step
<1>2. CASE UNCHANGED vars
  <2>1. UNCHANGED <<file, tx, todo, profiles>>
    BY <1>2 DEF vars, sqlVars
  <2> QED BY <2>1 DEF Log, LogTrue, CopyTrue, StartTrue, FinishTrue, SyncTrue, Logged, Soon, View,
                      Writer, Ev, Event, Do, Statement, Items
<1> QED BY <1>1, <1>2 DEF Next

-----------------------------------------------------------------------------
(* The memories.                                                           *)

\* What a process answers with after a step.
LEMMA AnswerNext ==
    ASSUME NEW s \in Stores
    PROVE  /\ AnswerOf(s)' <=>
                /\ todo'[s] # <<>> /\ Now(s)'.sql = "delete_memories" =>
                      \A m \in found'[s] : m.id \in evicted'
                /\ todo'[s] # <<>> /\ Now(s)'.sql = "insert_memory" => found'[s] = {}
                /\ Len(todo'[s]) > 1 /\ todo'[s][2] = Answer("memory") =>
                      found'[s] = {} /\ Writer(s)' /\ There(tx'[s].copy, evicted', NewId(s)')
                /\ todo'[s] # <<>> /\ Now(s)'.sql = "memory" /\ s \notin failed' =>
                      \A i \in IF found'[s] = {} THEN {NewId(s)'} ELSE {r.id : r \in found'[s]} :
                          There(file', evicted', i)
           /\ CopyKeeps(s)' <=>
                (Writer(s)' =>
                    /\ \A m \in file'.memories : There(tx'[s].copy, evicted', m.id)
                    /\ s \notin failed' => todo'[s] # <<>> /\ Now(s)'.is \in {"change", "commit"})
BY DEF AnswerOf, CopyKeeps, At, There, Answer, Statement

\* The head of a program, and an answer after it, say what came before.
LEMMA MemoryHeads ==
    ASSUME NEW s \in Stores, Program(s), NEW k \in Nat, Moved(s, k)
    PROVE  /\ todo'[s] # <<>> /\ Now(s)'.sql = "delete_memories" =>
                 todo[s][k + 1].sql = "expired"
           /\ todo'[s] # <<>> /\ Now(s)'.sql = "insert_memory" => todo[s][k + 1].sql = "digest"
           /\ todo'[s] # <<>> /\ Now(s)'.sql = "memory" =>
                 /\ todo[s][k + 1] = Commit
                 /\ k = 0 => Len(todo[s]) > 1 /\ todo[s][2] = Answer("memory")
                 /\ k = 2 => Now(s).sql = "digest"
                 /\ ~Begins(todo'[s])
           /\ Len(todo'[s]) > 1 /\ todo'[s][2] = Answer("memory") =>
                 /\ todo[s][k + 1].sql = "insert_memory"
                 /\ k = 0 => Len(todo[s]) > 2 /\ todo[s][3] = Answer("memory")
<1>1. todo'[s] # <<>> => Before(Now(s)', 1, todo[s][k + 1])
  BY NextOne
<1>2. /\ todo'[s] # <<>> /\ Now(s)'.sql = "delete_memories" => todo[s][k + 1].sql = "expired"
      /\ todo'[s] # <<>> /\ Now(s)'.sql = "insert_memory" => todo[s][k + 1].sql = "digest"
  BY <1>1 DEF Before
<1>3. ASSUME todo'[s] # <<>>, Now(s)'.sql = "memory"
      PROVE  /\ todo[s][k + 1] = Commit
             /\ k = 0 => Len(todo[s]) > 1 /\ todo[s][2] = Answer("memory")
             /\ k = 2 => Now(s).sql = "digest"
             /\ ~Begins(todo'[s])
  <2>1. /\ Now(s)' = Answer("memory") /\ Now(s)' = todo[s][k + 2] /\ k + 2 \in DOMAIN todo[s]
        /\ Now(s)' = todo'[s][1] /\ 1 \in DOMAIN todo'[s]
    BY <1>3, NextOne, Kinds
  <2>2. todo[s][k + 1] = Commit
    BY <1>1, <1>3, <2>1 DEF Before
  <2>3. ASSUME k = 0
        PROVE  Len(todo[s]) > 1 /\ todo[s][2] = Answer("memory")
    <3>1. k + 2 = 2 /\ DOMAIN todo[s] = 1..Len(todo[s]) /\ Len(todo[s]) \in Nat
      BY <2>3, Ahead
    <3>2. todo[s][2] = Answer("memory") /\ 2 \in 1..Len(todo[s])
      BY <2>1, <3>1
    <3> QED BY <3>1, <3>2
  <2>4. ASSUME k = 2
        PROVE  Now(s).sql = "digest"
    <3>1. Before(todo'[s][1], 1 + k, Now(s))
      BY <2>1, Earlier
    <3>2. 1 + k = 3
      BY <2>4
    <3> QED BY <2>1, <3>1, <3>2 DEF Before
  <2>5. ~Begins(todo'[s])
    <3>1. Reach(Answer("memory")) = 3
      BY DEF Reach, Tells, Answer, Statement
    <3> QED BY <2>1, <3>1 DEF Begins
  <2> QED BY <2>2, <2>3, <2>4, <2>5
<1>4. ASSUME Len(todo'[s]) > 1, todo'[s][2] = Answer("memory")
      PROVE  /\ todo[s][k + 1].sql = "insert_memory"
             /\ k = 0 => Len(todo[s]) > 2 /\ todo[s][3] = Answer("memory")
  <2>1. todo'[s] \in Seq(Statements) /\ 2 \in DOMAIN todo'[s]
    <3>1. todo'[s] \in Seq(Statements)
      BY DEF Moved, Shaped
    <3>2. DOMAIN todo'[s] = 1..Len(todo'[s]) /\ Len(todo'[s]) \in Nat
      BY <3>1, LenProperties
    <3> QED BY <1>4, <3>1, <3>2
  <2>2. /\ Before(todo'[s][2], 2, todo[s][k + 1])
        /\ 2 + (k + 1) \in DOMAIN todo[s] /\ todo'[s][2] = todo[s][2 + (k + 1)]
    BY <2>1, Earlier
  <2>3. ASSUME k = 0
        PROVE  Len(todo[s]) > 2 /\ todo[s][3] = Answer("memory")
    <3>1. 2 + (k + 1) = 3 /\ DOMAIN todo[s] = 1..Len(todo[s]) /\ Len(todo[s]) \in Nat
      BY <2>3, Ahead
    <3> QED BY <1>4, <2>2, <3>1
  <2> QED BY <1>4, <2>2, <2>3 DEF Before
<1> QED BY <1>2, <1>3, <1>4

\* Where a program begins there is nothing to be answered, inserted or deleted.
LEMMA MemoryBegins ==
    ASSUME NEW q, Shaped(q), Begins(q)
    PROVE  /\ q # <<>> => Head(q).sql \notin {"delete_memories", "insert_memory", "memory"}
           /\ ~(Len(q) > 1 /\ q[2] = Answer("memory"))
<1>1. q \in Seq(Statements)
  BY DEF Shaped
<1>2. /\ Reach(Answer("memory")) = 3
      /\ \A x \in Statements :
            x.sql \in {"delete_memories", "insert_memory", "memory"} => Reach(x) # 0
  <2>1. Reach(Answer("memory")) = 3
    BY DEF Reach, Tells, Answer, Statement
  <2>2. ASSUME NEW x \in Statements, x.sql \in {"delete_memories", "insert_memory"}
        PROVE  Reach(x) # 0
    BY <2>2 DEF Reach, Tells, Answer, Statement
  <2> QED BY <2>1, <2>2, Kinds
<1>3. ASSUME Len(q) > 1, q[2] = Answer("memory")
      PROVE  FALSE
  <2>1. 2 \in DOMAIN q
    BY <1>1, <1>3, LenProperties
  <2> QED BY <1>2, <1>3, <2>1 DEF Begins
<1> QED BY <1>1, <1>2, <1>3, FreshHead

\* A process that has changed something and failed in no call goes on to commit it.
LEMMA QuietWriters ==
    ASSUME Base, NEW s \in Stores, CopyKeeps(s), Quiet(s), Writer(s)'
    PROVE  s \in failed' /\ \A o \in Stores \ {s} : o \in failed' <=> o \in failed
<1>1. Types /\ OneWriter /\ Program(s) /\ Preserves(s)
  BY QuietSteps DEF Base
<1>2. Writer(s) /\ s \in opened
  <2>1. Writer(s)
    BY <1>1 DEF Preserves
  <2> QED BY <1>1, <2>1 DEF OneWriter, Writer, NoTx
<1>3. s \notin failed => todo[s] # <<>> /\ Now(s).is \in {"change", "commit"}
  BY <1>2 DEF CopyKeeps
<1>4. CASE Open(s)
  BY <1>1, <1>2, <1>4, OpenMoves
<1>5. CASE Dispatch(s)
  BY <1>1, <1>3, <1>5, DispatchMoves
<1>6. CASE Query(s)
  BY <1>1, <1>3, <1>6, QueryMoves, QueryKinds
<1>7. CASE CommitWork(s)
  BY <1>1, <1>2, <1>7, CommitMoves DEF Committed
<1>8. CASE WriteProfile(s)
  BY <1>1, <1>3, <1>8, ProfileMoves DEF WriteFile, Statement
<1>9. CASE Return(s)
  BY <1>1, <1>3, <1>9, ReturnMoves DEF Answer, Statement
<1>10. CASE TimesOut(s)
  <2>1. /\ todo[s] # <<>>
        /\ \/ failed' = failed \cup {s}
           \/ failed' = failed /\ Now(s).sql = "match"
    BY <1>1, <1>10, TimesOutMoves
  <2>2. Now(s).sql = "match" => Now(s).is \notin {"change", "commit"}
    <3>1. /\ Now(s).is = "change" <=> Now(s) \in Changers
          /\ Now(s).is = "commit" => Now(s) = Commit
      BY <1>1, <2>1, Ahead, Kinds
    <3> QED BY <3>1, ChangeKinds DEF Commit, Statement
  <2> QED BY <1>3, <2>1, <2>2
<1>11. CASE Stop(s)
  BY <1>1, <1>11, StopMoves
<1> QED BY <1>4, <1>5, <1>6, <1>7, <1>8, <1>9, <1>10, <1>11 DEF Quiet

\* What is there stays there.
LEMMA ThereStays ==
    ASSUME Base, MemoriesKept, NEW s \in Stores, Preserves(s), evicted \subseteq evicted', NEW i
    PROVE  There(file, evicted, i) => There(file', evicted', i)
<1>1. CASE file' = file
  BY <1>1 DEF There
<1>2. CASE Writer(s) /\ file' = tx[s].copy
  <2>1. \A m \in file.memories : There(file', evicted, m.id)
    BY <1>2 DEF MemoriesKept, CopyKeeps
  <2> QED BY <2>1 DEF There
<1> QED BY <1>1, <1>2 DEF Preserves

\* Quiet steps leave the copies of the others, and what they answer.
LEMMA QuietOthersKeep ==
    ASSUME Base, MemoriesKept, NEW s \in Stores, Quiet(s), evicted \subseteq evicted',
           NEW o \in Stores \ {s}, o \in failed' <=> o \in failed
    PROVE  CopyKeeps(o)' /\ AnswerOf(o)'
<1>1. /\ Types /\ OneWriter /\ Preserves(s)
      /\ todo'[o] = todo[o] /\ found'[o] = found[o]
  BY QuietSteps DEF Base
<1>2. CopyKeeps(o) /\ AnswerOf(o)
  BY DEF MemoriesKept
<1>3. /\ Writer(o)' <=> Writer(o)
      /\ Writer(o) => tx'[o].copy = tx[o].copy
  BY <1>1 DEF Preserves
<1>4. calls'[o] = calls[o]
  BY <1>1, QuietSteps, DispatchMoves DEF Types
<1>5. NewId(o)' = NewId(o) /\ (todo[o] # <<>> => Now(o)' = Now(o))
  BY <1>1, <1>4 DEF NewId, Now
<1>6. CopyKeeps(o)'
  <2>1. Writer(o)' => Writer(o) /\ tx'[o].copy = tx[o].copy /\ file' = file
    <3>1. Writer(o) => ~Writer(s)
      BY <1>1 DEF OneWriter
    <3> QED BY <1>1, <3>1 DEF Preserves
  <2>2. Writer(o)' => \A m \in file'.memories : There(tx'[o].copy, evicted', m.id)
    BY <1>2, <2>1 DEF CopyKeeps, There
  <2>3. Writer(o)' => (o \notin failed' => todo'[o] # <<>> /\ Now(o)'.is \in {"change", "commit"})
    BY <1>1, <1>2, <1>5, <2>1 DEF CopyKeeps
  <2> QED BY <2>2, <2>3, AnswerNext
<1>7. AnswerOf(o)'
  <2>1. \A i : There(file, evicted, i) => There(file', evicted', i)
    BY <1>1, ThereStays
  <2>2. todo'[o] # <<>> /\ Now(o)'.sql = "delete_memories" =>
            \A m \in found'[o] : m.id \in evicted'
    BY <1>1, <1>2, <1>5 DEF AnswerOf, At
  <2>3. todo'[o] # <<>> /\ Now(o)'.sql = "insert_memory" => found'[o] = {}
    BY <1>1, <1>2, <1>5 DEF AnswerOf, At
  <2>4. Len(todo'[o]) > 1 /\ todo'[o][2] = Answer("memory") =>
            found'[o] = {} /\ Writer(o)' /\ There(tx'[o].copy, evicted', NewId(o)')
    <3>1. Writer(o) => Writer(o)' /\ tx'[o].copy = tx[o].copy
      BY <1>1 DEF Preserves
    <3>2. There(tx[o].copy, evicted, NewId(o)) => There(tx[o].copy, evicted', NewId(o))
      BY DEF There
    <3> QED BY <1>1, <1>2, <1>5, <3>1, <3>2 DEF AnswerOf
  <2>5. todo'[o] # <<>> /\ Now(o)'.sql = "memory" /\ o \notin failed' =>
            \A i \in IF found'[o] = {} THEN {NewId(o)'} ELSE {r.id : r \in found'[o]} :
                There(file', evicted', i)
    BY <1>1, <1>2, <1>5, <2>1 DEF AnswerOf, At
  <2> QED BY <2>2, <2>3, <2>4, <2>5, AnswerNext
<1> QED BY <1>6, <1>7

\* A process that begins a program, or ends one, has nothing to answer with.
LEMMA GivenAnswer ==
    ASSUME NEW s \in Stores, NEW q, Given(s, q)
    PROVE  AnswerOf(s)'
<1>1. Shaped(q) /\ Begins(q) /\ todo'[s] = q /\ (q # <<>> => Now(s)' = Head(q))
  BY DEF Given, Now
<1>2. /\ todo'[s] # <<>> => Now(s)'.sql \notin {"delete_memories", "insert_memory", "memory"}
      /\ ~(Len(todo'[s]) > 1 /\ todo'[s][2] = Answer("memory"))
  BY <1>1, MemoryBegins
<1> QED BY <1>2, AnswerNext

\* A statement that is none of a memory leads to none.
LEMMA OtherAnswer ==
    ASSUME NEW s \in Stores, Program(s), Moved(s, 0), todo[s] # <<>>,
           Now(s).sql \notin {"expired", "digest", "insert_memory", "commit"}
    PROVE  AnswerOf(s)'
<1>1. todo[s][0 + 1] = Now(s) /\ 0 \in Nat
  BY Ahead
<1>2. /\ todo'[s] # <<>> => Now(s)'.sql \notin {"delete_memories", "insert_memory", "memory"}
      /\ ~(Len(todo'[s]) > 1 /\ todo'[s][2] = Answer("memory"))
  BY <1>1, MemoryHeads DEF Commit, Statement
<1> QED BY <1>2, AnswerNext

\* After a query.
LEMMA QueryAnswer ==
    ASSUME Base, MemoriesKept, NEW s \in Stores, Query(s)
    PROVE  AnswerOf(s)'
<1>1. Types /\ OneWriter /\ Program(s) /\ CopyKeeps(s)
  BY DEF Base, MemoriesKept
<1>2. /\ todo[s] # <<>> /\ Now(s) \in Queries /\ Now(s).is = "query"
      /\ found'[s] \in Matches(s, Now(s)) /\ failed \subseteq failed'
      /\ SameData
      /\ evicted' = IF Now(s).sql # "expired" THEN evicted
                    ELSE evicted \cup {r.id : r \in found'[s]}
      /\ \/ Given(s, <<>>)
         \/ /\ Moved(s, 0)
            /\ Now(s).when = "found" => found'[s] = {}
         \/ /\ Moved(s, Now(s).skip) /\ Now(s).skip > 0
            /\ Now(s).when = "found" => found'[s] # {}
      /\ calls' = calls
  BY <1>1, QueryMoves, QueryKinds
<1>3. CASE Moved(s, 0) /\ (Now(s).when = "found" => found'[s] = {})
  <2>1. todo[s][0 + 1] = Now(s) /\ 0 \in Nat
    BY <1>1, <1>2, Ahead
  <2>2. Now(s).sql \notin {"insert_memory", "commit"}
    BY <1>2, QueryKinds
  <2>3. ~(Len(todo'[s]) > 1 /\ todo'[s][2] = Answer("memory"))
    BY <1>1, <1>3, <2>1, <2>2, MemoryHeads
  <2>4. ~(todo'[s] # <<>> /\ Now(s)'.sql = "memory")
    BY <1>1, <1>3, <2>1, <2>2, MemoryHeads DEF Commit, Statement
  <2>5. todo'[s] # <<>> /\ Now(s)'.sql = "insert_memory" => found'[s] = {}
    <3>1. todo'[s] # <<>> /\ Now(s)'.sql = "insert_memory" => Now(s).sql = "digest"
      BY <1>1, <1>3, <2>1, MemoryHeads
    <3> QED BY <1>2, <1>3, <3>1, QueryKinds
  <2>6. todo'[s] # <<>> /\ Now(s)'.sql = "delete_memories" =>
            \A m \in found'[s] : m.id \in evicted'
    <3>1. todo'[s] # <<>> /\ Now(s)'.sql = "delete_memories" => Now(s).sql = "expired"
      BY <1>1, <1>3, <2>1, MemoryHeads
    <3> QED BY <1>2, <3>1
  <2> QED BY <2>3, <2>4, <2>5, <2>6, AnswerNext
<1>4. CASE /\ Moved(s, Now(s).skip) /\ Now(s).skip > 0
           /\ Now(s).when = "found" => found'[s] # {}
  <2>1. PICK k \in Nat : k = Now(s).skip
    BY <1>2, QueryKinds
  <2>2. /\ todo[s][k + 1] = IF Now(s).sql = "id" THEN Read
                            ELSE IF Now(s).sql = "profile" THEN WriteFile(Now(s).key) ELSE Commit
        /\ Now(s).sql \notin {"digest", "profile"} => Begins(todo'[s])
        /\ Moved(s, k)
    BY <1>1, <1>2, <1>4, <2>1, Landing
  <2>3. todo[s][k + 1].sql \notin {"expired", "digest", "insert_memory"}
    BY <2>2 DEF Read, WriteFile, Commit, Statement
  <2>4. /\ ~(todo'[s] # <<>> /\ Now(s)'.sql \in {"delete_memories", "insert_memory"})
        /\ ~(Len(todo'[s]) > 1 /\ todo'[s][2] = Answer("memory"))
    BY <1>1, <2>2, <2>3, MemoryHeads
  <2>5. ASSUME todo'[s] # <<>>, Now(s)'.sql = "memory", s \notin failed',
               NEW i \in IF found'[s] = {} THEN {NewId(s)'} ELSE {r.id : r \in found'[s]}
        PROVE  There(file', evicted', i)
    <3>1. todo[s][k + 1] = Commit /\ ~Begins(todo'[s])
      BY <1>1, <2>2, <2>5, MemoryHeads
    <3>2. Now(s).sql = "digest"
      BY <2>2, <3>1 DEF WriteFile, Commit, Statement
    <3>3. found'[s] # {} /\ found'[s] \subseteq View(s).memories
      BY <1>1, <1>2, <1>4, <3>2, QueryKinds, SelectedMemories
    <3>4. s \notin failed
      BY <1>2, <2>5
    <3>5. ~Writer(s)
      BY <1>1, <1>2, <3>4 DEF CopyKeeps
    <3>6. PICK r \in file.memories : i = r.id
      BY <2>5, <3>3, <3>5 DEF View
    <3> QED BY <1>2, <3>6 DEF SameData, There
  <2> QED BY <2>4, <2>5, AnswerNext
<1> QED BY <1>2, <1>3, <1>4, GivenAnswer

\* After a commit: what was inserted is stored.
LEMMA CommitAnswer ==
    ASSUME Base, MemoriesKept, NEW s \in Stores, CommitWork(s)
    PROVE  AnswerOf(s)'
<1>1. Types /\ OneWriter /\ Program(s) /\ AnswerOf(s)
  BY DEF Base, MemoriesKept
<1>2. /\ todo[s] # <<>> /\ Now(s) = Commit /\ Committed(s) /\ Moved(s, 0)
      /\ UNCHANGED <<found, calls, evicted>>
  BY <1>1, CommitMoves
<1>3. todo[s][0 + 1] = Now(s) /\ 0 \in Nat
  BY <1>1, <1>2, Ahead
<1>4. /\ ~(todo'[s] # <<>> /\ Now(s)'.sql \in {"delete_memories", "insert_memory"})
      /\ ~(Len(todo'[s]) > 1 /\ todo'[s][2] = Answer("memory"))
  BY <1>1, <1>2, <1>3, MemoryHeads DEF Commit, Statement
<1>5. ASSUME todo'[s] # <<>>, Now(s)'.sql = "memory",
             NEW i \in IF found'[s] = {} THEN {NewId(s)'} ELSE {r.id : r \in found'[s]}
      PROVE  There(file', evicted', i)
  <2>1. Len(todo[s]) > 1 /\ todo[s][2] = Answer("memory")
    BY <1>1, <1>2, <1>3, <1>5, MemoryHeads
  <2>2. found[s] = {} /\ Writer(s) /\ There(tx[s].copy, evicted, NewId(s))
    BY <1>1, <2>1 DEF AnswerOf
  <2>3. i = NewId(s)
    BY <1>2, <1>5, <2>2 DEF NewId
  <2>4. file' = tx[s].copy
    BY <1>2, <2>2 DEF Committed
  <2> QED BY <1>2, <2>2, <2>3, <2>4
<1> QED BY <1>4, <1>5, AnswerNext

\* Quiet steps keep the memories.
LEMMA QuietMemories ==
    ASSUME Base, MemoriesKept, NEW s \in Stores, Quiet(s)
    PROVE  MemoriesKept'
<1>1. Types /\ OneWriter /\ Program(s) /\ Preserves(s) /\ CopyKeeps(s) /\ AnswerOf(s)
  BY QuietSteps DEF Base, MemoriesKept
<1>2. evicted \subseteq evicted' /\ \A o \in Stores \ {s} : o \in failed' <=> o \in failed
  BY <1>1, OpenMoves, DispatchMoves, QueryMoves, CommitMoves, ProfileMoves, ReturnMoves,
     TimesOutMoves, StopMoves DEF Quiet
<1>3. \A i : There(file, evicted, i) => There(file', evicted', i)
  BY <1>1, <1>2, ThereStays
<1>4. \A t \in told' : t.sound => There(file', evicted', t.id)
  <2>1. \A t \in told : t.sound => There(file', evicted', t.id)
    BY <1>3 DEF MemoriesKept
  <2>2. CASE Return(s)
    <3>1. \/ told' = told
          \/ /\ todo[s] # <<>> /\ Now(s) = Answer("memory")
             /\ told' = told \cup {[store |-> s, sound |-> s \notin failed, id |-> i] :
                        i \in IF found[s] = {} THEN {NewId(s)} ELSE {r.id : r \in found[s]}}
      BY <1>1, <2>2, ReturnMoves
    <3>2. todo[s] # <<>> /\ Now(s) = Answer("memory") /\ s \notin failed =>
              \A i \in IF found[s] = {} THEN {NewId(s)} ELSE {r.id : r \in found[s]} :
                  There(file, evicted, i)
      BY <1>1 DEF AnswerOf, At, Answer, Statement
    <3>3. ASSUME NEW t \in told', t.sound, t \notin told
          PROVE  There(file', evicted', t.id)
      <4>1. /\ todo[s] # <<>> /\ Now(s) = Answer("memory")
            /\ \E i \in IF found[s] = {} THEN {NewId(s)} ELSE {r.id : r \in found[s]} :
                  t = [store |-> s, sound |-> s \notin failed, id |-> i]
        BY <3>1, <3>3
      <4>2. PICK i \in IF found[s] = {} THEN {NewId(s)} ELSE {r.id : r \in found[s]} :
                  t = [store |-> s, sound |-> s \notin failed, id |-> i]
        BY <4>1
      <4>3. t.id = i /\ s \notin failed
        BY <3>3, <4>2
      <4>4. There(file, evicted, i)
        BY <3>2, <4>1, <4>2, <4>3
      <4> QED BY <1>3, <4>3, <4>4
    <3> QED BY <2>1, <3>3
  <2>3. CASE ~Return(s)
    BY <1>1, <2>1, <2>3, OpenMoves, DispatchMoves, QueryMoves, CommitMoves, ProfileMoves,
       TimesOutMoves, StopMoves DEF Quiet
  <2> QED BY <2>2, <2>3
<1>5. CopyKeeps(s)'
  <2>1. Writer(s)' => s \in failed'
    BY <1>1, QuietWriters
  <2>2. ASSUME Writer(s)', NEW m \in file'.memories
        PROVE  There(tx'[s].copy, evicted', m.id)
    <3>1. Writer(s) /\ tx'[s].copy = tx[s].copy
      BY <1>1, <2>2 DEF Preserves
    <3>2. CASE file' = file
      BY <1>1, <1>2, <2>2, <3>1, <3>2 DEF CopyKeeps, There
    <3>3. CASE file' = tx[s].copy
      BY <2>2, <3>1, <3>3 DEF There
    <3> QED BY <1>1, <3>2, <3>3 DEF Preserves
  <2> QED BY <2>1, <2>2, AnswerNext
<1>6. AnswerOf(s)'
  <2>1. CASE Open(s) \/ Dispatch(s) \/ Stop(s)
    BY <1>1, <2>1, OpenMoves, DispatchMoves, StopMoves, GivenAnswer
  <2>2. CASE WriteProfile(s) \/ Return(s)
    <3>1. /\ todo[s] # <<>> /\ Moved(s, 0)
          /\ Now(s) \in {WriteFile(p) : p \in Projects} \cup {Answer("store"), Answer("memory")}
      BY <1>1, <2>2, ProfileMoves, ReturnMoves
    <3>2. Now(s).sql \notin {"expired", "digest", "insert_memory", "commit"}
      BY <3>1 DEF WriteFile, Answer, Statement
    <3> QED BY <1>1, <3>1, <3>2, OtherAnswer
  <2>3. CASE TimesOut(s)
    <3>1. /\ todo[s] # <<>>
          /\ Given(s, <<>>) \/ (Moved(s, 0) /\ Now(s).sql = "match")
      BY <1>1, <2>3, TimesOutMoves
    <3> QED BY <1>1, <3>1, GivenAnswer, OtherAnswer
  <2> QED BY <2>1, <2>2, <2>3, QueryAnswer, CommitAnswer DEF Quiet
<1>7. \A o \in Stores : CopyKeeps(o)' /\ AnswerOf(o)'
  BY <1>2, <1>5, <1>6, QuietOthersKeep
<1>8. (\A t \in told : t.sound => There(file, evicted, t.id))'
  BY <1>4 DEF There
<1>9. (\A o \in Stores : CopyKeeps(o) /\ AnswerOf(o))'
  BY <1>7
<1> QED BY <1>8, <1>9 DEF MemoriesKept

\* A column changes no memory.
LEMMA ColumnMemories ==
    ASSUME Base, MemoriesKept, NEW s \in Stores, AddColumn(s)
    PROVE  MemoriesKept'
<1>1. Types /\ OneWriter /\ Program(s)
  BY DEF Base
<1>2. /\ s \notin opened /\ todo[s] # <<>> /\ tx' = tx
      /\ UNCHANGED <<found, calls, told, evicted>>
  BY <1>1, ColumnMoves
<1>3. PICK c \in Columns :
          /\ Now(s) = Column(c)
          /\ file' = file \/ file' = [file EXCEPT !.columns = @ \cup {c}]
          /\ Moved(s, 0) \/ Given(s, <<>>)
          /\ \A o \in Stores \ {s} : o \in failed' <=> o \in failed
  BY <1>1, ColumnMoves
<1>4. file'.memories = file.memories
  BY <1>1, <1>3 DEF Types, Tables
<1>5. \A i : There(file', evicted', i) <=> There(file, evicted, i)
  BY <1>2, <1>4 DEF There
<1>6. \A o \in Stores : Writer(o)' <=> Writer(o)
  BY <1>2 DEF Writer
<1>7. ~Writer(s)
  BY <1>1, <1>2 DEF OneWriter, Writer, NoTx
<1>8. CopyKeeps(s)' /\ AnswerOf(s)'
  <2>1. AnswerOf(s)'
    <3>1. Now(s).sql \notin {"expired", "digest", "insert_memory", "commit"}
      BY <1>3 DEF Column, Statement
    <3> QED BY <1>1, <1>2, <1>3, <3>1, OtherAnswer, GivenAnswer
  <2> QED BY <1>6, <1>7, <2>1, AnswerNext
<1>9. ASSUME NEW o \in Stores \ {s}
      PROVE  CopyKeeps(o)' /\ AnswerOf(o)'
  <2>1. /\ CopyKeeps(o) /\ AnswerOf(o)
        /\ todo'[o] = todo[o] /\ (o \in failed' <=> o \in failed)
    BY <1>3 DEF MemoriesKept, Moved, Given
  <2>2. NewId(o)' = NewId(o) /\ Now(o)' = Now(o)
    BY <1>2, <2>1 DEF NewId, Now
  <2>3. CopyKeeps(o)'
    BY <1>2, <1>4, <1>6, <2>1, <2>2, AnswerNext DEF CopyKeeps
  <2>4. AnswerOf(o)'
    BY <1>2, <1>5, <1>6, <2>1, <2>2, AnswerNext DEF AnswerOf, At
  <2> QED BY <2>3, <2>4
<1>10. (\A t \in told : t.sound => There(file, evicted, t.id))'
  <2>1. \A t \in told' : t.sound => There(file', evicted', t.id)
    BY <1>2, <1>5 DEF MemoriesKept
  <2> QED BY <2>1 DEF There
<1>11. (\A o \in Stores : CopyKeeps(o) /\ AnswerOf(o))'
  BY <1>8, <1>9
<1> QED BY <1>10, <1>11 DEF MemoriesKept

\* A change loses no memory but those that were chosen to be evicted.
LEMMA ChangedMemories ==
    ASSUME NEW db \in Tables, NEW a \in Changers, NEW s \in Stores,
           a.sql = "delete_memories" => \A r \in found[s] : r.id \in evicted
    PROVE  /\ \A i : There(db, evicted, i) => There(Changed(s, db, a), evicted, i)
           /\ a.sql = "insert_memory" => There(Changed(s, db, a), evicted, NewId(s))
<1> DEFINE db2 == Changed(s, db, a)
<1>1. CASE a.sql = "insert_memory"
  <2>1. db2 = [db EXCEPT !.memories = @ \cup {[id |-> NewId(s), digest |-> a.key.digest,
                                               expires |-> a.key.expires]}]
    BY <1>1 DEF Changed
  <2>2. db2.memories = db.memories \cup {[id |-> NewId(s), digest |-> a.key.digest,
                                          expires |-> a.key.expires]}
    BY <2>1 DEF Tables
  <2> HIDE DEF db2
  <2>3. There(db2, evicted, NewId(s))
    <3>1. \E m \in db2.memories : m.id = NewId(s)
      <4>1. [id |-> NewId(s), digest |-> a.key.digest, expires |-> a.key.expires] \in db2.memories
        BY <2>2
      <4> QED BY <4>1
    <3> QED BY <3>1 DEF There
  <2>4. \A i : There(db, evicted, i) => There(db2, evicted, i)
    <3>1. db.memories \subseteq db2.memories
      BY <2>2
    <3> QED BY <3>1 DEF There
  <2> QED BY <2>3, <2>4 DEF db2
<1>2. CASE a.sql = "update_memory"
  <2>1. db2 = [db EXCEPT !.memories = {Weighted(s, m, a) : m \in @}]
    BY <1>2 DEF Changed
  <2>2. db2.memories = {Weighted(s, m, a) : m \in db.memories} /\ db.memories \subseteq Memories
    BY <2>1 DEF Tables
  <2>3. \A m \in db.memories : Weighted(s, m, a).id = m.id
    BY <2>2 DEF Weighted, Memories
  <2> HIDE DEF db2
  <2>4. \A i : There(db, evicted, i) => There(db2, evicted, i)
    BY <2>2, <2>3 DEF There
  <2> QED BY <1>2, <2>4 DEF db2
<1>3. CASE a.sql = "delete_memories"
  <2>1. db2 = [db EXCEPT !.memories = {m \in @ : \A r \in found[s] : r.id # m.id}]
    BY <1>3 DEF Changed
  <2>2. db2.memories = {m \in db.memories : \A r \in found[s] : r.id # m.id}
    BY <2>1 DEF Tables
  <2> HIDE DEF db2
  <2>3. \A i : There(db, evicted, i) => There(db2, evicted, i)
    BY <1>3, <2>2 DEF There
  <2> QED BY <1>3, <2>3 DEF db2
<1>4. CASE a.sql \notin {"insert_memory", "update_memory", "delete_memories"}
  <2>1. db2.memories = db.memories
    BY <1>4, ChangeKinds DEF Changed, Tables
  <2> HIDE DEF db2
  <2>2. \A i : There(db, evicted, i) => There(db2, evicted, i)
    BY <2>1 DEF There
  <2> QED BY <1>4, <2>2 DEF db2
<1> QED BY <1>1, <1>2, <1>3, <1>4

\* After a change the process has a memory to answer with, or will commit.
LEMMA ChangeMemories ==
    ASSUME Base, MemoriesKept, NEW s \in Stores, Change(s)
    PROVE  MemoriesKept'
<1> DEFINE a == Now(s)
           db == View(s)
           db2 == tx'[s].copy
<1>1. Types /\ OneWriter /\ Program(s) /\ CopyKeeps(s) /\ AnswerOf(s)
  BY DEF Base, MemoriesKept
<1>2. a \in Changers /\ db \in Tables /\ todo[s] # <<>>
  BY ChangeAhead
<1>3. /\ \/ /\ ChangedTo(s, Changed(s, db, a)) /\ Moved(s, 0) /\ failed' = failed
         \/ ChangedTo(s, db) /\ Given(s, <<>>) /\ failed' = failed \cup {s}
      /\ UNCHANGED <<found, calls, told, evicted>>
  BY <1>1, ChangeMoves
<1>4. /\ file' = file /\ Writer(s)'
      /\ \A o \in Stores \ {s} : /\ ~Writer(o) /\ ~Writer(o)' /\ todo'[o] = todo[o]
                                 /\ o \in failed' <=> o \in failed
  BY <1>3 DEF ChangedTo, Moved, Given
<1>5. a.sql = "delete_memories" => \A r \in found[s] : r.id \in evicted
  BY <1>1, <1>2 DEF AnswerOf, At
<1>6. \A m \in file.memories : There(db2, evicted, m.id)
  <2>1. \A m \in file.memories : There(db, evicted, m.id)
    BY <1>1 DEF CopyKeeps, There, View
  <2>2. \A i : There(db, evicted, i) => There(db2, evicted, i)
    <3>1. db2 = db \/ db2 = Changed(s, db, a)
      BY <1>3 DEF ChangedTo
    <3> HIDE DEF db2, a, db
    <3> QED BY <1>2, <1>5, <3>1, ChangedMemories DEF a, db
  <2> QED BY <2>1, <2>2
<1>7. s \notin failed' => todo'[s] # <<>> /\ Now(s)'.is \in {"change", "commit"}
  BY <1>3, ChangeAhead DEF Chunk, Commit, Do, Statement
<1>8. CopyKeeps(s)'
  BY <1>3, <1>4, <1>6, <1>7, AnswerNext
<1>9. AnswerOf(s)'
  <2>1. CASE ChangedTo(s, Changed(s, db, a)) /\ Moved(s, 0)
    <3>1. todo'[s] # <<>> /\ Now(s)'.sql \in {"insert_chunk", "commit"}
      BY <2>1, ChangeAhead DEF Chunk, Commit, Do, Statement
    <3>2. ASSUME Len(todo'[s]) > 1, todo'[s][2] = Answer("memory")
          PROVE  found'[s] = {} /\ There(tx'[s].copy, evicted', NewId(s)')
      <4>1. todo[s][0 + 1] = a /\ 0 \in Nat
        BY <1>1, <1>2, Ahead
      <4>2. a.sql = "insert_memory"
        BY <1>1, <2>1, <3>2, <4>1, MemoryHeads
      <4>3. found[s] = {} /\ NewId(s)' = NewId(s)
        BY <1>1, <1>2, <1>3, <4>2 DEF AnswerOf, At, NewId
      <4>4. tx'[s].copy = Changed(s, db, a)
        BY <2>1 DEF ChangedTo
      <4>5. There(Changed(s, db, a), evicted, NewId(s))
        BY <1>2, <1>5, <4>2, ChangedMemories
      <4> QED BY <1>3, <4>3, <4>4, <4>5
    <3> QED BY <1>4, <3>1, <3>2, AnswerNext
  <2>2. CASE Given(s, <<>>)
    BY <2>2, GivenAnswer
  <2> QED BY <1>3, <2>1, <2>2
<1>10. ASSUME NEW o \in Stores \ {s}
       PROVE  CopyKeeps(o)' /\ AnswerOf(o)'
  <2>1. CopyKeeps(o) /\ AnswerOf(o)
    BY DEF MemoriesKept
  <2>2. NewId(o)' = NewId(o) /\ Now(o)' = Now(o)
    BY <1>3, <1>4 DEF NewId, Now
  <2>3. CopyKeeps(o)'
    BY <1>4, AnswerNext
  <2>4. AnswerOf(o)'
    BY <1>3, <1>4, <2>1, <2>2, AnswerNext DEF AnswerOf, At
  <2> QED BY <2>3, <2>4
<1>11. (\A t \in told : t.sound => There(file, evicted, t.id))'
  <2>1. \A t \in told' : t.sound => There(file', evicted', t.id)
    BY <1>3, <1>4 DEF MemoriesKept
  <2> QED BY <2>1 DEF There
<1>12. (\A o \in Stores : CopyKeeps(o) /\ AnswerOf(o))'
  BY <1>8, <1>9, <1>10
<1> QED BY <1>11, <1>12 DEF MemoriesKept

\* What was answered stays true.
LEMMA MemoriesStep ==
    ASSUME Base, MemoriesKept, [Next]_vars
    PROVE  MemoriesKept'
<1>1. ASSUME NEW s \in Stores, Open(s) \/ Dispatch(s) \/ Step(s) \/ Stop(s)
      PROVE  MemoriesKept'
  BY <1>1, QuietMemories, ColumnMemories, ChangeMemories DEF Quiet, Step
<1>2. CASE UNCHANGED vars
  <2>1. UNCHANGED <<file, tx, todo, found, calls, failed, told, evicted>>
    BY <1>2 DEF vars, sqlVars, history
  <2> QED BY <2>1 DEF MemoriesKept, There, CopyKeeps, AnswerOf, At, Now, Writer, NewId, Answer,
                      Statement
<1> QED BY <1>1, <1>2 DEF Next

-----------------------------------------------------------------------------
(* The theorems.                                                           *)

IInv == Base /\ Documents /\ Schema /\ Log /\ MemoriesKept

\* No process has done anything yet.
LEMMA Initially == Init => IInv
<1> SUFFICES ASSUME Init PROVE IInv
  OBVIOUS
<1>1. \A s \in Stores : /\ tx[s] = NoTx /\ ~Writer(s) /\ View(s) = file
                        /\ todo[s] = <<>> /\ found[s] = {} /\ calls[s] = 0
  BY DEF Init, NoTx, Writer, View
<1>2. file \in Tables /\ file.memories = {} /\ file.events = <<>> /\ Whole(file, torn)
  <2>1. PICK columns \in SUBSET Columns : file = Empty(columns)
    BY DEF Init
  <2>2. <<>> \in Seq([what : Happenings, key : Runs \cup Projects])
    BY EmptySeq
  <2> QED BY <2>1, <2>2 DEF Empty, Tables, Whole
<1>3. Types
  <2>1. tx \in [Stores -> [open : BOOLEAN, lock : Locks, copy : Tables \cup {NoCopy}]]
    BY DEF Init, NoTx, Locks
  <2>2. calls \in [Stores -> Nat] /\ \A s \in Stores : calls[s] <= MaxCalls[s]
    BY <1>1, StoreAssumption DEF Init
  <2>3. todo = [s \in Stores |-> todo[s]] /\ found = [s \in Stores |-> found[s]]
    BY DEF Init
  <2>4. stops \in 0..MaxStops
    BY StoreAssumption DEF Init
  <2> QED BY <1>2, <2>1, <2>2, <2>3, <2>4 DEF Types, Init
<1>4. OneWriter
  <2>1. \A s \in Stores : tx[s].lock = "none" /\ tx[s].copy = NoCopy
    BY <1>1 DEF NoTx
  <2> QED BY <1>1, <2>1 DEF OneWriter
<1>5. \A s \in Stores : Program(s)
  BY <1>1, Nothings DEF Program
<1>6. Documents
  BY <1>1, <1>2 DEF Documents, DocumentOf, At
<1>7. Schema
  BY <1>1 DEF Schema, Init
<1>8. Log
  <2>1. \A what, key : Logged(file, what, key) = {}
    BY <1>2 DEF Logged
  <2>2. \A s \in Stores : \A what, key, n : ~Soon(s, what, key, n)
    BY <1>1 DEF Soon
  <2> QED BY <1>1, <2>1, <2>2 DEF Log, LogTrue, CopyTrue, StartTrue, FinishTrue, SyncTrue
<1>9. MemoriesKept
  <2>1. \A s \in Stores : Len(todo[s]) = 0
    BY <1>1, EmptySeq
  <2> QED BY <1>1, <2>1 DEF MemoriesKept, CopyKeeps, AnswerOf, At, Init
<1> QED BY <1>3, <1>4, <1>5, <1>6, <1>7, <1>8, <1>9 DEF IInv, Base

\* The inductive invariant: what the programs are, and what they leave to be done.
THEOREM Invariance == Spec => []IInv
<1>1. IInv /\ [Next]_vars => IInv'
  BY BaseStep, DocumentsStep, SchemaStep, LogStep, MemoriesStep DEF IInv
<1> QED BY <1>1, Initially, PTL DEF Spec

\* The tables hold what they can hold; a connection has a copy of its own exactly as
\* long as it has a lock to write.
THEOREM TypeCorrect == Spec => []TypeOK
<1>1. IInv => TypeOK
  <2> SUFFICES ASSUME IInv PROVE TypeOK
    OBVIOUS
  <2>1. Types /\ OneWriter
    BY DEF IInv, Base
  <2>2. \A s \in Stores : tx[s].copy \in Tables \cup {NoCopy} /\ tx[s].lock \in Locks
    BY <2>1 DEF Types
  <2>3. \A s \in Stores : calls[s] \in 0..MaxCalls[s]
    BY <2>1, StoreAssumption DEF Types
  <2> QED BY <2>1, <2>2, <2>3 DEF Types, OneWriter, TypeOK
<1> QED BY <1>1, Invariance, PTL

\* Wherever a process ends, no chunk is stored without its document, nor a document without
\* its chunks, unless the INSERT of one of them failed.
THEOREM DocumentsAreWhole == Spec => []WholeDocuments
<1>1. IInv => WholeDocuments
  BY DEF IInv, Documents, Whole, WholeDocuments
<1> QED BY <1>1, Invariance, PTL

\* A process has its store only when the file has all columns, even if another one was
\* killed, or failed, while it added them.
THEOREM StoresAreMigrated == Spec => []OpenedIsMigrated
<1>1. IInv => OpenedIsMigrated
  BY DEF IInv, Schema, OpenedIsMigrated
<1> QED BY <1>1, Invariance, PTL

\* A memory that was answered with is stored, unless it was evicted or a call of that
\* process had failed before.
THEOREM AnswersAreKept == Spec => []AnsweredIsKept
<1>1. IInv => AnsweredIsKept
  BY DEF IInv, MemoriesKept, There, AnsweredIsKept, Kept
<1> QED BY <1>1, Invariance, PTL

\* Each run is started once, and what the log says of sessions and contexts is stored.
THEOREM LogIsTrue == Spec => []EventsTellTheTruth
<1>1. IInv => EventsTellTheTruth
  <2> SUFFICES ASSUME IInv PROVE EventsTellTheTruth
    OBVIOUS
  <2>1. LogTrue(file, profiles)
    BY DEF IInv, Log
  <2>2. \A what, key : EventsOf(what, key) = Logged(file, what, key)
    BY DEF EventsOf, Logged
  <2>3. ASSUME NEW r \in Runs
        PROVE  Cardinality(EventsOf("started", r)) <= 1
    <3> DEFINE es == EventsOf("started", r)
    <3>1. \A i, j \in es : i = j
      BY <2>1, <2>2 DEF LogTrue
    <3> HIDE DEF es
    <3>2. es = {} \/ \E i : es = {i}
      BY <3>1
    <3>3. es = {} => Cardinality(es) = 0
      BY FS_EmptySet
    <3>4. \A i : Cardinality({i}) = 1
      BY FS_Singleton
    <3>5. Cardinality(es) \in {0, 1}
      BY <3>2, <3>3, <3>4
    <3> QED BY <3>5 DEF es
  <2> QED BY <2>1, <2>2, <2>3 DEF LogTrue, EventsTellTheTruth, Items
<1> QED BY <1>1, Invariance, PTL
=============================================================================
