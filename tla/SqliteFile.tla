----------------------------- MODULE SqliteFile -----------------------------
(***************************************************************************)
(* One SQLite file and the connections that the processes of agent_hive    *)
(* keep open to it (agent_hive.memory.runtime_compat.store; external: the  *)
(* sqlite3 module of Python with its default isolation level, and SQLite's *)
(* rollback journal).                                                      *)
(*                                                                         *)
(* A statement that changes rows opens a transaction first, and only       *)
(* commit ends it: one that fails leaves it open, and the code never rolls *)
(* back.  A read inside an open transaction keeps its shared lock; a       *)
(* commit that finds such a lock keeps everybody from reading ("pending"). *)
(***************************************************************************)
CONSTANTS
    Stores,   \* the connections
    NoCopy    \* the changes of a connection that made none

VARIABLES
    file,     \* what is committed
    tx        \* each connection's transaction

sqlVars == <<file, tx>>

NoTx == [open |-> FALSE, lock |-> "none", copy |-> NoCopy]

Locks == {"none", "shared", "reserved", "pending"}
Writer(s) == tx[s].lock \in {"reserved", "pending"}

\* What a connection reads: the file with its own changes.
View(s) == IF Writer(s) THEN tx[s].copy ELSE file

-----------------------------------------------------------------------------
\* Whether a statement can go ahead.
CanRead(s) ==
    tx[s].lock = "none" => \A o \in Stores \ {s} : tx[o].lock # "pending"

CanChange(s) == \A o \in Stores \ {s} : ~Writer(o)

CanCommit(s) ==
    Writer(s) => \A o \in Stores \ {s} : tx[o].lock # "shared"

CanDefine(s) == CanChange(s) /\ \A o \in Stores \ {s} : tx[o].lock = "none"

\* ... and what it does then.
Reads(s) ==
    /\ tx' = [tx EXCEPT ![s].lock = IF tx[s].open /\ @ = "none" THEN "shared" ELSE @]
    /\ UNCHANGED file

Changes(s, contents) ==
    /\ tx' = [tx EXCEPT ![s] = [open |-> TRUE, copy |-> contents,
                                lock |-> IF @.lock = "pending" THEN "pending" ELSE "reserved"]]
    /\ UNCHANGED file

Commits(s) ==
    /\ file' = View(s)
    /\ tx' = [tx EXCEPT ![s] = NoTx]

\* ALTER TABLE is no part of a transaction.
Defines(s, contents) ==
    /\ file' = contents
    /\ UNCHANGED tx

-----------------------------------------------------------------------------
\* What is left of a statement that waited for a lock until the timeout.
ChangeTimesOut(s) ==
    /\ tx' = [tx EXCEPT ![s].open = TRUE]
    /\ UNCHANGED file

CommitTimesOut(s) ==
    /\ tx' = [tx EXCEPT ![s].lock = "pending"]
    /\ UNCHANGED file

\* The connection is closed, or its process ends: the journal is rolled back.
Closes(s) ==
    /\ tx' = [tx EXCEPT ![s] = NoTx]
    /\ UNCHANGED file

=============================================================================
