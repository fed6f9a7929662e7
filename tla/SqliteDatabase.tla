--------------------------- MODULE SqliteDatabase ---------------------------
(***************************************************************************)
(* The SQLite realization of RelationalDatabase                            *)
(* (packages/data/sqlite/src/state.rs, adapter.rs): one connection behind  *)
(* a mutex and two flags, per generation.                                  *)
(*                                                                         *)
(* An operation reads live, then perhaps stopped, and then waits for the   *)
(* mutex, while the owner of the generation starts or stops it.  What is   *)
(* done with the mutex held touches nothing but the connection, so it is   *)
(* one step.  Of SQLite itself there is one table with one row.            *)
(***************************************************************************)
EXTENDS Naturals, Sequences

CONSTANTS
    Callers,        \* the threads that call the database
    MaxGeneration,  \* bound: the generations, one after the other
    None            \* no row, no value

ASSUME GenerationAssumption == MaxGeneration \in Nat \ {0}

Generations == 1..MaxGeneration

VARIABLES
    path,        \* the configuration: "file" or "memory"
    owner,       \* where the owner of each generation is in start and stop
    connection,  \* the connection of each generation: "none" or "open"
    live,        \* the two flags of each generation
    stopped,
    database,    \* the table, and its row, of the file or of each generation
    at,          \* where the operation of each caller is, "none" when there is none
    handle,      \* the generation each caller's operation is called on
    statement,   \* the statement of that operation
    answer       \* what the last operation of each caller returned

ownerVars  == <<path, owner, connection, live, stopped>>
callerVars == <<at, handle, statement, answer>>
sqliteVars == <<ownerVars, database, callerVars>>

NoStatement == [kind |-> "none", value |-> None]
NoTable == [table |-> FALSE, row |-> None]

SqliteInit ==
    /\ path \in {"file", "memory"}
    /\ owner = [g \in Generations |-> "new"]
    /\ connection = [g \in Generations |-> "none"]
    /\ live = [g \in Generations |-> FALSE]
    /\ stopped = [g \in Generations |-> FALSE]
    /\ database = [d \in {0} \cup Generations |-> NoTable]
    /\ at = [c \in Callers |-> "none"]
    /\ handle = [c \in Callers |-> 1]
    /\ statement = [c \in Callers |-> NoStatement]
    /\ answer = [c \in Callers |-> [status |-> "none", row |-> None]]

\* The database that generation g opens: the file, or one of its own in memory.
DatabaseOf(g) == IF path = "file" THEN 0 ELSE g
-----------------------------------------------------------------------------
(* start and stop, by the owner of generation g. *)

Advance(g, from, to) ==
    /\ owner[g] = from
    /\ owner' = [owner EXCEPT ![g] = to]
    /\ UNCHANGED <<path, database, callerVars>>

\* open_connection may fail.  A generation starts when the one before it is gone.
OpenConnection(g) ==
    /\ g > 1 => owner[g - 1] \in {"stopped", "failed"}
    /\ Advance(g, "new", "opened") \/ Advance(g, "new", "failed")
    /\ UNCHANGED <<connection, live, stopped>>

\* mark_started: the connection, and then the two flags.
MarkConnection(g) ==
    /\ Advance(g, "opened", "connected")
    /\ connection' = [connection EXCEPT ![g] = "open"]
    /\ UNCHANGED <<live, stopped>>

MarkStopped(g) ==
    /\ Advance(g, "connected", "cleared")
    /\ stopped' = [stopped EXCEPT ![g] = FALSE]
    /\ UNCHANGED <<connection, live>>

MarkLive(g) ==
    /\ Advance(g, "cleared", "running")
    /\ live' = [live EXCEPT ![g] = TRUE]
    /\ UNCHANGED <<connection, stopped>>

\* stop: the two flags, and then the connection.
StopLive(g) ==
    /\ Advance(g, "running", "stopping")
    /\ live' = [live EXCEPT ![g] = FALSE]
    /\ UNCHANGED <<connection, stopped>>

\* Mutant of StopStopped: the second flag is forgotten.
StopForgetful(g) ==
    /\ Advance(g, "stopping", "refusing")
    /\ UNCHANGED <<connection, live, stopped>>

StopStopped(g) ==
    /\ Advance(g, "stopping", "refusing")
    /\ stopped' = [stopped EXCEPT ![g] = TRUE]
    /\ UNCHANGED <<connection, live>>

StopTake(g) ==
    /\ Advance(g, "refusing", "closing")
    /\ connection' = [connection EXCEPT ![g] = "none"]
    /\ UNCHANGED <<live, stopped>>

\* The close is outside the mutex.  Whether it succeeds or not, the connection is gone.
StopClose(g) ==
    /\ Advance(g, "closing", "stopped")
    /\ UNCHANGED <<connection, live, stopped>>

Start(g) == OpenConnection(g) \/ MarkConnection(g) \/ MarkStopped(g) \/ MarkLive(g)
Stop(g) == StopLive(g) \/ StopStopped(g) \/ StopTake(g) \/ StopClose(g)
-----------------------------------------------------------------------------
(* execute and query, through with_connection. *)

CallDatabase(c, g, s) ==
    /\ at[c] = "none"
    /\ at' = [at EXCEPT ![c] = "live"]
    /\ handle' = [handle EXCEPT ![c] = g]
    /\ statement' = [statement EXCEPT ![c] = s]
    /\ answer' = [answer EXCEPT ![c] = [status |-> "none", row |-> None]]
    /\ UNCHANGED <<ownerVars, database>>

ReadLive(c) ==
    /\ at[c] = "live"
    /\ at' = [at EXCEPT ![c] = IF live[handle[c]] THEN "connection" ELSE "stopped"]
    /\ UNCHANGED <<ownerVars, database, handle, statement, answer>>

Answers(c, status, row) ==
    /\ at' = [at EXCEPT ![c] = "none"]
    /\ answer' = [answer EXCEPT ![c] = [status |-> status, row |-> row]]
    /\ statement' = [statement EXCEPT ![c] = NoStatement]
    /\ UNCHANGED <<ownerVars, handle>>

ReadStopped(c) ==
    /\ at[c] = "stopped"
    /\ Answers(c, IF stopped[handle[c]] THEN "Stopped" ELSE "NotStarted", None)
    /\ UNCHANGED database

\* The mutex is free, and the connection there or taken.
NoConnection(c) ==
    /\ at[c] = "connection" /\ connection[handle[c]] = "none"
    /\ Answers(c, "NotStarted", None)
    /\ UNCHANGED database

Admitted(c, kind) ==
    at[c] = "connection" /\ connection[handle[c]] = "open" /\ statement[c].kind = kind

\* execute: CREATE TABLE IF NOT EXISTS, and INSERT ... ON CONFLICT DO UPDATE.
Create(c) ==
    /\ Admitted(c, "create")
    /\ database' = [database EXCEPT ![DatabaseOf(handle[c])].table = TRUE]
    /\ Answers(c, "Ok", None)

\* Mutant of Upsert: ON CONFLICT DO NOTHING.
UpsertOnce(c) ==
    /\ Admitted(c, "upsert")
    /\ database[DatabaseOf(handle[c])].table
    /\ database' = [database EXCEPT ![DatabaseOf(handle[c])].row =
                       IF @ = None THEN statement[c].value ELSE @]
    /\ Answers(c, "Ok", None)

Upsert(c) ==
    /\ Admitted(c, "upsert")
    /\ database[DatabaseOf(handle[c])].table
    /\ database' = [database EXCEPT ![DatabaseOf(handle[c])].row = statement[c].value]
    /\ Answers(c, "Ok", None)

\* query: all rows, of which there is at most one.
Select(c) ==
    /\ Admitted(c, "select")
    /\ database[DatabaseOf(handle[c])].table
    /\ Answers(c, "Ok", database[DatabaseOf(handle[c])].row)
    /\ UNCHANGED database

\* SQLite refuses the statement: it always may, and must when the table is not there.
Fails(c) ==
    /\ at[c] = "connection" /\ connection[handle[c]] = "open"
    /\ Answers(c, IF statement[c].kind = "select" THEN "QueryFailed" ELSE "ExecuteFailed",
               None)
    /\ UNCHANGED database

Operates(c) ==
    \/ ReadLive(c) \/ ReadStopped(c) \/ NoConnection(c)
    \/ Create(c) \/ Upsert(c) \/ Select(c) \/ Fails(c)
=============================================================================
