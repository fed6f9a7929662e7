---------------------------- MODULE LocalBackend ----------------------------
(***************************************************************************)
(* The local backend example (examples/local-backend/src/app.rs): a        *)
(* component that stores a value in the database, reads it back and logs   *)
(* that it has, called by several threads while the generations that it    *)
(* runs in start and stop, beside a component that logs what it likes.     *)
(*                                                                         *)
(* write_read_log is three operations of the database, each admitted or    *)
(* refused on its own, and one of the log.                                 *)
(***************************************************************************)
EXTENDS SqliteDatabase, ConsoleLog

CONSTANTS
    Monitor,   \* the thread of the other component
    Records,   \* the records that it emits
    MaxEvents, \* bound: the generations that start, the calls and those records
    MaxFailures \* bound: the statements and the writes that fail

ASSUME ThreadsAssumption == Emitters = Callers \cup {Monitor} /\ Monitor \notin Callers
ASSUME RecordsAssumption == Records \subseteq LogRecords
ASSUME BackendBoundsAssumption == MaxEvents \in Nat /\ MaxFailures \in Nat
ASSUME NoneAssumption == \A c \in Callers : \A n \in 0..MaxEvents : <<c, n>> # None

VARIABLES
    stage,   \* where each call of write_read_log is: "idle", or what it is waiting for
    stored,  \* the value it has read back
    result,  \* what the last call of each thread returned
    calls,   \* the calls of each thread
    events,  \* the generations started, the calls, the records of the other component
    failures, \* the statements and the writes that have failed
    order,   \* history: the values that each database was given, in order
    asked    \* history: where the owner was when each thread's last operation began

appVars == <<stage, stored, result, calls>>
history == <<order, asked>>
vars == <<sqliteVars, consoleVars, appVars, events, failures, history>>
bounds  == <<events, failures>>

Logged == [level |-> "Info", target |-> <<"local-backend-example">>,
           message |-> <<"example stored local data">>]

ASSUME LoggedAssumption == Logged \in LogRecords

Init ==
    /\ SqliteInit
    /\ ConsoleInit
    /\ stage = [c \in Callers |-> "idle"]
    /\ stored = [c \in Callers |-> None]
    /\ result = [c \in Callers |-> "none"]
    /\ calls = [c \in Callers |-> 0]
    /\ events = 0
    /\ failures = 0
    /\ order = [d \in {0} \cup Generations |-> <<>>]
    /\ asked = [c \in Callers |-> "new"]
-----------------------------------------------------------------------------
\* Each call is given a value of its own.
Value(c) == <<c, calls[c]>>

Asks(c, g, s) ==
    /\ CallDatabase(c, g, s)
    /\ asked' = [asked EXCEPT ![c] = owner[g]]
    /\ UNCHANGED <<consoleVars, failures, order>>

\* write_read_log: a call, on any generation that has not failed to start.
WriteReadLog(c) ==
    /\ stage[c] = "idle" /\ events < MaxEvents
    /\ \E g \in Generations :
          /\ owner[g] # "failed"
          /\ Asks(c, g, [kind |-> "create", value |-> None])
    /\ stage' = [stage EXCEPT ![c] = "create"]
    /\ calls' = [calls EXCEPT ![c] = @ + 1]
    /\ events' = events + 1
    /\ stored' = [stored EXCEPT ![c] = None]
    /\ result' = [result EXCEPT ![c] = "none"]

CallEnds(c, how) ==
    /\ stage' = [stage EXCEPT ![c] = "idle"]
    /\ result' = [result EXCEPT ![c] = how]
    /\ UNCHANGED calls

Answered(c, of) == stage[c] = of /\ at[c] = "none"

\* The first ? that is an error ends the call.
DatabaseRefuses(c) ==
    /\ \E of \in {"create", "upsert", "select"} : Answered(c, of)
    /\ answer[c].status # "Ok"
    /\ CallEnds(c, answer[c].status)
    /\ UNCHANGED <<sqliteVars, consoleVars, stored, bounds, history>>

Created(c) ==
    /\ Answered(c, "create") /\ answer[c].status = "Ok"
    /\ Asks(c, handle[c], [kind |-> "upsert", value |-> Value(c)])
    /\ stage' = [stage EXCEPT ![c] = "upsert"]
    /\ UNCHANGED <<stored, result, calls, events>>

Upserted(c) ==
    /\ Answered(c, "upsert") /\ answer[c].status = "Ok"
    /\ Asks(c, handle[c], [kind |-> "select", value |-> None])
    /\ stage' = [stage EXCEPT ![c] = "select"]
    /\ UNCHANGED <<stored, result, calls, events>>

\* The column is TEXT NOT NULL, so a row that is there has a text. (A value of another
\* type, UnexpectedValue, takes a table of this name that somebody else made in the
\* file with another schema; that is left out.)
Selected(c) ==
    /\ Answered(c, "select") /\ answer[c].status = "Ok"
    /\ IF answer[c].row = None
       THEN CallEnds(c, "MissingRow") /\ UNCHANGED <<consoleVars, stored>>
       ELSE /\ stage' = [stage EXCEPT ![c] = "emit"]
            /\ stored' = [stored EXCEPT ![c] = answer[c].row]
            /\ Emit(c, Logged)
            /\ UNCHANGED <<result, calls>>
    /\ UNCHANGED <<sqliteVars, bounds, history>>

\* The value is returned only if it could be logged.
LogReturns(c) ==
    /\ stage[c] = "emit" /\ emitting[c] = "none"
    /\ CallEnds(c, emitted[c])
    /\ UNCHANGED <<sqliteVars, consoleVars, stored, bounds, history>>

Proceeds(c) ==
    DatabaseRefuses(c) \/ Created(c) \/ Upserted(c) \/ Selected(c) \/ LogReturns(c)

MonitorEmits ==
    /\ events < MaxEvents
    /\ events' = events + 1
    /\ \E r \in Records : Emit(Monitor, r)
    /\ UNCHANGED <<sqliteVars, appVars, failures, history>>
-----------------------------------------------------------------------------
(* The steps of the database, of its owners and of the console. *)

Failing(fails) ==
    /\ failures' = failures + (IF fails THEN 1 ELSE 0)
    /\ failures' <= MaxFailures

DatabaseStep(c) ==
    /\ Operates(c)
    /\ order' = IF statement[c].kind = "upsert" /\ answer'[c].status = "Ok"
                THEN [order EXCEPT ![DatabaseOf(handle[c])] = Append(@, statement[c].value)]
                ELSE order
    /\ Failing(answer'[c].status \in {"ExecuteFailed", "QueryFailed"})
    /\ UNCHANGED <<consoleVars, appVars, events, asked>>

OwnerStep(g) ==
    /\ \/ Start(g) /\ events' = events + (IF owner[g] = "new" THEN 1 ELSE 0)
       \/ Stop(g) /\ UNCHANGED events
    /\ events' <= MaxEvents
    /\ UNCHANGED <<consoleVars, appVars, failures, history>>

Locks(e) ==
    /\ LockStdout(e) \/ LockStderr(e)
    /\ UNCHANGED <<sqliteVars, appVars, bounds, history>>

WriteStep(e) ==
    /\ Write(e)
    /\ Failing(emitted'[e] = "WriteFailed")
    /\ UNCHANGED <<sqliteVars, appVars, events, history>>

\* What a thread in the middle of a call or of an emit can do next.
GoesOn(e) ==
    \/ e \in Callers /\ (DatabaseStep(e) \/ Proceeds(e))
    \/ Locks(e)
    \/ WriteStep(e)

Next ==
    \/ \E g \in Generations : OwnerStep(g)
    \/ \E c \in Callers : WriteReadLog(c)
    \/ MonitorEmits
    \/ \E e \in Emitters : GoesOn(e)

Spec == Init /\ [][Next]_vars

(***************************************************************************)
(* A thread that can go on again and again does: no lock is withheld from  *)
(* it for ever, and a write to the console ends.  Nothing makes anybody    *)
(* call, or start or stop a generation.                                    *)
(***************************************************************************)
FairSpec == Spec /\ \A e \in Emitters : SF_vars(GoesOn(e))
-----------------------------------------------------------------------------
(* Properties. *)

\* write_read_log returns the value that it wrote or one that was written after it,
\* whoever calls beside it and whichever generation they call on, and never finds
\* that the row it has just written is missing.
StoredIsRecent ==
    \A c \in Callers :
        /\ result[c] # "MissingRow"
        /\ result[c] = "Ok" =>
              LET values == order[DatabaseOf(handle[c])]
              IN  \E i, j \in DOMAIN values :
                     i <= j /\ values[i] = Value(c) /\ values[j] = stored[c]

Stopping == {"stopping", "refusing", "closing", "stopped"}

\* What an operation is told fits what happened to its generation: it is refused as
\* Stopped when it began after the flags of a stop were set and only when there is a
\* stop, and as NotStarted only when it began before the start was done or met a stop.
RefusalFitsGeneration ==
    \A c \in Callers : (at[c] = "none" /\ answer[c].status # "none") =>
        LET now == owner[handle[c]]
        IN  /\ asked[c] \in Stopping \ {"stopping"} => answer[c].status = "Stopped"
            /\ answer[c].status = "Stopped" => now \in Stopping
            /\ answer[c].status = "NotStarted" =>
                  asked[c] \in {"new", "opened", "connected", "cleared", "failed"}
                    \/ now \in Stopping

\* Every call of write_read_log returns, whatever starts, stops and fails meanwhile:
\* no lock of the console stays behind, and no two threads wait for each other there.
CallsEnd == \A c \in Callers : (stage[c] # "idle") ~> (stage[c] = "idle")
=============================================================================
