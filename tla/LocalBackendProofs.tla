------------------------- MODULE LocalBackendProofs -------------------------
(***************************************************************************)
(* Proofs about LocalBackend, for any callers, any number of generations   *)
(* and any bounds: what write_read_log returns is recent, what the         *)
(* database says when it refuses fits what happened to its generation, and *)
(* the console holds one record per line.                                  *)
(***************************************************************************)
EXTENDS LocalBackend, WellFoundedInduction, TLAPS

Phases == {"new", "failed", "opened", "connected", "cleared", "running"} \cup Stopping

\* The phases in which an operation that begins is told Stopped.
Refusing == Stopping \ {"stopping"}

Databases == {0} \cup Generations
Given == Callers \X (0..MaxEvents)

TypeInv ==
    /\ path \in {"file", "memory"}
    /\ owner \in [Generations -> Phases]
    /\ connection \in [Generations -> {"none", "open"}]
    /\ live \in [Generations -> BOOLEAN]
    /\ stopped \in [Generations -> BOOLEAN]
    /\ database \in [Databases -> [table : BOOLEAN, row : Given \cup {None}]]
    /\ at \in [Callers -> {"none", "live", "stopped", "connection"}]
    /\ handle \in [Callers -> Generations]
    /\ statement \in [Callers -> [kind : {"none", "create", "upsert", "select"},
                                  value : Given \cup {None}]]
    /\ answer \in [Callers -> [status : {"none", "Ok", "Stopped", "NotStarted",
                                         "ExecuteFailed", "QueryFailed"},
                               row : Given \cup {None}]]
    /\ emitted \in [Emitters -> {"none", "Ok", "WriteFailed"}]
    /\ stage \in [Callers -> {"idle", "create", "upsert", "select", "emit"}]
    /\ stored \in [Callers -> Given \cup {None}]
    /\ result = [c \in Callers |-> result[c]]
    /\ calls \in [Callers -> 0..MaxEvents]
    /\ events \in 0..MaxEvents
    /\ \A c \in Callers : calls[c] <= events
    /\ order \in [Databases -> Seq(Given)]
    /\ asked \in [Callers -> Phases]

\* The two flags and the connection are what the owner has got to.
FlagsInv ==
    \A g \in Generations :
        /\ live[g] <=> owner[g] = "running"
        /\ stopped[g] <=> owner[g] \in Refusing
        /\ connection[g] = "open" <=>
              owner[g] \in {"connected", "cleared", "running", "stopping", "refusing"}

\* What an operation has seen of the flags, against what the owner did since it began.
AskedInv(c) ==
    LET now == owner[handle[c]]
    IN  /\ asked[c] \in Refusing => now \in Refusing
        /\ asked[c] \in Stopping => now \in Stopping
        /\ asked[c] = "running" => now \in {"running"} \cup Stopping
        /\ at[c] = "stopped" => asked[c] \in Phases \ ({"running"} \cup Stopping)
                                  \/ now \in Stopping
        /\ at[c] = "connection" => /\ asked[c] \notin Refusing
                                   /\ now \in {"running"} \cup Stopping
        /\ at[c] # "none" => answer[c].status = "none"
        /\ at[c] = "none" /\ answer[c].status # "none" =>
              /\ asked[c] \in Refusing => answer[c].status = "Stopped"
              /\ answer[c].status = "Stopped" => now \in Stopping
              /\ answer[c].status = "NotStarted" =>
                    asked[c] \in Phases \ ({"running"} \cup Stopping) \/ now \in Stopping

\* The row of a database is the last value that it was given.
RowInv ==
    \A d \in Databases : order[d] # <<>> => database[d].row = order[d][Len(order[d])]

\* Value x was given, and value v then or later.
WasGiven(values, x) == \E i \in 1..Len(values) : values[i] = x

Recent(values, x, v) ==
    \E i, j \in 1..Len(values) : i <= j /\ values[i] = x /\ values[j] = v

\* The values that the database of caller c was given.
Values(c) == order[DatabaseOf(handle[c])]

\* How far a call has got, against the values that its database was given.
CallInv(c) ==
    /\ stage[c] \in {"idle", "emit"} => at[c] = "none"
    /\ at[c] # "none" => /\ statement[c].kind = stage[c]
                         /\ stage[c] = "upsert" => statement[c].value = Value(c)
    /\ stage[c] = "upsert" /\ at[c] = "none" /\ answer[c].status = "Ok" =>
          WasGiven(Values(c), Value(c))
    /\ stage[c] = "select" => WasGiven(Values(c), Value(c))
    /\ stage[c] = "select" /\ at[c] = "none" /\ answer[c].status = "Ok" =>
          Recent(Values(c), Value(c), answer[c].row)
    /\ stage[c] = "emit" \/ result[c] = "Ok" =>
          Recent(Values(c), Value(c), stored[c])
    /\ result[c] # "MissingRow"

IInv ==
    /\ TypeInv
    /\ FlagsInv
    /\ RowInv
    /\ \A c \in Callers : AskedInv(c) /\ CallInv(c)
-----------------------------------------------------------------------------
(* Lemmas about the values that a database was given. *)

LEMMA ValuesType ==
    ASSUME TypeInv, NEW c \in Callers
    PROVE  DatabaseOf(handle[c]) \in Databases /\ Values(c) \in Seq(Given)
<1>1. DatabaseOf(handle[c]) \in Databases
  BY DEF DatabaseOf, TypeInv, Databases
<1> QED
  BY <1>1 DEF TypeInv, Values

\* A value that was recent is not None.
LEMMA RecentIsValue ==
    ASSUME TypeInv, NEW c \in Callers, NEW x, NEW v, Recent(Values(c), x, v)
    PROVE  v \in Given /\ v # None
<1>1. v \in Given
  BY ValuesType DEF Recent
<1> QED
  BY <1>1, NoneAssumption DEF Given

\* What was given stays given when another value is.
LEMMA GivenStays ==
    ASSUME NEW S, NEW values \in Seq(S), NEW y \in S, NEW x, WasGiven(values, x)
    PROVE  WasGiven(Append(values, y), x)
BY DEF WasGiven

LEMMA RecentStays ==
    ASSUME NEW S, NEW values \in Seq(S), NEW y \in S, NEW x, NEW v, Recent(values, x, v)
    PROVE  Recent(Append(values, y), x, v)
BY DEF Recent

LEMMA GivenNow ==
    ASSUME NEW S, NEW values \in Seq(S), NEW x \in S PROVE WasGiven(Append(values, x), x)
<1>1. Len(values) + 1 \in 1..Len(Append(values, x))
  OBVIOUS
<1> QED
  BY <1>1 DEF WasGiven

\* The last value is recent, whichever was given.
LEMMA LastIsRecent ==
    ASSUME NEW S, NEW values \in Seq(S), NEW x, WasGiven(values, x)
    PROVE  values # <<>> /\ Recent(values, x, values[Len(values)])
BY DEF WasGiven, Recent

\* The initial state satisfies the invariant.
LEMMA InitInv == Init => IInv
<1> SUFFICES ASSUME Init PROVE IInv
  OBVIOUS
<1> USE DEF Init, SqliteInit, ConsoleInit
<1>1. TypeInv
  BY GenerationAssumption, BackendBoundsAssumption
  DEF TypeInv, Phases, Stopping, Databases, Generations, NoTable, NoStatement
<1>2. FlagsInv
  BY DEF FlagsInv, Refusing, Stopping
<1>3. RowInv
  BY DEF RowInv, Databases
<1>4. ASSUME NEW c \in Callers PROVE AskedInv(c) /\ CallInv(c)
  BY GenerationAssumption DEF AskedInv, CallInv, Refusing, Stopping, Generations
<1> QED
  BY <1>1, <1>2, <1>3, <1>4 DEF IInv

-----------------------------------------------------------------------------
(* What a step leaves alone stays as it is. *)

LEMMA FlagsStay == ASSUME FlagsInv, UNCHANGED ownerVars PROVE FlagsInv'
BY DEF FlagsInv, ownerVars

LEMMA RowStays == ASSUME RowInv, UNCHANGED <<database, order>> PROVE RowInv'
BY DEF RowInv

\* Every database has the values it had, and perhaps one more.
Extends ==
    \A d \in Databases :
        order'[d] = order[d] \/ \E y \in Given : order'[d] = Append(order[d], y)

LEMMA AskedStays ==
    ASSUME NEW c \in Callers, AskedInv(c), UNCHANGED owner,
           at'[c] = at[c], handle'[c] = handle[c], answer'[c] = answer[c], asked'[c] = asked[c]
    PROVE  AskedInv(c)'
BY DEF AskedInv

LEMMA CallStays ==
    ASSUME TypeInv, NEW c \in Callers, CallInv(c), Extends, UNCHANGED path,
           at'[c] = at[c], handle'[c] = handle[c], statement'[c] = statement[c],
           answer'[c] = answer[c], stage'[c] = stage[c], stored'[c] = stored[c],
           result'[c] = result[c], calls'[c] = calls[c]
    PROVE  CallInv(c)'
<1>1. Values(c) \in Seq(Given) /\ DatabaseOf(handle[c]) \in Databases
  BY ValuesType
<1>2. Value(c)' = Value(c)
  BY DEF Value
<1>3. Values(c)' = Values(c) \/ \E y \in Given : Values(c)' = Append(Values(c), y)
  BY <1>1 DEF Extends, Values, DatabaseOf
<1>4. WasGiven(Values(c), Value(c)) => WasGiven(Values(c)', Value(c))
  BY <1>1, <1>3, GivenStays
<1>5. \A v : Recent(Values(c), Value(c), v) => Recent(Values(c)', Value(c), v)
  BY <1>1, <1>3, RecentStays
<1> QED
  BY <1>2, <1>4, <1>5 DEF CallInv

-----------------------------------------------------------------------------
(* The owners of the generations. *)

LEMMA OwnerType ==
    ASSUME IInv, NEW g \in Generations, OwnerStep(g) PROVE TypeInv'
<1>1. owner' \in [Generations -> Phases]
  BY DEF IInv, TypeInv, OwnerStep, Start, Stop, OpenConnection, MarkConnection, MarkStopped,
         MarkLive, StopLive, StopStopped, StopTake, StopClose, Advance, Phases, Stopping
<1>2. /\ connection' \in [Generations -> {"none", "open"}]
      /\ live' \in [Generations -> BOOLEAN]
      /\ stopped' \in [Generations -> BOOLEAN]
  <2> USE DEF IInv, TypeInv, OwnerStep
  <2>1. CASE Start(g)
    BY <2>1 DEF Start, OpenConnection, MarkConnection, MarkStopped, MarkLive
  <2>2. CASE Stop(g)
    BY <2>2 DEF Stop, StopLive, StopStopped, StopTake, StopClose
  <2> QED
    BY <2>1, <2>2
<1>3. /\ UNCHANGED <<path, database, callerVars, consoleVars, appVars, history>>
      /\ events' \in 0..MaxEvents /\ events' >= events
  BY BackendBoundsAssumption
  DEF IInv, TypeInv, OwnerStep, Start, Stop, OpenConnection, MarkConnection, MarkStopped,
      MarkLive, StopLive, StopStopped, StopTake, StopClose, Advance
<1> QED
  BY <1>1, <1>2, <1>3
  DEF IInv, TypeInv, callerVars, consoleVars, appVars, history

LEMMA OwnerFlags ==
    ASSUME IInv, NEW g \in Generations, OwnerStep(g) PROVE FlagsInv'
<1> USE DEF IInv, TypeInv, FlagsInv, OwnerStep, Advance, Refusing, Stopping
<1>1. CASE Start(g)
  BY <1>1 DEF Start, OpenConnection, MarkConnection, MarkStopped, MarkLive
<1>2. CASE Stop(g)
  BY <1>2 DEF Stop, StopLive, StopStopped, StopTake, StopClose
<1> QED
  BY <1>1, <1>2

\* An owner goes only forward, and out of the running phase only into a stop.
LEMMA OwnerForward ==
    ASSUME IInv, NEW g \in Generations, OwnerStep(g), NEW h \in Generations
    PROVE  /\ owner[h] \in Refusing => owner'[h] \in Refusing
           /\ owner[h] \in Stopping => owner'[h] \in Stopping
           /\ owner[h] = "running" => owner'[h] \in {"running"} \cup Stopping
BY DEF IInv, TypeInv, OwnerStep, Start, Stop, OpenConnection, MarkConnection, MarkStopped,
       MarkLive, StopLive, StopStopped, StopTake, StopClose, Advance, Refusing, Stopping

LEMMA OwnerInv ==
    ASSUME IInv, NEW g \in Generations, OwnerStep(g) PROVE IInv'
<1>0. UNCHANGED <<path, database, callerVars, appVars, history>>
  BY DEF OwnerStep, Start, Stop, OpenConnection, MarkConnection, MarkStopped,
         MarkLive, StopLive, StopStopped, StopTake, StopClose, Advance
<1>1. TypeInv' /\ FlagsInv'
  BY OwnerType, OwnerFlags
<1>2. RowInv'
  BY <1>0, RowStays DEF IInv, history
<1>3. ASSUME NEW c \in Callers PROVE AskedInv(c)'
  <2>1. handle[c] \in Generations
    BY DEF IInv, TypeInv
  <2>2. /\ owner[handle[c]] \in Refusing => owner'[handle[c]] \in Refusing
        /\ owner[handle[c]] \in Stopping => owner'[handle[c]] \in Stopping
        /\ owner[handle[c]] = "running" => owner'[handle[c]] \in {"running"} \cup Stopping
    BY <2>1, OwnerForward
  <2> QED
    BY <2>2, <1>0 DEF IInv, AskedInv, callerVars, history
<1>4. ASSUME NEW c \in Callers PROVE CallInv(c)'
  BY <1>0, CallStays DEF IInv, Extends, callerVars, appVars, history
<1> QED
  BY <1>1, <1>2, <1>3, <1>4 DEF IInv
-----------------------------------------------------------------------------
(* The steps in which an operation of the database begins. *)

LEMMA AsksFlags ==
    ASSUME IInv, NEW c \in Callers, NEW g \in Generations, NEW s, Asks(c, g, s)
    PROVE  FlagsInv' /\ RowInv'
BY FlagsStay, RowStays DEF IInv, Asks, CallDatabase

LEMMA AsksAsked ==
    ASSUME IInv, NEW c \in Callers, NEW g \in Generations, NEW s, Asks(c, g, s),
           NEW d \in Callers
    PROVE  AskedInv(d)'
<1>1. CASE d = c
  BY <1>1 DEF IInv, TypeInv, Asks, CallDatabase, AskedInv, ownerVars
<1>2. CASE d # c
  BY <1>2, AskedStays DEF IInv, TypeInv, Asks, CallDatabase, ownerVars
<1> QED
  BY <1>1, <1>2

\* The calls of the others.
LEMMA AsksOthers ==
    ASSUME IInv, NEW c \in Callers, NEW g \in Generations, NEW s, Asks(c, g, s),
           NEW d \in Callers, d # c, stage'[d] = stage[d], stored'[d] = stored[d],
           result'[d] = result[d], calls'[d] = calls[d]
    PROVE  CallInv(d)'
BY CallStays DEF IInv, TypeInv, Asks, CallDatabase, ownerVars, Extends

LEMMA AsksType ==
    ASSUME IInv, NEW c \in Callers, NEW g \in Generations,
           NEW s \in [kind : {"none", "create", "upsert", "select"}, value : Given \cup {None}],
           Asks(c, g, s),
           stage' \in [Callers -> {"idle", "create", "upsert", "select", "emit"}],
           stored' \in [Callers -> Given \cup {None}],
           result' = [d \in Callers |-> result'[d]],
           calls' \in [Callers -> 0..MaxEvents],
           events' \in 0..MaxEvents,
           \A d \in Callers : calls'[d] <= events'
    PROVE  TypeInv'
<1>1. /\ at' \in [Callers -> {"none", "live", "stopped", "connection"}]
      /\ handle' \in [Callers -> Generations]
      /\ asked' \in [Callers -> Phases]
  BY DEF IInv, TypeInv, Asks, CallDatabase
<1>2. statement' \in [Callers -> [kind : {"none", "create", "upsert", "select"},
                                  value : Given \cup {None}]]
  BY DEF IInv, TypeInv, Asks, CallDatabase
<1>3. answer' \in [Callers -> [status : {"none", "Ok", "Stopped", "NotStarted",
                                         "ExecuteFailed", "QueryFailed"},
                               row : Given \cup {None}]]
  BY DEF IInv, TypeInv, Asks, CallDatabase
<1>4. UNCHANGED <<path, owner, connection, live, stopped, database, emitted, order>>
  BY DEF Asks, CallDatabase, ownerVars, consoleVars
<1> QED
  BY <1>1, <1>2, <1>3, <1>4 DEF IInv, TypeInv

LEMMA ValueGiven == ASSUME TypeInv, NEW c \in Callers PROVE Value(c) \in Given
BY DEF TypeInv, Value, Given

LEMMA WriteReadLogInv ==
    ASSUME IInv, NEW c \in Callers, WriteReadLog(c) PROVE IInv'
<1> PICK g \in Generations : Asks(c, g, [kind |-> "create", value |-> None])
  BY DEF WriteReadLog
<1>1. FlagsInv' /\ RowInv' /\ \A d \in Callers : AskedInv(d)'
  BY AsksFlags, AsksAsked
<1>2. TypeInv'
  <2>1. /\ stage' \in [Callers -> {"idle", "create", "upsert", "select", "emit"}]
        /\ stored' \in [Callers -> Given \cup {None}]
        /\ result' = [d \in Callers |-> result'[d]]
    BY DEF IInv, TypeInv, WriteReadLog
  <2>2. /\ calls' \in [Callers -> 0..MaxEvents]
        /\ events' \in 0..MaxEvents
        /\ \A d \in Callers : calls'[d] <= events'
    BY BackendBoundsAssumption DEF IInv, TypeInv, WriteReadLog
  <2> QED
    BY <2>1, <2>2, AsksType
<1>3. ASSUME NEW d \in Callers PROVE CallInv(d)'
  <2>1. CASE d = c
    BY <2>1 DEF IInv, TypeInv, CallInv, WriteReadLog, Asks, CallDatabase
  <2>2. CASE d # c
    BY <2>2, AsksOthers DEF IInv, TypeInv, WriteReadLog
  <2> QED
    BY <2>1, <2>2
<1> QED
  BY <1>1, <1>2, <1>3 DEF IInv

LEMMA CreatedInv ==
    ASSUME IInv, NEW c \in Callers, Created(c) PROVE IInv'
<1>0. handle[c] \in Generations /\ Asks(c, handle[c], [kind |-> "upsert", value |-> Value(c)])
  BY DEF IInv, TypeInv, Created
<1>1. FlagsInv' /\ RowInv' /\ \A d \in Callers : AskedInv(d)'
  BY <1>0, AsksFlags, AsksAsked
<1>2. TypeInv'
  BY <1>0, AsksType, ValueGiven DEF IInv, TypeInv, Created
<1>3. ASSUME NEW d \in Callers PROVE CallInv(d)'
  <2>1. CASE d = c
    <3>1. Values(c)' = Values(c) /\ Value(c)' = Value(c)
      BY <1>0 DEF IInv, TypeInv, Values, Value, DatabaseOf, Created, Asks, CallDatabase, ownerVars
    <3> QED
      BY <2>1, <3>1 DEF IInv, TypeInv, CallInv, Created, Answered, Asks, CallDatabase
  <2>2. CASE d # c
    BY <2>2, <1>0, AsksOthers DEF IInv, TypeInv, Created
  <2> QED
    BY <2>1, <2>2
<1> QED
  BY <1>1, <1>2, <1>3 DEF IInv

LEMMA UpsertedInv ==
    ASSUME IInv, NEW c \in Callers, Upserted(c) PROVE IInv'
<1>0. handle[c] \in Generations /\ Asks(c, handle[c], [kind |-> "select", value |-> None])
  BY DEF IInv, TypeInv, Upserted
<1>1. FlagsInv' /\ RowInv' /\ \A d \in Callers : AskedInv(d)'
  BY <1>0, AsksFlags, AsksAsked
<1>2. TypeInv'
  BY <1>0, AsksType DEF IInv, TypeInv, Upserted
<1>3. ASSUME NEW d \in Callers PROVE CallInv(d)'
  <2>1. CASE d = c
    <3>1. Values(c)' = Values(c) /\ Value(c)' = Value(c)
      BY <1>0 DEF IInv, TypeInv, Values, Value, DatabaseOf, Upserted, Asks, CallDatabase, ownerVars
    <3> QED
      BY <2>1, <3>1 DEF IInv, TypeInv, CallInv, Upserted, Answered, Asks, CallDatabase
  <2>2. CASE d # c
    BY <2>2, <1>0, AsksOthers DEF IInv, TypeInv, Upserted
  <2> QED
    BY <2>1, <2>2
<1> QED
  BY <1>1, <1>2, <1>3 DEF IInv

-----------------------------------------------------------------------------
(* The steps of an operation of the database. *)

Statuses == {"none", "Ok", "Stopped", "NotStarted", "ExecuteFailed", "QueryFailed"}

\* No step of an operation changes the flags, or anything of another caller's.
LEMMA OperatesFrame ==
    ASSUME IInv, NEW c \in Callers, DatabaseStep(c)
    PROVE  /\ UNCHANGED <<ownerVars, handle, emitted, appVars, events, asked>>
           /\ \A d \in Callers \ {c} :
                 at'[d] = at[d] /\ statement'[d] = statement[d] /\ answer'[d] = answer[d]
BY DEF IInv, TypeInv, DatabaseStep, Operates, ReadLive, ReadStopped, NoConnection, Create,
       Upsert, Select, Fails, Answers, consoleVars

LEMMA AnswersIs ==
    ASSUME IInv, NEW c \in Callers, NEW status, NEW row, Answers(c, status, row)
    PROVE  at'[c] = "none" /\ answer'[c].status = status /\ answer'[c].row = row
BY DEF IInv, TypeInv, Answers

\* Only a successful upsert gives a database a value, and that value is its row then.
LEMMA UpsertsOnly ==
    ASSUME IInv, NEW c \in Callers, DatabaseStep(c)
    PROVE  \/ /\ Upsert(c)
              /\ order' = [order EXCEPT ![DatabaseOf(handle[c])] =
                              Append(@, statement[c].value)]
           \/ /\ ~(statement[c].kind = "upsert" /\ answer'[c].status = "Ok")
              /\ UNCHANGED order
              /\ \A d \in Databases : database'[d].row = database[d].row
<1>1. CASE Upsert(c)
  BY <1>1 DEF IInv, TypeInv, DatabaseStep, Upsert, Admitted, Answers
<1>2. CASE Create(c)
  BY <1>2, ValuesType DEF IInv, TypeInv, DatabaseStep, Create, Admitted, Answers
<1>3. CASE ReadLive(c) \/ ReadStopped(c) \/ NoConnection(c) \/ Select(c) \/ Fails(c)
  <2>1. answer'[c].status = "Ok" => statement[c].kind # "upsert"
    <3>1. CASE ReadLive(c)
      BY <3>1 DEF ReadLive, IInv, AskedInv
    <3>2. CASE ReadStopped(c)
      BY <3>2, AnswersIs DEF ReadStopped
    <3>3. CASE NoConnection(c)
      BY <3>3, AnswersIs DEF NoConnection
    <3>4. CASE Select(c)
      BY <3>4 DEF Select, Admitted
    <3>5. CASE Fails(c)
      BY <3>5, AnswersIs DEF Fails
    <3> QED
      BY <1>3, <3>1, <3>2, <3>3, <3>4, <3>5
  <2> QED
    BY <1>3, <2>1 DEF DatabaseStep, ReadLive, ReadStopped, NoConnection, Select, Fails
<1> QED
  BY <1>1, <1>2, <1>3 DEF DatabaseStep, Operates

\* The statement of an upsert that is admitted carries a value.
LEMMA UpsertValue ==
    ASSUME IInv, NEW c \in Callers, Upsert(c)
    PROVE  statement[c].value = Value(c) /\ Value(c) \in Given
BY ValueGiven DEF IInv, CallInv, Upsert, Admitted

LEMMA OperatesExtends ==
    ASSUME IInv, NEW c \in Callers, DatabaseStep(c) PROVE Extends /\ order' \in [Databases -> Seq(Given)]
<1>1. CASE UNCHANGED order
  BY <1>1 DEF Extends, IInv, TypeInv
<1>2. CASE Upsert(c) /\ order' = [order EXCEPT ![DatabaseOf(handle[c])] =
                                    Append(@, statement[c].value)]
  BY <1>2, UpsertValue, ValuesType DEF Extends, IInv, TypeInv
<1> QED
  BY <1>1, <1>2, UpsertsOnly

LEMMA TableType ==
    ASSUME NEW Rows, NEW d \in [table : BOOLEAN, row : Rows]
    PROVE  [d EXCEPT !.table = TRUE] \in [table : BOOLEAN, row : Rows]
OBVIOUS

LEMMA OperatesType ==
    ASSUME IInv, NEW c \in Callers, DatabaseStep(c) PROVE TypeInv'
<1> USE DEF IInv, TypeInv
<1>1. order' \in [Databases -> Seq(Given)]
  BY OperatesExtends
<1>2. database' \in [Databases -> [table : BOOLEAN, row : Given \cup {None}]]
  <2>1. CASE Create(c)
    <3>1. DatabaseOf(handle[c]) \in Databases
      BY ValuesType
    <3>2. database' = [database EXCEPT ![DatabaseOf(handle[c])] = [@ EXCEPT !.table = TRUE]]
      BY <2>1 DEF Create
    <3>3. [database[DatabaseOf(handle[c])] EXCEPT !.table = TRUE]
             \in [table : BOOLEAN, row : Given \cup {None}]
      <4>1. database[DatabaseOf(handle[c])] \in [table : BOOLEAN, row : Given \cup {None}]
        BY <3>1
      <4> HIDE DEF IInv, TypeInv
      <4> QED
        BY <4>1, TableType
    <3> QED
      BY <3>1, <3>2, <3>3
  <2>2. CASE Upsert(c)
    <3>1. DatabaseOf(handle[c]) \in Databases
      BY ValuesType
    <3>2. database' = [database EXCEPT ![DatabaseOf(handle[c])] =
                         [@ EXCEPT !.row = statement[c].value]]
      BY <2>2 DEF Upsert
    <3>3. [database[DatabaseOf(handle[c])] EXCEPT !.row = statement[c].value]
             \in [table : BOOLEAN, row : Given \cup {None}]
      BY <3>1, <2>2, UpsertValue
    <3> QED
      BY <3>1, <3>2, <3>3
  <2>3. CASE UNCHANGED database
    BY <2>3
  <2> QED
    BY <2>1, <2>2, <2>3
    DEF DatabaseStep, Operates, ReadLive, ReadStopped, NoConnection, Select, Fails
<1>3. at' \in [Callers -> {"none", "live", "stopped", "connection"}]
  <2>1. CASE ReadLive(c)
    BY <2>1 DEF ReadLive
  <2>2. CASE at' = [at EXCEPT ![c] = "none"]
    BY <2>2
  <2> QED
    BY <2>1, <2>2
    DEF DatabaseStep, Operates, ReadStopped, NoConnection, Create, Upsert, Select, Fails, Answers
<1>4. statement' \in [Callers -> [kind : {"none", "create", "upsert", "select"},
                                  value : Given \cup {None}]]
  BY DEF DatabaseStep, Operates, ReadLive, ReadStopped, NoConnection, Create, Upsert, Select,
         Fails, Answers, NoStatement
<1>5. answer' \in [Callers -> [status : Statuses, row : Given \cup {None}]]
  <2>1. CASE ReadLive(c)
    BY <2>1 DEF ReadLive, Statuses
  <2>2. ASSUME NEW status \in Statuses, NEW row \in Given \cup {None}, Answers(c, status, row)
        PROVE  answer' \in [Callers -> [status : Statuses, row : Given \cup {None}]]
    BY <2>2 DEF Answers, Statuses
  <2>3. CASE Select(c)
    <3>1. database[DatabaseOf(handle[c])].row \in Given \cup {None}
      BY ValuesType
    <3> QED
      BY <2>2, <2>3, <3>1 DEF Select, Statuses
  <2>4. CASE ReadStopped(c) \/ NoConnection(c) \/ Create(c) \/ Upsert(c) \/ Fails(c)
    BY <2>2, <2>4 DEF ReadStopped, NoConnection, Create, Upsert, Fails, Statuses
  <2> QED
    BY <2>1, <2>3, <2>4 DEF DatabaseStep, Operates
<1> QED
  BY <1>1, <1>2, <1>3, <1>4, <1>5, OperatesFrame DEF ownerVars, appVars, Statuses

LEMMA OperatesRow ==
    ASSUME IInv, NEW c \in Callers, DatabaseStep(c) PROVE RowInv'
<1>1. CASE UNCHANGED order /\ \A d \in Databases : database'[d].row = database[d].row
  BY <1>1 DEF IInv, RowInv
<1>2. CASE Upsert(c) /\ order' = [order EXCEPT ![DatabaseOf(handle[c])] =
                                    Append(@, statement[c].value)]
  <2> DEFINE D == DatabaseOf(handle[c])
  <2>1. D \in Databases /\ order[D] \in Seq(Given) /\ statement[c].value \in Given
    BY <1>2, UpsertValue, ValuesType DEF IInv, TypeInv
  <2>2. database'[D].row = statement[c].value
    BY <1>2, <2>1 DEF IInv, TypeInv, Upsert
  <2>3. order'[D] = Append(order[D], statement[c].value)
    BY <1>2, <2>1 DEF IInv, TypeInv
  <2>4. \A d \in Databases \ {D} : database'[d] = database[d] /\ order'[d] = order[d]
    BY <1>2, <2>1 DEF IInv, TypeInv, Upsert
  <2>5. order'[D][Len(order'[D])] = statement[c].value
    BY <2>1, <2>3
  <2> QED
    BY <2>1, <2>2, <2>4, <2>5 DEF IInv, RowInv
<1> QED
  BY <1>1, <1>2, UpsertsOnly

LEMMA OperatesAsked ==
    ASSUME IInv, NEW c \in Callers, DatabaseStep(c) PROVE AskedInv(c)'
<1> USE DEF IInv, TypeInv, FlagsInv
<1>0. handle[c] \in Generations /\ owner[handle[c]] \in Phases /\ asked[c] \in Phases
  OBVIOUS
<1>1. CASE ReadLive(c)
  <2>1. /\ at'[c] = IF live[handle[c]] THEN "connection" ELSE "stopped"
        /\ UNCHANGED <<answer, handle, asked, owner>>
    BY <1>1, OperatesFrame DEF ReadLive, ownerVars
  <2>2. /\ at[c] = "live" /\ answer[c].status = "none"
        /\ asked[c] \in Refusing => owner[handle[c]] \in Refusing
        /\ asked[c] \in Stopping => owner[handle[c]] \in Stopping
        /\ asked[c] = "running" => owner[handle[c]] \in {"running"} \cup Stopping
    BY <1>1 DEF ReadLive, AskedInv
  <2>3. live[handle[c]] <=> owner[handle[c]] = "running"
    BY <1>0
  <2>4. CASE live[handle[c]]
    BY <2>1, <2>2, <2>3, <2>4 DEF AskedInv, Refusing, Stopping
  <2>5. CASE ~live[handle[c]]
    BY <1>0, <2>1, <2>2, <2>3, <2>5 DEF AskedInv
  <2> QED
    BY <2>4, <2>5
<1>2. CASE ReadStopped(c)
  BY <1>0, <1>2, OperatesFrame DEF ReadStopped, Answers, AskedInv, ownerVars, Phases, Refusing, Stopping
<1>3. CASE NoConnection(c)
  BY <1>0, <1>3, OperatesFrame DEF NoConnection, Answers, AskedInv, ownerVars, Phases, Refusing, Stopping
<1>4. CASE Create(c) \/ Upsert(c) \/ Select(c)
  BY <1>0, <1>4, OperatesFrame
  DEF Create, Upsert, Select, Admitted, Answers, AskedInv, ownerVars, Phases, Refusing, Stopping
<1>5. CASE Fails(c)
  BY <1>0, <1>5, OperatesFrame DEF Fails, Answers, AskedInv, ownerVars, Phases, Refusing, Stopping
<1> QED
  BY <1>1, <1>2, <1>3, <1>4, <1>5 DEF DatabaseStep, Operates

LEMMA OperatesCall ==
    ASSUME IInv, NEW c \in Callers, DatabaseStep(c) PROVE CallInv(c)'
<1> USE DEF IInv, TypeInv
<1>0. /\ Values(c) \in Seq(Given) /\ DatabaseOf(handle[c]) \in Databases
      /\ UNCHANGED <<path, handle, stage, stored, result, calls>>
  BY ValuesType, OperatesFrame DEF ownerVars, appVars
<1>1. Value(c)' = Value(c)
  BY <1>0 DEF Value
<1>2. at[c] # "none" /\ stage[c] \notin {"idle", "emit"} /\ statement[c].kind = stage[c]
  BY DEF CallInv, DatabaseStep, Operates, ReadLive, ReadStopped, NoConnection, Create, Upsert,
         Select, Fails, Admitted
<1>3. Values(c)' = Values(c) \/ \E y \in Given : Values(c)' = Append(Values(c), y)
  BY <1>0, OperatesExtends DEF Extends, Values, DatabaseOf
<1>4. /\ stage[c] = "select" => WasGiven(Values(c)', Value(c))
      /\ result[c] = "Ok" => Recent(Values(c)', Value(c), stored[c])
      /\ result[c] # "MissingRow"
  <2>1. /\ stage[c] = "select" => WasGiven(Values(c), Value(c))
        /\ result[c] = "Ok" => Recent(Values(c), Value(c), stored[c])
        /\ result[c] # "MissingRow"
    BY DEF CallInv
  <2> HIDE DEF IInv, TypeInv
  <2>2. CASE Values(c)' = Values(c)
    BY <2>1, <2>2
  <2>3. CASE \E y \in Given : Values(c)' = Append(Values(c), y)
    BY <1>0, <2>1, <2>3, GivenStays, RecentStays
  <2> QED
    BY <1>3, <2>2, <2>3
<1>5. CASE ReadLive(c)
  <2>1. at'[c] # "none" /\ UNCHANGED statement
    BY <1>5 DEF ReadLive
  <2> QED
    BY <1>0, <1>1, <1>2, <1>4, <2>1 DEF CallInv
<1>6. CASE at'[c] = "none" /\ stage[c] = "create"
  BY <1>0, <1>1, <1>4, <1>6 DEF CallInv
<1>7. CASE at'[c] = "none" /\ stage[c] = "upsert"
  <2>1. answer'[c].status = "Ok" => WasGiven(Values(c)', Value(c))
    <3>1. CASE Upsert(c) /\ order' = [order EXCEPT ![DatabaseOf(handle[c])] =
                                        Append(@, statement[c].value)]
      <4>1. Values(c)' = Append(Values(c), Value(c)) /\ Value(c) \in Given
        BY <1>0, <3>1, UpsertValue DEF Values, DatabaseOf
      <4> QED
        BY <1>0, <4>1, GivenNow
    <3> QED
      BY <3>1, <1>2, <1>7, UpsertsOnly
  <2> QED
    BY <1>0, <1>1, <1>4, <1>7, <2>1 DEF CallInv
<1>8. CASE at'[c] = "none" /\ stage[c] = "select"
  <2>1. answer'[c].status = "Ok" => Recent(Values(c)', Value(c), answer'[c].row)
    <3>1. Values(c)' = Values(c)
      BY <1>0, <1>2, <1>8, UpsertsOnly DEF Values, DatabaseOf, Upsert, Admitted
    <3>2. WasGiven(Values(c), Value(c))
      BY <1>8 DEF CallInv
    <3>3. CASE Select(c)
      <4>1. answer'[c].row = database[DatabaseOf(handle[c])].row
        BY <3>3, AnswersIs DEF Select
      <4>2. Values(c) # <<>> /\ Recent(Values(c), Value(c), Values(c)[Len(Values(c))])
        BY <1>0, <3>2, LastIsRecent
      <4>3. database[DatabaseOf(handle[c])].row = Values(c)[Len(Values(c))]
        BY <1>0, <4>2 DEF RowInv, Values
      <4> QED
        BY <3>1, <4>1, <4>2, <4>3
    <3>4. CASE ReadStopped(c) \/ NoConnection(c) \/ Fails(c)
      BY <3>4, AnswersIs DEF ReadStopped, NoConnection, Fails
    <3>5. ~Create(c) /\ ~Upsert(c) /\ ~ReadLive(c)
      BY <1>2, <1>8 DEF Create, Upsert, Admitted, ReadLive
    <3> QED
      BY <3>3, <3>4, <3>5 DEF DatabaseStep, Operates
  <2> QED
    BY <1>0, <1>1, <1>4, <1>8, <2>1 DEF CallInv
<1>9. ReadLive(c) \/ at'[c] = "none"
  BY AnswersIs DEF DatabaseStep, Operates, ReadStopped, NoConnection, Create, Upsert, Select, Fails
<1> QED
  BY <1>2, <1>5, <1>6, <1>7, <1>8, <1>9

LEMMA DatabaseInv ==
    ASSUME IInv, NEW c \in Callers, DatabaseStep(c) PROVE IInv'
<1>1. TypeInv' /\ RowInv' /\ FlagsInv'
  BY OperatesType, OperatesRow, OperatesFrame, FlagsStay DEF IInv
<1>2. ASSUME NEW d \in Callers PROVE AskedInv(d)' /\ CallInv(d)'
  <2>1. CASE d = c
    BY <2>1, OperatesAsked, OperatesCall
  <2>2. CASE d # c
    BY <2>2, OperatesFrame, OperatesExtends, AskedStays, CallStays DEF IInv, ownerVars, appVars
  <2> QED
    BY <2>1, <2>2
<1> QED
  BY <1>1, <1>2 DEF IInv
-----------------------------------------------------------------------------
(* The steps of a call between its operations, and those of the console. *)

\* A step that changes nothing of the database leaves its part as it is.
LEMMA OthersStay ==
    ASSUME IInv, NEW c \in Callers, UNCHANGED <<sqliteVars, history>>,
           stage'[c] = stage[c], stored'[c] = stored[c], result'[c] = result[c],
           calls'[c] = calls[c]
    PROVE  CallInv(c)'
BY CallStays DEF IInv, Extends, sqliteVars, ownerVars, callerVars, history

LEMMA DatabaseStays ==
    ASSUME IInv, UNCHANGED <<sqliteVars, history>>
    PROVE  FlagsInv' /\ RowInv' /\ \A c \in Callers : AskedInv(c)'
BY FlagsStay, RowStays, AskedStays DEF IInv, sqliteVars, ownerVars, callerVars, history

LEMMA ProceedsType ==
    ASSUME IInv, UNCHANGED <<sqliteVars, history, calls, events>>,
           emitted' \in [Emitters -> {"none", "Ok", "WriteFailed"}],
           stage' \in [Callers -> {"idle", "create", "upsert", "select", "emit"}],
           stored' \in [Callers -> Given \cup {None}],
           result' = [c \in Callers |-> result'[c]]
    PROVE  TypeInv'
BY DEF IInv, TypeInv, sqliteVars, ownerVars, callerVars, history

LEMMA EmittedType ==
    ASSUME IInv, NEW e \in Emitters, (\E r : Emit(e, r)) \/ LockStdout(e) \/ LockStderr(e) \/ Write(e)
    PROVE  emitted' \in [Emitters -> {"none", "Ok", "WriteFailed"}]
<1>1. CASE \E r : Emit(e, r)
  BY <1>1 DEF IInv, TypeInv, Emit
<1>2. CASE LockStdout(e) \/ LockStderr(e)
  BY <1>2 DEF IInv, TypeInv, LockStdout, LockStderr
<1>3. CASE Write(e)
  BY <1>3 DEF IInv, TypeInv, Write, Skip, WriteText, WriteNewline, WriteFails, Returns
<1> QED
  BY <1>1, <1>2, <1>3

\* The call of c, when nothing of the database changes.
LEMMA ProceedsCall ==
    ASSUME IInv, NEW c \in Callers, UNCHANGED <<sqliteVars, history, calls>>,
           at[c] = "none", stage'[c] \in {"idle", "emit"}, result'[c] # "MissingRow",
           stage'[c] = "emit" \/ result'[c] = "Ok" =>
               Recent(Values(c), Value(c), stored'[c])
    PROVE  CallInv(c)'
<1>1. Values(c)' = Values(c) /\ Value(c)' = Value(c) /\ at'[c] = "none"
  BY DEF Values, Value, DatabaseOf, sqliteVars, ownerVars, callerVars, history
<1> QED
  BY <1>1 DEF CallInv

LEMMA ProceedsInv ==
    ASSUME IInv, NEW c \in Callers, DatabaseRefuses(c) \/ Selected(c) \/ LogReturns(c)
    PROVE  IInv'
<1> USE DEF IInv, TypeInv
<1>0. c \in Emitters
  BY ThreadsAssumption
<1>1. UNCHANGED <<sqliteVars, history, calls, events>> /\ at[c] = "none"
  BY DEF DatabaseRefuses, Selected, LogReturns, Answered, CallEnds, bounds, CallInv
<1>2. Selected(c) => answer[c].row # None /\ Recent(Values(c), Value(c), answer[c].row)
                       /\ answer[c].row \in Given
  BY RecentIsValue DEF Selected, Answered, CallInv
<1>3. TypeInv'
  <2>1. emitted' \in [Emitters -> {"none", "Ok", "WriteFailed"}]
    BY <1>0, <1>2, EmittedType DEF DatabaseRefuses, Selected, LogReturns, consoleVars
  <2>2. stage' \in [Callers -> {"idle", "create", "upsert", "select", "emit"}]
    <3>1. stage \in [Callers -> {"idle", "create", "upsert", "select", "emit"}]
      OBVIOUS
    <3>2. stage' = [stage EXCEPT ![c] = "idle"] \/ stage' = [stage EXCEPT ![c] = "emit"]
      BY <1>2 DEF DatabaseRefuses, Selected, LogReturns, CallEnds
    <3> HIDE DEF IInv, TypeInv
    <3> QED
      BY <3>1, <3>2
  <2>3. stored' \in [Callers -> Given \cup {None}]
    BY <1>2 DEF DatabaseRefuses, Selected, LogReturns
  <2>4. result' = [d \in Callers |-> result'[d]]
    BY <1>2 DEF DatabaseRefuses, Selected, LogReturns, CallEnds
  <2> QED
    BY <1>1, <2>1, <2>2, <2>3, <2>4, ProceedsType
<1>4. CallInv(c)'
  <2>1. CASE DatabaseRefuses(c)
    <3>1. stage'[c] = "idle" /\ result'[c] = answer[c].status /\ answer[c].status # "Ok"
            /\ answer[c].status # "MissingRow"
      BY <2>1 DEF DatabaseRefuses, CallEnds
    <3> QED
      BY <1>1, <3>1, ProceedsCall
  <2>2. CASE Selected(c)
    <3>1. /\ stage'[c] = "emit" /\ stored'[c] = answer[c].row /\ result'[c] = result[c]
      BY <1>2, <2>2 DEF Selected
    <3>2. result[c] # "MissingRow"
      BY DEF CallInv
    <3> QED
      BY <1>1, <1>2, <2>2, <3>1, <3>2, ProceedsCall
  <2>3. CASE LogReturns(c)
    <3>1. /\ stage'[c] = "idle" /\ stored'[c] = stored[c] /\ result'[c] = emitted[c]
          /\ emitted[c] # "MissingRow" /\ stage[c] = "emit"
      BY <1>0, <2>3 DEF LogReturns, CallEnds
    <3>2. Recent(Values(c), Value(c), stored[c])
      BY <3>1 DEF CallInv
    <3> QED
      BY <1>1, <3>1, <3>2, ProceedsCall
  <2> QED
    BY <2>1, <2>2, <2>3
<1>5. ASSUME NEW d \in Callers, d # c PROVE CallInv(d)'
  BY <1>1, <1>2, <1>5, OthersStay DEF DatabaseRefuses, Selected, LogReturns, CallEnds
<1> QED
  BY <1>1, <1>3, <1>4, <1>5, DatabaseStays

LEMMA ConsoleInv ==
    ASSUME IInv, MonitorEmits \/ \E e \in Emitters : Locks(e) \/ WriteStep(e)
    PROVE  IInv'
<1>1. /\ UNCHANGED <<sqliteVars, history, appVars>>
      /\ events' \in 0..MaxEvents /\ events' >= events
  BY BackendBoundsAssumption DEF IInv, TypeInv, MonitorEmits, Locks, WriteStep, bounds
<1>2. emitted' \in [Emitters -> {"none", "Ok", "WriteFailed"}]
  BY ThreadsAssumption, EmittedType DEF MonitorEmits, Locks, WriteStep
<1>3. TypeInv'
  BY <1>1, <1>2 DEF IInv, TypeInv, sqliteVars, ownerVars, callerVars, history, appVars
<1>4. \A c \in Callers : CallInv(c)'
  BY <1>1, OthersStay DEF appVars
<1> QED
  BY <1>1, <1>3, <1>4, DatabaseStays DEF IInv

LEMMA StutterInv == IInv /\ UNCHANGED vars => IInv'
<1> SUFFICES ASSUME IInv, UNCHANGED vars PROVE IInv'
  OBVIOUS
<1>1. TypeInv'
  BY DEF IInv, TypeInv, vars, sqliteVars, ownerVars, callerVars, consoleVars, history, appVars
<1>2. \A c \in Callers : CallInv(c)'
  BY OthersStay DEF vars, appVars
<1> QED
  BY <1>1, <1>2, DatabaseStays DEF IInv, vars

LEMMA NextInv == IInv /\ [Next]_vars => IInv'
<1> SUFFICES ASSUME IInv, Next PROVE IInv'
  BY StutterInv
<1>1. CASE \E g \in Generations : OwnerStep(g)
  BY <1>1, OwnerInv
<1>2. CASE \E c \in Callers : WriteReadLog(c)
  BY <1>2, WriteReadLogInv
<1>3. CASE MonitorEmits
  BY <1>3, ConsoleInv
<1>4. ASSUME NEW e \in Emitters, GoesOn(e) PROVE IInv'
  <2>1. CASE e \in Callers /\ DatabaseStep(e)
    BY <2>1, DatabaseInv
  <2>2. CASE e \in Callers /\ Proceeds(e)
    BY <2>2, CreatedInv, UpsertedInv, ProceedsInv DEF Proceeds
  <2>3. CASE Locks(e) \/ WriteStep(e)
    BY <2>3, ConsoleInv
  <2> QED
    BY <1>4, <2>1, <2>2, <2>3 DEF GoesOn
<1> QED
  BY <1>1, <1>2, <1>3, <1>4 DEF Next
-----------------------------------------------------------------------------
(* Theorems. *)

\* The invariant holds in every state of every behaviour.
THEOREM Invariance == Spec => []IInv
BY InitInv, NextInv, PTL DEF Spec

\* A call of write_read_log returns the value that it wrote or one that was written
\* after it, and never finds its row missing, whatever the generations and the other
\* threads do meanwhile.
THEOREM ReadsAreRecent == Spec => []StoredIsRecent
<1>1. IInv => StoredIsRecent
  <2> SUFFICES ASSUME IInv, NEW c \in Callers
               PROVE  /\ result[c] # "MissingRow"
                      /\ result[c] = "Ok" =>
                            \E i, j \in DOMAIN Values(c) :
                               i <= j /\ Values(c)[i] = Value(c) /\ Values(c)[j] = stored[c]
    BY DEF StoredIsRecent, Values
  <2>1. Values(c) \in Seq(Given)
    BY ValuesType DEF IInv
  <2> QED
    BY <2>1 DEF IInv, CallInv, Recent
<1> QED
  BY <1>1, Invariance, PTL

\* What an operation of the database is told when it is refused fits what the owner
\* of its generation has done since it began.
THEOREM RefusalsFit == Spec => []RefusalFitsGeneration
<1>1. IInv => RefusalFitsGeneration
  <2> SUFFICES ASSUME IInv, NEW c \in Callers, at[c] = "none", answer[c].status # "none"
               PROVE  LET now == owner[handle[c]]
                      IN  /\ asked[c] \in Stopping \ {"stopping"} => answer[c].status = "Stopped"
                          /\ answer[c].status = "Stopped" => now \in Stopping
                          /\ answer[c].status = "NotStarted" =>
                                asked[c] \in {"new", "opened", "connected", "cleared", "failed"}
                                  \/ now \in Stopping
    BY DEF RefusalFitsGeneration
  <2> QED
    BY DEF IInv, AskedInv, Refusing, Phases
<1> QED
  BY <1>1, Invariance, PTL
-----------------------------------------------------------------------------
(* Induction over the natural numbers, for a set in place of a predicate. *)

LEMMA Induction ==
    ASSUME NEW S, 0 \in S, \A n \in Nat : n \in S => n + 1 \in S
    PROVE  \A n \in Nat : n \in S
<1> DEFINE Missing == Nat \ S
<1> SUFFICES ASSUME Missing # {} PROVE FALSE
  OBVIOUS
<1>1. PICK n \in Missing : \A m \in Missing : <<m, n>> \notin OpToRel(<, Nat)
  BY NatLessThanWellFounded, WFMin
<1>2. \A m \in Missing : m \in Nat /\ n \in Nat /\ ~(m < n)
  BY <1>1, Zenon DEF OpToRel
<1>3. n # 0 /\ n - 1 \in Nat /\ n - 1 \in S
  BY <1>2
<1> QED
  BY <1>2, <1>3
-----------------------------------------------------------------------------
(* FlattenSeq. *)

\* There is a history of the flattening: the text after each of the parts.
LEMMA FlattenUnfolds ==
    ASSUME NEW S, NEW ss \in Seq(Seq(S)), Len(ss) # 0
    PROVE  \E g \in [1..Len(ss) -> Seq(S)] :
              /\ g[1] = ss[1]
              /\ \A n \in 2..Len(ss) : g[n] = g[n - 1] \o ss[n]
              /\ FlattenSeq(ss) = g[Len(ss)]
<1> DEFINE N == Len(ss)
           Upto(n) == {g \in [1..n -> Seq(S)] :
                          g[1] = ss[1] /\ \A i \in 2..n : g[i] = g[i - 1] \o ss[i]}
           Reached == {n \in Nat : n \in 1..N => Upto(n) # {}}
<1>0. N \in Nat /\ N >= 1 /\ \A n \in 1..N : ss[n] \in Seq(S)
  OBVIOUS
<1>1. 0 \in Reached
  OBVIOUS
<1>2. ASSUME NEW n \in Nat, n \in Reached PROVE n + 1 \in Reached
  <2>0. n + 1 \in Nat
    OBVIOUS
  <2> SUFFICES ASSUME n + 1 \in 1..N PROVE Upto(n + 1) # {}
    BY <2>0, Zenon
  <2>1. CASE n = 0
    <3> DEFINE h == [i \in 1..1 |-> ss[1]]
    <3>1. h \in [1..1 -> Seq(S)] /\ h[1] = ss[1] /\ \A i \in 2..1 : h[i] = h[i - 1] \o ss[i]
      BY <1>0
    <3> HIDE DEF h
    <3>2. h \in Upto(1) /\ n + 1 = 1
      BY <2>1, <3>1
    <3> QED
      BY <3>2, Zenon
  <2>2. CASE n # 0
    <3>1. PICK g \in Upto(n) : TRUE
      <4>1. n \in 1..N
        BY <1>0, <2>2
      <4> QED
        BY <1>2, <4>1, Zenon
    <3>2. /\ g \in [1..n -> Seq(S)] /\ n \in 1..n /\ n + 1 \in 1..N /\ 1 \in 1..n
          /\ g[1] = ss[1] /\ \A i \in 2..n : g[i] = g[i - 1] \o ss[i]
      <4>1. n \in 1..n /\ n + 1 \in 1..N /\ 1 \in 1..n
        BY <1>0, <2>2
      <4> QED
        BY <3>1, <4>1, Zenon
    <3>3. g[n] \o ss[n + 1] \in Seq(S)
      BY <1>0, <3>2
    <3> DEFINE h == [i \in 1..(n + 1) |-> IF i = n + 1 THEN g[n] \o ss[n + 1] ELSE g[i]]
    <3>4. h \in [1..(n + 1) -> Seq(S)] /\ h[1] = ss[1]
      BY <3>2, <3>3
    <3>5. ASSUME NEW i \in 2..(n + 1) PROVE h[i] = h[i - 1] \o ss[i]
      <4>1. /\ i - 1 \in 1..(n + 1) /\ i \in 1..(n + 1) /\ i - 1 # n + 1
            /\ h[i - 1] = g[i - 1]
        OBVIOUS
      <4>2. CASE i = n + 1
        <5>1. i - 1 = n /\ h[i] = g[n] \o ss[n + 1]
          BY <4>1, <4>2
        <5> QED
          BY <4>1, <4>2, <5>1
      <4>3. CASE i # n + 1
        <5>1. i \in 2..n /\ h[i] = g[i]
          BY <4>3
        <5> QED
          BY <3>2, <4>1, <5>1
      <4> QED
        BY <4>2, <4>3
    <3> HIDE DEF h
    <3>6. h \in Upto(n + 1)
      BY <3>4, <3>5
    <3> QED
      BY <3>6, Zenon
  <2> QED
    BY <2>1, <2>2
<1>3. PICK g \in Upto(N) : TRUE
  <2>1. N \in Reached
    <3> HIDE DEF Reached
    <3> QED
      BY <1>0, <1>1, <1>2, Induction
  <2>2. N \in 1..N
    BY <1>0
  <2> QED
    BY <2>1, <2>2, Zenon
<1>4. /\ g \in [1..N -> Seq(S)] /\ g[1] = ss[1]
      /\ \A i \in 2..N : g[i] = g[i - 1] \o ss[i]
  BY <1>3
<1> DEFINE Step(f) == [i \in 1..N |-> IF i = 1 THEN ss[i] ELSE f[i - 1] \o ss[i]]
           flatten == CHOOSE f : f = Step(f)
<1>5. g = Step(g)
  <2>1. ASSUME NEW n \in 1..N PROVE g[n] = Step(g)[n]
    <3>1. CASE n = 1
      BY <1>4, <3>1
    <3>2. CASE n # 1
      <4>1. n \in 2..N
        BY <1>0, <3>2
      <4> QED
        BY <1>4, <3>2, <4>1
    <3> QED
      BY <3>1, <3>2
  <2> QED
    BY <1>4, <2>1
<1>6. flatten = Step(flatten)
  BY <1>5
<1>7. FlattenSeq(ss) = flatten[N]
  BY <1>0 DEF FlattenSeq
<1> HIDE DEF flatten
<1>8. flatten[N] = g[N]
  <2> DEFINE Same == {n \in Nat : n \in 1..N => flatten[n] = g[n]}
  <2>1. 0 \in Same
    OBVIOUS
  <2>2. ASSUME NEW n \in Nat, n \in Same PROVE n + 1 \in Same
    <3> SUFFICES ASSUME n + 1 \in 1..N PROVE flatten[n + 1] = g[n + 1]
      OBVIOUS
    <3>1. CASE n = 0
      BY <1>0, <1>4, <1>6, <3>1
    <3>2. CASE n # 0
      <4>1. n + 1 \in 2..N /\ (n + 1) - 1 = n /\ n + 1 # 1 /\ n \in 1..N
        BY <1>0, <3>2
      <4>2. flatten[n + 1] = flatten[n] \o ss[n + 1]
        BY <1>6, <4>1
      <4>3. g[n + 1] = g[n] \o ss[n + 1]
        BY <1>4, <4>1
      <4> QED
        BY <2>2, <4>1, <4>2, <4>3
    <3> QED
      BY <3>1, <3>2
  <2>3. N \in Same
    <3> HIDE DEF Same
    <3> QED
      BY <1>0, <2>1, <2>2, Induction
  <2> QED
    BY <1>0, <2>3
<1> QED
  BY <1>4, <1>7, <1>8

\* To flatten one part more is to append it.
LEMMA FlattenAppend ==
    ASSUME NEW S, NEW ss \in Seq(Seq(S)), NEW t \in Seq(S)
    PROVE  /\ FlattenSeq(ss) \in Seq(S)
           /\ FlattenSeq(Append(ss, t)) = FlattenSeq(ss) \o t
<1> DEFINE N == Len(ss)
           more == Append(ss, t)
<1>0. /\ N \in Nat /\ more \in Seq(Seq(S)) /\ Len(more) = N + 1 /\ more[N + 1] = t
      /\ \A n \in 1..N : more[n] = ss[n]
  OBVIOUS
<1> SUFFICES /\ FlattenSeq(ss) \in Seq(S)
             /\ FlattenSeq(more) = FlattenSeq(ss) \o t
  OBVIOUS
<1> HIDE DEF more
<1>1. PICK h \in [1..(N + 1) -> Seq(S)] :
         /\ h[1] = more[1]
         /\ \A n \in 2..(N + 1) : h[n] = h[n - 1] \o more[n]
         /\ FlattenSeq(more) = h[N + 1]
  <2>1. \E h \in [1..Len(more) -> Seq(S)] :
           /\ h[1] = more[1]
           /\ \A n \in 2..Len(more) : h[n] = h[n - 1] \o more[n]
           /\ FlattenSeq(more) = h[Len(more)]
    <3>1. Len(more) # 0
      BY <1>0
    <3> QED
      BY <1>0, <3>1, FlattenUnfolds
  <2> QED
    BY <1>0, <2>1
<1>2. CASE N = 0
  <2>1. ss = <<>> /\ FlattenSeq(ss) = ss
    BY <1>2 DEF FlattenSeq
  <2>2. FlattenSeq(more) = t
    BY <1>0, <1>1, <1>2
  <2>3. <<>> \in Seq(S) /\ <<>> \o t = t
    OBVIOUS
  <2> QED
    BY <2>1, <2>2, <2>3
<1>3. CASE N # 0
  <2>1. PICK g \in [1..N -> Seq(S)] :
           /\ g[1] = ss[1]
           /\ \A n \in 2..N : g[n] = g[n - 1] \o ss[n]
           /\ FlattenSeq(ss) = g[N]
    BY <1>3, FlattenUnfolds
  <2> DEFINE Same == {n \in Nat : n \in 1..N => h[n] = g[n]}
  <2>2. 0 \in Same
    OBVIOUS
  <2>3. ASSUME NEW n \in Nat, n \in Same PROVE n + 1 \in Same
    <3> SUFFICES ASSUME n + 1 \in 1..N PROVE h[n + 1] = g[n + 1]
      OBVIOUS
    <3>1. CASE n = 0
      BY <1>0, <1>1, <1>3, <2>1, <3>1
    <3>2. CASE n # 0
      <4>1. /\ n + 1 \in 2..N /\ n + 1 \in 2..(N + 1) /\ (n + 1) - 1 = n /\ n \in 1..N
            /\ n + 1 \in 1..N
        BY <1>0, <3>2
      <4>2. h[n + 1] = h[n] \o ss[n + 1]
        BY <1>0, <1>1, <4>1
      <4>3. g[n + 1] = g[n] \o ss[n + 1]
        BY <2>1, <4>1
      <4> QED
        BY <2>3, <4>1, <4>2, <4>3
    <3> QED
      BY <3>1, <3>2
  <2>4. N \in Same
    <3> HIDE DEF Same
    <3> QED
      BY <1>0, <2>2, <2>3, Induction
  <2>5. h[N] = g[N] /\ g[N] \in Seq(S)
    BY <1>0, <1>3, <2>4
  <2>6. N + 1 \in 2..(N + 1) /\ (N + 1) - 1 = N
    BY <1>0, <1>3
  <2>7. h[N + 1] = h[N] \o t
    BY <1>0, <1>1, <2>6
  <2> QED
    BY <1>1, <2>1, <2>5, <2>7
<1> QED
  BY <1>2, <1>3
-----------------------------------------------------------------------------
(* The console. *)

LogTypes ==
    /\ held \in [Streams -> Emitters \cup {Nobody}]
    /\ emitting \in [Emitters -> {"none", "stdout", "stderr", "text", "newline"}]
    /\ record \in [Emitters -> LogRecords]
    /\ content \in [Streams -> Texts]
    /\ lines \in [Streams -> Seq(LogRecords)]
    /\ broken \subseteq Streams

\* Who holds which lock is where each emit has got to.
LocksInv ==
    \A e \in Emitters :
        /\ held["stdout"] = e <=> emitting[e] \in {"stderr", "text", "newline"}
        /\ held["stderr"] = e <=> emitting[e] \in {"text", "newline"}

Terminated(rs) == [i \in DOMAIN rs |-> Append(Line(rs[i]), "\n")]
Rendered(rs) == FlattenSeq(Terminated(rs))

\* There is an emit that has written the text of a line to stream s and not its end.
Unterminated(s) == \E e \in Emitters : emitting[e] = "newline" /\ Destination(record[e]) = s

\* A stream on which no write has failed holds the lines of its records.
StreamInv(s) ==
    s \notin broken =>
        Rendered(lines[s]) = IF Unterminated(s) THEN Append(content[s], "\n") ELSE content[s]

LogInv == LogTypes /\ LocksInv /\ \A s \in Streams : StreamInv(s)

\* A line is a text without line breaks, whatever the record holds.
LEMMA LineType ==
    ASSUME NEW r \in LogRecords
    PROVE  Line(r) \in Texts /\ \A k \in 1..Len(Line(r)) : Line(r)[k] \notin Breaks
<1>1. ASSUME NEW t \in Texts
      PROVE  Escaped(t) \in Texts /\ \A k \in 1..Len(Escaped(t)) : Escaped(t)[k] \notin Breaks
  <2>1. Escaped(t) \in [1..Len(t) -> Words] /\ Len(t) \in Nat
    BY WordsAssumption DEF Escaped, Texts
  <2>2. Escaped(t) \in Texts /\ Len(Escaped(t)) = Len(t)
    BY <2>1 DEF Texts
  <2>3. \A k \in 1..Len(t) : Escaped(t)[k] \notin Breaks
    BY DEF Escaped, Texts, Breaks
  <2> QED
    BY <2>2, <2>3
<1>2. r.level \in Words /\ r.level \notin Breaks
  BY WordsAssumption DEF LogRecords, Severity, Breaks
<1>3. r.target \in Texts /\ r.message \in Texts
  BY DEF LogRecords
<1> DEFINE p == Escaped(Prefix)
           l == <<r.level>>
           t == Escaped(r.target)
           m == Escaped(r.message)
<1>4. /\ p \in Texts /\ \A k \in 1..Len(p) : p[k] \notin Breaks
      /\ t \in Texts /\ \A k \in 1..Len(t) : t[k] \notin Breaks
      /\ m \in Texts /\ \A k \in 1..Len(m) : m[k] \notin Breaks
  BY <1>1, <1>3, PrefixAssumption
<1>5. l \in Texts /\ Len(l) = 1 /\ l[1] \notin Breaks
  BY <1>2 DEF Texts
<1>6. Line(r) = p \o l \o t \o m
  BY DEF Line
<1> HIDE DEF p, l, t, m
<1>7. ASSUME NEW x \in Texts, NEW y \in Texts,
             \A k \in 1..Len(x) : x[k] \notin Breaks, \A k \in 1..Len(y) : y[k] \notin Breaks
      PROVE  x \o y \in Texts /\ \A k \in 1..Len(x \o y) : (x \o y)[k] \notin Breaks
  BY <1>7 DEF Texts
<1>8. p \o l \in Texts /\ \A k \in 1..Len(p \o l) : (p \o l)[k] \notin Breaks
  BY <1>4, <1>5, <1>7
<1>9. p \o l \o t \in Texts /\ \A k \in 1..Len(p \o l \o t) : (p \o l \o t)[k] \notin Breaks
  BY <1>4, <1>7, <1>8
<1> QED
  BY <1>4, <1>6, <1>7, <1>9

\* One record more is one line more.
LEMMA RenderedAppend ==
    ASSUME NEW rs \in Seq(LogRecords), NEW r \in LogRecords
    PROVE  /\ Rendered(rs) \in Texts
           /\ Rendered(Append(rs, r)) = Rendered(rs) \o Append(Line(r), "\n")
<1> DEFINE more == Append(rs, r)
<1>0. /\ \A i \in 1..Len(rs) : Append(Line(rs[i]), "\n") \in Texts
      /\ Append(Line(r), "\n") \in Texts
  BY LineType, WordsAssumption DEF Texts, Breaks
<1>1. /\ more \in Seq(LogRecords) /\ Len(more) = Len(rs) + 1 /\ Len(rs) \in Nat
      /\ more[Len(rs) + 1] = r /\ \A i \in 1..Len(rs) : more[i] = rs[i]
      /\ DOMAIN more = 1..(Len(rs) + 1) /\ DOMAIN rs = 1..Len(rs)
  OBVIOUS
<1> HIDE DEF more
<1>2. Terminated(rs) \in Seq(Texts) /\ Len(Terminated(rs)) = Len(rs)
  <2>1. Terminated(rs) \in [1..Len(rs) -> Texts]
    BY <1>0, <1>1 DEF Terminated
  <2> QED
    BY <1>1, <2>1
<1>3. Terminated(more) = Append(Terminated(rs), Append(Line(r), "\n"))
  <2>1. \A i \in 1..(Len(rs) + 1) :
           Terminated(more)[i] = Append(Terminated(rs), Append(Line(r), "\n"))[i]
    BY <1>0, <1>1, <1>2 DEF Terminated
  <2>2. Terminated(more) \in [1..(Len(rs) + 1) -> Texts]
    <3>1. \A i \in 1..(Len(rs) + 1) : Append(Line(more[i]), "\n") \in Texts
      BY <1>0, <1>1
    <3> QED
      BY <1>1, <3>1 DEF Terminated
  <2>3. Append(Terminated(rs), Append(Line(r), "\n")) \in [1..(Len(rs) + 1) -> Texts]
    <3>1. Append(Terminated(rs), Append(Line(r), "\n")) \in Seq(Texts)
      BY <1>0, <1>2
    <3>2. Len(Append(Terminated(rs), Append(Line(r), "\n"))) = Len(rs) + 1
      BY <1>0, <1>2
    <3>3. Len(rs) + 1 \in Nat
      BY <1>1
    <3>4. ASSUME NEW q \in Seq(Texts), NEW n \in Nat, Len(q) = n PROVE q \in [1..n -> Texts]
      BY <3>4
    <3> QED
      BY <3>1, <3>2, <3>3, <3>4
  <2> QED
    BY <2>1, <2>2, <2>3
<1> QED
  BY <1>0, <1>2, <1>3, FlattenAppend DEF Rendered, Texts, more

LEMMA LogInitInv == Init => LogInv
<1> SUFFICES ASSUME Init PROVE LogInv
  OBVIOUS
<1>1. LogTypes
  <2>1. [level |-> "Info", target |-> <<>>, message |-> <<>>] \in LogRecords
    BY DEF LogRecords, Severity, Texts
  <2> QED
    BY <2>1 DEF Init, ConsoleInit, LogTypes, Texts
<1>2. LocksInv
  BY EmittersAssumption DEF Init, ConsoleInit, LocksInv, Streams
<1>3. ASSUME NEW s \in Streams PROVE StreamInv(s)
  <2>1. lines[s] = <<>> /\ content[s] = <<>> /\ ~Unterminated(s)
    BY DEF Init, ConsoleInit, Unterminated
  <2>2. Terminated(<<>>) = <<>>
    BY DEF Terminated
  <2>3. FlattenSeq(<<>>) = <<>>
    BY DEF FlattenSeq
  <2> QED
    BY <2>1, <2>2, <2>3 DEF StreamInv, Rendered
<1> QED
  BY <1>1, <1>2, <1>3 DEF LogInv

LEMMA LogStays == LogInv /\ UNCHANGED consoleVars => LogInv'
<1> SUFFICES ASSUME LogInv, UNCHANGED consoleVars PROVE LogInv'
  OBVIOUS
<1> USE DEF consoleVars
<1>1. LogTypes' /\ LocksInv'
  BY DEF LogInv, LogTypes, LocksInv
<1>2. \A s \in Streams : StreamInv(s)'
  BY DEF LogInv, StreamInv, Unterminated
<1> QED
  BY <1>1, <1>2 DEF LogInv

\* The types and the locks, over the steps of an emit.
LEMMA EmitLocks ==
    ASSUME LogInv, NEW e \in Emitters, NEW r \in LogRecords, Emit(e, r)
    PROVE  LogTypes' /\ LocksInv'
<1>1. LogTypes'
  BY DEF LogInv, LogTypes, Emit
<1>2. LocksInv'
  BY DEF LogInv, LogTypes, LocksInv, Emit
<1> QED
  BY <1>1, <1>2

LEMMA LocksLocks ==
    ASSUME LogInv, NEW e \in Emitters, LockStdout(e) \/ LockStderr(e)
    PROVE  LogTypes' /\ LocksInv'
<1>1. LogTypes'
  <2>1. CASE LockStdout(e)
    BY <2>1 DEF LogInv, LogTypes, LockStdout, Streams
  <2>2. CASE LockStderr(e)
    BY <2>2 DEF LogInv, LogTypes, LockStderr, Streams
  <2> QED
    BY <2>1, <2>2
<1>2. LocksInv'
  BY EmittersAssumption DEF LogInv, LogTypes, LocksInv, LockStdout, LockStderr, Streams
<1> QED
  BY <1>1, <1>2

LEMMA ReturnsLocks ==
    ASSUME LogInv, NEW e \in Emitters, NEW how, Returns(e, how)
    PROVE  LocksInv'
BY EmittersAssumption DEF LogInv, LogTypes, LocksInv, Returns, Streams

LEMMA DestinationType == \A r : Destination(r) \in Streams
BY DEF Destination, Streams

LEMMA WritesTypes ==
    ASSUME LogInv, NEW e \in Emitters, Write(e)
    PROVE  LogTypes'
<1> DEFINE s == Destination(record[e])
<1>1. s \in Streams /\ record[e] \in LogRecords /\ content[s] \in Texts
  BY DestinationType DEF LogInv, LogTypes
<1>2. Line(record[e]) \in Texts
  BY <1>1, LineType
<1> HIDE DEF s
<1>3. CASE Skip(e)
  BY <1>3 DEF Skip, Returns, LogInv, LogTypes
<1>4. CASE WriteText(e)
  <2>1. content[s] \o Line(record[e]) \in Texts
    BY <1>1, <1>2 DEF Texts
  <2> QED
    BY <1>1, <1>4, <2>1 DEF WriteText, LogInv, LogTypes, s
<1>5. CASE WriteNewline(e)
  <2>1. Append(content[s], "\n") \in Texts
    BY <1>1, WordsAssumption DEF Texts, Breaks
  <2> QED
    BY <1>1, <1>5, <2>1 DEF WriteNewline, Returns, LogInv, LogTypes, s
<1>6. CASE WriteFails(e)
  <2> DEFINE text == IF emitting[e] = "text" THEN Line(record[e]) ELSE <<>>
  <2>1. text \in Texts
    BY <1>2 DEF Texts
  <2>2. PICK k \in {0, Len(text) \div 2} :
           content' = [content EXCEPT ![s] = @ \o SubSeq(text, 1, k)]
    BY <1>6 DEF WriteFails, s
  <2> HIDE DEF text
  <2>3. SubSeq(text, 1, k) \in Texts
    BY <2>1, <2>2 DEF Texts
  <2>4. content[s] \o SubSeq(text, 1, k) \in Texts
    BY <1>1, <2>3 DEF Texts
  <2> QED
    BY <1>1, <1>6, <2>2, <2>4 DEF WriteFails, Returns, LogInv, LogTypes, s
<1> QED
  BY <1>3, <1>4, <1>5, <1>6 DEF Write

LEMMA WritesLocks ==
    ASSUME LogInv, NEW e \in Emitters, Write(e)
    PROVE  LocksInv'
<1>1. CASE WriteText(e)
  BY <1>1 DEF LogInv, LogTypes, LocksInv, WriteText, Writes
<1> QED
  BY <1>1, ReturnsLocks DEF Write, Skip, WriteNewline, WriteFails

\* While one emit writes, no other does.
LEMMA WritesAlone ==
    ASSUME LogInv, NEW e \in Emitters, emitting[e] \in {"text", "newline"},
           NEW d \in Emitters, d # e
    PROVE  emitting[d] \notin {"text", "newline"}
BY DEF LogInv, LocksInv

\* Only what an emit writes, and on which stream, matters to what a stream holds.
LEMMA StreamStays ==
    ASSUME NEW s, StreamInv(s), s \in broken => s \in broken',
           content'[s] = content[s], lines'[s] = lines[s], Unterminated(s)' <=> Unterminated(s)
    PROVE  StreamInv(s)'
BY DEF StreamInv

LEMMA WritesStream ==
    ASSUME LogInv, NEW e \in Emitters, Write(e), NEW x \in Streams
    PROVE  StreamInv(x)'
<1> DEFINE s == Destination(record[e])
           r == record[e]
<1>0. /\ emitting[e] \in {"text", "newline"} /\ record' = record
      /\ StreamInv(x) /\ s \in Streams /\ r \in LogRecords
      /\ content[x] \in Texts /\ lines[x] \in Seq(LogRecords)
  BY DestinationType
  DEF Write, Skip, WriteText, WriteNewline, WriteFails, Writes, Returns, LogInv, LogTypes
<1>1. \A d \in Emitters : d # e => emitting[d] # "newline" /\ emitting'[d] = emitting[d]
  BY <1>0, WritesAlone
  DEF Write, Skip, WriteText, WriteNewline, WriteFails, Returns, LogInv, LogTypes
<1>2. emitting'[e] = IF WriteText(e) THEN "newline" ELSE "none"
  BY DEF Write, Skip, WriteText, WriteNewline, WriteFails, Writes, Returns, LogInv, LogTypes
<1>3. Unterminated(x) <=> emitting[e] = "newline" /\ x = s
  BY <1>0, <1>1 DEF Unterminated
<1>4. Unterminated(x)' <=> WriteText(e) /\ x = s
  BY <1>0, <1>1, <1>2 DEF Unterminated
<1> HIDE DEF s, r
<1>5. CASE Skip(e)
  <2>1. /\ emitting[e] = "text" /\ ~WriteText(e)
        /\ UNCHANGED <<content, lines, broken>>
    BY <1>2, <1>5 DEF Skip, WriteText, Writes, Returns, LogInv, LogTypes, LogRecords, Severity,
                      r
  <2> QED
    BY <1>0, <1>3, <1>4, <2>1, StreamStays
<1>6. CASE WriteText(e)
  <2>1. /\ emitting[e] = "text" /\ UNCHANGED broken
        /\ content' = [content EXCEPT ![s] = @ \o Line(r)]
        /\ lines' = [lines EXCEPT ![s] = Append(@, r)]
    BY <1>6 DEF WriteText, Writes, s, r
  <2>2. CASE x = s
    <3>1. /\ content'[x] = content[x] \o Line(r) /\ lines'[x] = Append(lines[x], r)
      BY <1>0, <2>1, <2>2 DEF LogInv, LogTypes
    <3>2. x \notin broken => Rendered(lines[x]) = content[x]
      BY <1>0, <1>3, <2>1 DEF StreamInv
    <3>3. /\ Rendered(lines'[x]) = Rendered(lines[x]) \o Append(Line(r), "\n")
          /\ Rendered(lines[x]) \in Texts /\ Line(r) \in Texts
      BY <1>0, <3>1, RenderedAppend, LineType
    <3>4. content[x] \o Append(Line(r), "\n") = Append(content[x] \o Line(r), "\n")
      <4>1. ASSUME NEW a \in Seq(Words), NEW b \in Seq(Words), NEW w \in Words
            PROVE  a \o Append(b, w) = Append(a \o b, w)
        <5>1. /\ a \o Append(b, w) \in Seq(Words) /\ Append(a \o b, w) \in Seq(Words)
              /\ Len(a \o Append(b, w)) = Len(Append(a \o b, w))
          OBVIOUS
        <5>2. \A i \in 1..Len(a \o Append(b, w)) :
                 (a \o Append(b, w))[i] = Append(a \o b, w)[i]
          OBVIOUS
        <5> QED
          BY <5>1, <5>2
      <4>2. "\n" \in Words
        BY WordsAssumption DEF Breaks
      <4> QED
        BY <1>0, <3>3, <4>1, <4>2 DEF Texts
    <3> QED
      BY <1>4, <1>6, <2>1, <2>2, <3>1, <3>2, <3>3, <3>4 DEF StreamInv
  <2>3. CASE x # s
    <3>1. content'[x] = content[x] /\ lines'[x] = lines[x]
      BY <1>0, <2>1, <2>3 DEF LogInv, LogTypes
    <3> QED
      BY <1>0, <1>3, <1>4, <2>1, <2>3, <3>1, StreamStays
  <2> QED
    BY <2>2, <2>3
<1>7. CASE WriteNewline(e)
  <2>1. /\ emitting[e] = "newline" /\ UNCHANGED <<broken, lines>> /\ ~WriteText(e)
        /\ content' = [content EXCEPT ![s] = Append(@, "\n")]
    BY <1>7 DEF WriteNewline, WriteText, Writes, s
  <2>2. content'[x] = IF x = s THEN Append(content[x], "\n") ELSE content[x]
    BY <1>0, <2>1 DEF LogInv, LogTypes
  <2> QED
    BY <1>0, <1>3, <1>4, <2>1, <2>2 DEF StreamInv
<1>8. CASE WriteFails(e)
  <2>1. /\ broken' = broken \cup {s} /\ UNCHANGED lines
        /\ \E t : content' = [content EXCEPT ![s] = t]
    BY <1>8 DEF WriteFails, s
  <2>2. x # s => content'[x] = content[x]
    BY <1>0, <2>1 DEF LogInv, LogTypes
  <2>3. x = s => x \in broken'
    BY <2>1
  <2>4. x # s => StreamInv(x)'
    BY <1>0, <1>3, <1>4, <2>1, <2>2, StreamStays
  <2> QED
    BY <2>3, <2>4 DEF StreamInv
<1> QED
  BY <1>5, <1>6, <1>7, <1>8 DEF Write

LEMMA WriteLogInv == ASSUME LogInv, NEW e \in Emitters, Write(e) PROVE LogInv'
BY WritesTypes, WritesLocks, WritesStream DEF LogInv

LEMMA EmitLogInv ==
    ASSUME LogInv, NEW e \in Emitters, NEW r \in LogRecords, Emit(e, r)
    PROVE  LogInv'
<1>1. ASSUME NEW s \in Streams PROVE StreamInv(s)'
  <2>1. \A d \in Emitters : emitting'[d] = "newline" <=> emitting[d] = "newline"
    BY DEF Emit, LogInv, LogTypes
  <2>2. \A d \in Emitters : emitting[d] = "newline" => record'[d] = record[d]
    BY DEF Emit, LogInv, LogTypes
  <2>3. Unterminated(s)' <=> Unterminated(s)
    BY <2>1, <2>2 DEF Unterminated
  <2> QED
    BY <2>3, StreamStays DEF Emit, LogInv
<1> QED
  BY <1>1, EmitLocks DEF LogInv

LEMMA LocksLogInv == ASSUME LogInv, NEW e \in Emitters, Locks(e) PROVE LogInv'
<1>1. LockStdout(e) \/ LockStderr(e)
  BY DEF Locks
<1>2. ASSUME NEW s \in Streams PROVE StreamInv(s)'
  <2>1. /\ \A d \in Emitters : emitting'[d] = "newline" <=> emitting[d] = "newline"
        /\ UNCHANGED <<record, content, lines, broken>>
    BY <1>1 DEF LockStdout, LockStderr, LogInv, LogTypes
  <2>2. Unterminated(s)' <=> Unterminated(s)
    BY <2>1 DEF Unterminated
  <2> QED
    BY <2>1, <2>2, StreamStays DEF LogInv
<1> QED
  BY <1>1, <1>2, LocksLocks DEF LogInv

LEMMA LogNextInv == LogInv /\ [Next]_vars => LogInv'
<1> SUFFICES ASSUME LogInv, [Next]_vars PROVE LogInv'
  OBVIOUS
<1>1. CASE UNCHANGED consoleVars
  BY <1>1, LogStays
<1>2. CASE MonitorEmits
  <2>1. PICK r \in Records : Emit(Monitor, r)
    BY <1>2 DEF MonitorEmits
  <2> QED
    BY <2>1, EmitLogInv, RecordsAssumption, ThreadsAssumption
<1>3. ASSUME NEW c \in Callers, Selected(c) PROVE LogInv'
  <2>1. UNCHANGED consoleVars \/ Emit(c, Logged)
    BY <1>3 DEF Selected
  <2>2. Logged \in LogRecords
    BY LoggedAssumption
  <2> QED
    BY <1>1, <2>1, <2>2, EmitLogInv, ThreadsAssumption
<1>4. ASSUME NEW e \in Emitters, Locks(e) \/ WriteStep(e) PROVE LogInv'
  BY <1>4, LocksLogInv, WriteLogInv DEF WriteStep
<1>5. ASSUME NEW e \in Emitters, GoesOn(e) PROVE LogInv'
  <2>1. CASE e \in Callers /\ DatabaseStep(e)
    BY <1>1, <2>1 DEF DatabaseStep
  <2>2. CASE e \in Callers /\ Proceeds(e)
    BY <1>1, <1>3, <2>2
    DEF Proceeds, DatabaseRefuses, Created, Upserted, LogReturns, Asks
  <2> QED
    BY <1>4, <1>5, <2>1, <2>2 DEF GoesOn
<1>6. CASE UNCHANGED vars
  BY <1>1, <1>6 DEF vars
<1>7. CASE \E g \in Generations : OwnerStep(g)
  BY <1>1, <1>7 DEF OwnerStep
<1>8. CASE \E c \in Callers : WriteReadLog(c)
  BY <1>1, <1>8 DEF WriteReadLog, Asks
<1> QED
  BY <1>2, <1>5, <1>6, <1>7, <1>8 DEF Next
-----------------------------------------------------------------------------
\* Console output is one record per line: a stream on which no write has failed holds
\* the records in the order in which they were emitted, each on a line of its own,
\* whoever emits beside whom and whatever line breaks the records carry.
THEOREM RecordsHaveLines == Spec => []OneRecordPerLine
<1>1. Spec => []LogInv
  BY LogInitInv, LogNextInv, PTL DEF Spec
<1>2. LogInv => OneRecordPerLine
  <2> SUFFICES ASSUME LogInv, NEW s \in Streams \ broken
               PROVE  LET text == [i \in DOMAIN lines[s] |-> Line(lines[s][i])]
                      IN  /\ \A i \in DOMAIN text :
                                \A k \in DOMAIN text[i] : text[i][k] \notin Breaks
                          /\ FlattenSeq([i \in DOMAIN text |-> Append(text[i], "\n")])
                               \in {content[s], Append(content[s], "\n")}
    BY DEF OneRecordPerLine
  <2> DEFINE text == [i \in DOMAIN lines[s] |-> Line(lines[s][i])]
  <2>1. \A i \in DOMAIN lines[s] : lines[s][i] \in LogRecords
    BY DEF LogInv, LogTypes
  <2>2. ASSUME NEW i \in DOMAIN lines[s]
        PROVE  \A k \in DOMAIN Line(lines[s][i]) : Line(lines[s][i])[k] \notin Breaks
    BY <2>1, LineType DEF Texts
  <2>3. [i \in DOMAIN text |-> Append(text[i], "\n")] = Terminated(lines[s])
    BY DEF Terminated
  <2>4. Rendered(lines[s]) \in {content[s], Append(content[s], "\n")}
    BY DEF LogInv, StreamInv
  <2> QED
    BY <2>2, <2>3, <2>4 DEF Rendered
<1> QED
  BY <1>1, <1>2, PTL
-----------------------------------------------------------------------------
\* An emit waits only for the lock of stdout, and then for an emit that does not wait:
\* who has that lock finds the lock of stderr free.
OneWait ==
    \A e \in Emitters :
        /\ emitting[e] = "stderr" => held["stderr"] = Nobody
        /\ emitting[e] = "stdout" =>
              held["stdout"] = Nobody
                \/ emitting[held["stdout"]] \in {"stderr", "text", "newline"}

\* No emits wait for each other, and no lock stays behind when an emit has returned,
\* with an error or without: the locks are taken in one order and released together.
THEOREM EmitsDoNotBlock == Spec => []OneWait
<1>1. Spec => []LogInv
  BY LogInitInv, LogNextInv, PTL DEF Spec
<1>2. LogInv => OneWait
  <2> SUFFICES ASSUME LogTypes, LocksInv, NEW e \in Emitters
               PROVE  /\ emitting[e] = "stderr" => held["stderr"] = Nobody
                      /\ emitting[e] = "stdout" =>
                            held["stdout"] = Nobody
                              \/ emitting[held["stdout"]] \in {"stderr", "text", "newline"}
    BY DEF LogInv, OneWait
  <2>1. \A s \in Streams : held[s] = Nobody \/ held[s] \in Emitters
    BY DEF LogTypes
\* Who had the lock of stderr would have the lock of stdout too, which e has.
  <2>2. ASSUME emitting[e] = "stderr", held["stderr"] \in Emitters PROVE FALSE
    <3>1. held["stdout"] = held["stderr"] /\ held["stdout"] = e
      BY <2>2 DEF LocksInv
    <3> QED
      BY <2>2, <3>1 DEF LocksInv
  <2> QED
    BY <2>1, <2>2 DEF LocksInv, Streams
<1> QED
  BY <1>1, <1>2, PTL
=============================================================================
