---------------------------- MODULE TcpConnection ----------------------------
(***************************************************************************)
(* A TcpConnection of the loopback realization                             *)
(* (packages/networking/tcp/src/connection.rs): connect() makes it, clones *)
(* of it are used by several threads at once, and the generation it        *)
(* belongs to can be stopped under any of them.                            *)
(*                                                                         *)
(* The clones share one mutex around the stream, for both directions.  An  *)
(* operation looks at generation_live first, then waits for the mutex, and *)
(* keeps it while it blocks.  Bytes that come in are counted; a byte that  *)
(* goes out is the call it belongs to.                                     *)
(***************************************************************************)
EXTENDS Naturals, Sequences, FiniteSets

CONSTANTS
    Users,     \* the threads that hold a clone
    Nobody,    \* the holder of a free mutex
    Writes,    \* the lengths passed to write_all
    Reads,     \* the arguments of read_some
    MaxCalls,  \* bound: the calls of one user
    MaxSent,   \* bound: the bytes the peer sends
    Window     \* bound: bytes the kernel takes before the peer reads them

ASSUME UsersAssumption == IsFiniteSet(Users) /\ Nobody \notin Users
ASSUME SizesAssumption == Writes \subseteq Nat /\ Reads \subseteq Nat
ASSUME BoundsAssumption == MaxCalls \in Nat /\ MaxSent \in Nat /\ Window \in Nat \ {0}

VARIABLES
    live,      \* generation_live
    dial,      \* connect(): "none", "dialing", "connected", "failed"
    lock,      \* the holder of the mutex around the stream
    pc,        \* where each user is: "idle", "lock", "stream"
    op,        \* the operation of each user, in progress or last
    progress,  \* bytes written or read by the operation so far
    calls,     \* the calls each user has made
    result,    \* what the last call of each user returned
    wire,      \* the stream out: a sequence of <<user, call>>
    drained,   \* the peer: bytes of `wire` it has read
    sent,      \* the peer: bytes it has sent
    taken,     \* bytes read from the stream
    peer,      \* the peer's side: "open", "closed", "reset"
    shut,      \* the directions shut down here: a subset of {"read", "write"}
    returned,  \* history: bytes handed to callers by reads that returned Ok
    dropped,   \* history: bytes thrown away by a read_to_end that failed
    late       \* history: operations of each user that began on a stopped stream

userVars   == <<pc, op, progress, calls, result>>
streamVars == <<wire, drained, sent, taken, peer, shut>>
history    == <<returned, dropped, late>>
vars == <<live, dial, lock, pc, op, progress, calls, result, wire, drained, sent,
          taken, peer, shut, returned, dropped, late>>

Operations ==
    [kind : {"write_all"}, size : Writes] \cup [kind : {"read_some"}, size : Reads]
      \cup [kind : {"read_to_end", "shutdown_write", "shutdown_both"}, size : {0}]

Results == {"none", "Ok", "Stopped", "WriteFailed", "ReadFailed", "ShutdownFailed"}

Init ==
    /\ live = TRUE
    /\ dial = "none"
    /\ lock = Nobody
    /\ pc = [u \in Users |-> "idle"]
    /\ op = [u \in Users |-> [kind |-> "shutdown_both", size |-> 0]]
    /\ progress = [u \in Users |-> 0]
    /\ calls = [u \in Users |-> 0]
    /\ result = [u \in Users |-> "none"]
    /\ wire = <<>>
    /\ drained = 0
    /\ sent = 0
    /\ taken = 0
    /\ peer = "open"
    /\ shut = {}
    /\ returned = 0
    /\ dropped = 0
    /\ late = [u \in Users |-> 0]
-----------------------------------------------------------------------------
(* The environment: stop, and the peer. *)

Stop ==
    /\ live
    /\ live' = FALSE
    /\ UNCHANGED <<dial, lock, userVars, streamVars, history>>

\* Data that reaches a socket whose read side is shut down resets it.
PeerSends ==
    /\ dial = "connected" /\ peer = "open" /\ sent < MaxSent
    /\ IF "read" \in shut
       THEN peer' = "reset" /\ UNCHANGED sent
       ELSE sent' = sent + 1 /\ UNCHANGED peer
    /\ UNCHANGED <<live, dial, lock, userVars, wire, drained, taken, shut, history>>

PeerReads ==
    /\ peer # "reset"
    /\ drained < Len(wire)
    /\ drained' = drained + 1
    /\ UNCHANGED <<live, dial, lock, userVars, wire, sent, taken, peer, shut, history>>

PeerCloses ==
    /\ dial = "connected" /\ peer = "open"
    /\ peer' = "closed"
    /\ UNCHANGED <<live, dial, lock, userVars, wire, drained, sent, taken, shut, history>>

PeerResets ==
    /\ dial = "connected" /\ peer # "reset"
    /\ peer' = "reset"
    /\ UNCHANGED <<live, dial, lock, userVars, wire, drained, sent, taken, shut, history>>
-----------------------------------------------------------------------------
(* connect(): the flag, then the dial. *)

ConnectBegins ==
    /\ dial = "none"
    /\ dial' = IF live THEN "dialing" ELSE "failed"
    /\ UNCHANGED <<live, lock, userVars, streamVars, history>>

\* The generation may have stopped since: the connection is then born stale.
ConnectReturns ==
    /\ dial = "dialing"
    /\ dial' \in {"connected", "failed"}
    /\ UNCHANGED <<live, lock, userVars, streamVars, history>>
-----------------------------------------------------------------------------
(* The operations. *)

\* Mutant of Admitted: ensure_live is forgotten.
AdmittedAlways == TRUE

\* ensure_live
Admitted == live

\* A call, with ensure_live and the early return of read_some(0).
Call(u) ==
    /\ dial = "connected"
    /\ pc[u] = "idle"
    /\ calls[u] < MaxCalls
    /\ calls' = [calls EXCEPT ![u] = @ + 1]
    /\ progress' = [progress EXCEPT ![u] = 0]
    /\ \E o \in Operations :
          /\ op' = [op EXCEPT ![u] = o]
          /\ \/ /\ ~Admitted
                /\ result' = [result EXCEPT ![u] = "Stopped"]
                /\ UNCHANGED pc
             \/ /\ Admitted /\ o.kind = "read_some" /\ o.size = 0
                /\ result' = [result EXCEPT ![u] = "Ok"]
                /\ UNCHANGED pc
             \/ /\ Admitted /\ ~(o.kind = "read_some" /\ o.size = 0)
                /\ pc' = [pc EXCEPT ![u] = "lock"]
                /\ result' = [result EXCEPT ![u] = "none"]
    /\ UNCHANGED <<live, dial, lock, streamVars, history>>

\* Mutant of Lock: every operation has the stream to itself whenever it likes.
LockNothing(u) ==
    /\ pc[u] = "lock"
    /\ pc' = [pc EXCEPT ![u] = "stream"]
    /\ late' = [late EXCEPT ![u] = IF live THEN @ ELSE @ + 1]
    /\ UNCHANGED <<live, dial, lock, op, progress, calls, result, streamVars,
                   returned, dropped>>

\* The mutex, at whatever time it comes: the flag is not looked at again.
Lock(u) ==
    /\ pc[u] = "lock"
    /\ lock = Nobody
    /\ lock' = u
    /\ pc' = [pc EXCEPT ![u] = "stream"]
    /\ late' = [late EXCEPT ![u] = IF live THEN @ ELSE @ + 1]
    /\ UNCHANGED <<live, dial, op, progress, calls, result, streamVars,
                   returned, dropped>>

On(u, kind) == pc[u] = "stream" /\ op[u].kind = kind

Return(u, r) ==
    /\ pc' = [pc EXCEPT ![u] = "idle"]
    /\ result' = [result EXCEPT ![u] = r]
    /\ lock' = Nobody

\* write_all: write(2) takes what the window has room for, as often as needed.
WriteByte(u) ==
    /\ On(u, "write_all")
    /\ progress[u] < op[u].size
    /\ peer # "reset" /\ "write" \notin shut
    /\ Len(wire) - drained < Window
    /\ wire' = Append(wire, <<u, calls[u]>>)
    /\ progress' = [progress EXCEPT ![u] = @ + 1]
    /\ UNCHANGED <<live, dial, lock, pc, op, calls, result, drained, sent, taken,
                   peer, shut, history>>

WriteReturns(u) ==
    /\ On(u, "write_all")
    /\ \/ progress[u] = op[u].size /\ Return(u, "Ok")
       \/ /\ progress[u] < op[u].size
          /\ peer = "reset" \/ "write" \in shut
          /\ Return(u, "WriteFailed")
    /\ UNCHANGED <<live, dial, op, progress, calls, streamVars, history>>

Unread == sent - taken
Ended  == Unread = 0 /\ (peer = "closed" \/ "read" \in shut)

\* One read(2), for both kinds of read: some bytes that have come in.
ReadBytes(u) ==
    \E k \in 1..Unread :
        /\ taken' = taken + k
        /\ progress' = [progress EXCEPT ![u] = @ + k]
        /\ \/ /\ On(u, "read_some") /\ k <= op[u].size
              /\ Return(u, "Ok")
              /\ returned' = returned + k
           \/ /\ On(u, "read_to_end")
              /\ UNCHANGED <<lock, pc, result, returned>>
        /\ UNCHANGED <<live, dial, op, calls, wire, drained, sent, peer, shut,
                       dropped, late>>

\* Mutant of ReadEnds: what read_to_end gathered is not what it returns.
ReadEndsEmpty(u) ==
    /\ On(u, "read_some") \/ On(u, "read_to_end")
    /\ Ended
    /\ Return(u, "Ok")
    /\ UNCHANGED <<live, dial, op, progress, calls, streamVars, history>>

\* The stream has ended: read_some returns nothing, read_to_end all it gathered.
ReadEnds(u) ==
    /\ On(u, "read_some") \/ On(u, "read_to_end")
    /\ Ended
    /\ Return(u, "Ok")
    /\ returned' = returned + progress[u]
    /\ UNCHANGED <<live, dial, op, progress, calls, streamVars, dropped, late>>

\* Mutant of ReadFails: the guard is leaked with the error.
ReadFailsLocked(u) ==
    /\ On(u, "read_some") \/ On(u, "read_to_end")
    /\ peer = "reset"
    /\ pc' = [pc EXCEPT ![u] = "idle"]
    /\ result' = [result EXCEPT ![u] = "ReadFailed"]
    /\ dropped' = dropped + progress[u]
    /\ UNCHANGED <<live, dial, lock, op, progress, calls, streamVars, returned, late>>

\* The read fails; what read_to_end had gathered goes with the error.
ReadFails(u) ==
    /\ On(u, "read_some") \/ On(u, "read_to_end")
    /\ peer = "reset"
    /\ Return(u, "ReadFailed")
    /\ dropped' = dropped + progress[u]
    /\ UNCHANGED <<live, dial, op, progress, calls, streamVars, returned, late>>

Shutdown(u) ==
    /\ On(u, "shutdown_write") \/ On(u, "shutdown_both")
    /\ \/ /\ peer # "reset"
          /\ shut' = shut \cup (IF op[u].kind = "shutdown_both"
                                THEN {"read", "write"} ELSE {"write"})
          /\ Return(u, "Ok")
       \/ /\ peer = "reset" \/ (peer = "closed" /\ "write" \in shut)
          /\ Return(u, "ShutdownFailed")
          /\ UNCHANGED shut
    /\ UNCHANGED <<live, dial, op, progress, calls, wire, drained, sent, taken, peer,
                   history>>

Operate(u) ==
    \/ WriteByte(u) \/ WriteReturns(u) \/ Shutdown(u)
    \/ ReadBytes(u) \/ ReadEnds(u) \/ ReadFails(u)

Next ==
    \/ Stop \/ PeerSends \/ PeerReads \/ PeerCloses \/ PeerResets
    \/ ConnectBegins \/ ConnectReturns
    \/ \E u \in Users : Call(u) \/ Lock(u) \/ Operate(u)

Spec == Init /\ [][Next]_vars

(***************************************************************************)
(* An operation that can go on does, and the mutex is not withheld from a  *)
(* user for ever.  Nothing is asked of the peer, of stop or of callers.    *)
(***************************************************************************)
FairSpec == Spec /\ \A u \in Users : WF_vars(Operate(u)) /\ SF_vars(Lock(u))
-----------------------------------------------------------------------------
(* Properties. *)

\* Every variable has its type; nobody reads what was not sent, or writes more
\* than the buffer it was given.
TypeOK ==
    /\ live \in BOOLEAN
    /\ dial \in {"none", "dialing", "connected", "failed"}
    /\ lock \in Users \cup {Nobody}
    /\ pc \in [Users -> {"idle", "lock", "stream"}]
    /\ op \in [Users -> Operations]
    /\ progress \in [Users -> Nat]
    /\ \A u \in Users : op[u].kind = "write_all" => progress[u] <= op[u].size
    /\ calls \in [Users -> 0..MaxCalls]
    /\ result \in [Users -> Results]
    /\ wire \in Seq(Users \X (1..MaxCalls))
    /\ drained \in 0..Len(wire)
    /\ sent \in 0..MaxSent
    /\ taken \in 0..sent
    /\ peer \in {"open", "closed", "reset"}
    /\ shut \in SUBSET {"read", "write"}
    /\ returned \in Nat /\ dropped \in Nat
    /\ late \in [Users -> Nat]

\* "write_all(bytes) writes the whole buffer": the bytes of one call are next to
\* each other on the wire, whatever other clones write, and all there once the
\* call has returned Ok.
WritesWhole ==
    /\ \A i, k \in 1..Len(wire) :
          wire[i] = wire[k] => \A j \in i..k : wire[j] = wire[i]
    /\ \A u \in Users :
          (op[u].kind = "write_all" /\ result[u] = "Ok") =>
              Cardinality({i \in 1..Len(wire) : wire[i] = <<u, calls[u]>>}) = op[u].size

\* Every byte taken from the stream was returned by a read, is in the hands of
\* the read_to_end that has the mutex, or went with a read_to_end that failed.
BytesAccounted ==
    taken = returned + dropped
              + (IF lock # Nobody /\ op[lock].kind = "read_to_end" THEN progress[lock]
                 ELSE 0)

\* "After the owning generation stops, stale connection operations fail": what was
\* admitted before may still reach the stream, but that is one operation of each
\* clone's user, however long they had to wait for the mutex.
OneLateOperation == \A u \in Users : late[u] <= 1

\* A peer that resets the connection ends every operation in progress, those that
\* wait for the mutex behind a blocked read or write included.
ResetEndsOperations ==
    \A u \in Users : (peer = "reset" /\ pc[u] # "idle") ~> (pc[u] = "idle")
=============================================================================
