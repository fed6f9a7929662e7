------------------------- MODULE TcpConnectionProofs -------------------------
(***************************************************************************)
(* Proofs about TcpConnection, for any finite set of users, any lengths of *)
(* reads and writes, any number of calls and any window.                   *)
(***************************************************************************)
EXTENDS TcpConnection, FiniteSetTheorems, TLAPS

\* The user whose operation is on the stream is the holder of the mutex.
LockInv ==
    /\ \A u \in Users : pc[u] = "stream" <=> lock = u
    /\ \A u \in Users : pc[u] # "idle" => result[u] = "none"

\* Only a read_to_end or a write_all that is on the stream has got anywhere.
ProgressInv ==
    \A u \in Users :
        /\ pc[u] = "lock" => progress[u] = 0
        /\ pc[u] = "stream" /\ op[u].kind = "read_some" => progress[u] = 0

\* A late operation is the last that its user was admitted to.
LateInv ==
    \A u \in Users : late[u] = 0 \/ (late[u] = 1 /\ ~live /\ pc[u] # "lock")

\* A call that is under way has a number.
CalledInv == \A u \in Users : pc[u] # "idle" => calls[u] > 0

\* Where on the wire the bytes of the last call of user u are.
Written(u) == {i \in 1..Len(wire) : wire[i] = <<u, calls[u]>>}

\* The wire has the bytes of the last call that this call has written; those of a
\* write that is on the stream come last.
WireInv ==
    /\ \A i \in 1..Len(wire) : wire[i][2] <= calls[wire[i][1]]
    /\ \A i, k \in 1..Len(wire) :
          wire[i] = wire[k] => \A j \in i..k : wire[j] = wire[i]
    /\ \A u \in Users :
          /\ Cardinality(Written(u)) =
                IF op[u].kind = "write_all" THEN progress[u] ELSE 0
          /\ pc[u] = "stream" /\ Written(u) # {} => Len(wire) \in Written(u)
          /\ op[u].kind = "write_all" /\ result[u] = "Ok" => progress[u] = op[u].size

IInv ==
    /\ TypeOK
    /\ LockInv
    /\ ProgressInv
    /\ LateInv
    /\ CalledInv
    /\ BytesAccounted
    /\ WireInv
-----------------------------------------------------------------------------
\* What the type of an operation says of its parts.
LEMMA OperationType ==
    ASSUME NEW o \in Operations
    PROVE  /\ o.kind \in {"write_all", "read_some", "read_to_end", "shutdown_write",
                          "shutdown_both"}
           /\ o.size \in Nat
           /\ o.kind \notin {"write_all", "read_some"} => o.size = 0
<1>1. CASE o \in [kind : {"write_all"}, size : Writes]
  BY <1>1, SizesAssumption
<1>2. CASE o \in [kind : {"read_some"}, size : Reads]
  BY <1>2, SizesAssumption
<1>3. CASE o \in [kind : {"read_to_end", "shutdown_write", "shutdown_both"}, size : {0}]
  BY <1>3
<1> QED
  BY <1>1, <1>2, <1>3 DEF Operations

\* A call that is about to begin has written nothing: its number is new.
LEMMA NothingWritten ==
    ASSUME NEW w, NEW n \in Nat, NEW u,
           w \in Seq(Users \X (1..MaxCalls)),
           \A i \in 1..Len(w) : w[i][1] = u => w[i][2] <= n
    PROVE  Cardinality({i \in 1..Len(w) : w[i] = <<u, n + 1>>}) = 0
<1>1. \A i \in 1..Len(w) : w[i] \in Users \X (1..MaxCalls)
  OBVIOUS
<1>2. \A i \in 1..Len(w) : w[i] # <<u, n + 1>>
  BY <1>1
<1>3. {i \in 1..Len(w) : w[i] = <<u, n + 1>>} = {}
  BY <1>2
<1> QED
  BY <1>3, FS_EmptySet

\* The initial state satisfies the invariant.
LEMMA InitInv == Init => IInv
<1> SUFFICES ASSUME Init PROVE IInv
  OBVIOUS
<1> USE DEF Init
<1>1. [kind |-> "shutdown_both", size |-> 0] \in Operations
  BY DEF Operations
<1>2. TypeOK
  BY <1>1, BoundsAssumption DEF TypeOK, Results
<1>3. LockInv /\ ProgressInv /\ LateInv /\ CalledInv
  BY UsersAssumption DEF LockInv, ProgressInv, LateInv, CalledInv
<1>4. BytesAccounted
  BY DEF BytesAccounted
<1>5. \A u \in Users : Written(u) = {}
  BY DEF Written
<1>6. WireInv
  <2>1. \A u \in Users : Cardinality(Written(u)) = 0
    BY <1>5, FS_EmptySet
  <2>2. \A u \in Users : op[u].kind # "write_all" /\ pc[u] = "idle"
    OBVIOUS
  <2>3. 1..Len(wire) = {}
    OBVIOUS
  <2> QED
    BY <2>1, <2>2, <2>3 DEF WireInv
<1> QED
  BY <1>2, <1>3, <1>4, <1>6 DEF IInv
-----------------------------------------------------------------------------
\* Steps that touch neither a user nor the wire preserve what is said of both.
LEMMA WireUnchanged ==
    ASSUME WireInv, UNCHANGED <<pc, op, progress, calls, result, wire>>
    PROVE  WireInv'
<1>1. \A u \in Users : Written(u)' = Written(u)
  BY DEF Written
<1> QED
  BY <1>1 DEF WireInv

\* The environment: stop, the peer and connect() preserve the invariant.
LEMMA EnvironmentInv ==
    ASSUME IInv,
           Stop \/ PeerSends \/ PeerReads \/ PeerCloses \/ PeerResets
             \/ ConnectBegins \/ ConnectReturns
    PROVE  IInv'
<1> USE DEF IInv, userVars, streamVars, history
<1>1. UNCHANGED <<lock, pc, op, progress, calls, result, wire, taken, returned, dropped,
                  late>>
  BY DEF Stop, PeerSends, PeerReads, PeerCloses, PeerResets, ConnectBegins,
         ConnectReturns
<1>2. TypeOK'
  <2>1. live' \in BOOLEAN /\ dial' \in {"none", "dialing", "connected", "failed"}
    BY DEF TypeOK, Stop, PeerSends, PeerReads, PeerCloses, PeerResets, ConnectBegins,
           ConnectReturns
  <2>2. drained' \in 0..Len(wire')
    <3>1. CASE PeerReads
      BY <1>1, <3>1 DEF TypeOK, PeerReads
    <3>2. CASE ~PeerReads
      BY <1>1, <3>2 DEF TypeOK, Stop, PeerSends, PeerCloses, PeerResets,
                        ConnectBegins, ConnectReturns
    <3> QED
      BY <3>1, <3>2
  <2>3. sent' \in 0..MaxSent /\ taken' \in 0..sent'
    <3>1. sent' = sent \/ (sent < MaxSent /\ sent' = sent + 1)
      BY DEF Stop, PeerSends, PeerReads, PeerCloses, PeerResets, ConnectBegins,
             ConnectReturns
    <3> QED
      BY <1>1, <3>1, BoundsAssumption DEF TypeOK
  <2>4. peer' \in {"open", "closed", "reset"} /\ shut' = shut
    BY DEF TypeOK, Stop, PeerSends, PeerReads, PeerCloses, PeerResets, ConnectBegins,
           ConnectReturns
  <2> QED
    BY <1>1, <2>1, <2>2, <2>3, <2>4 DEF TypeOK
<1>3. LateInv'
  <2>1. ~live => ~live'
    BY DEF Stop, PeerSends, PeerReads, PeerCloses, PeerResets, ConnectBegins,
           ConnectReturns
  <2> QED
    BY <1>1, <2>1 DEF LateInv
<1>4. LockInv' /\ ProgressInv' /\ CalledInv' /\ BytesAccounted'
  BY <1>1 DEF LockInv, ProgressInv, CalledInv, BytesAccounted
<1>5. WireInv'
  BY <1>1, WireUnchanged
<1> QED
  BY <1>2, <1>3, <1>4, <1>5

\* A call begins: it takes a new number, and is refused on a stopped stream.
LEMMA CallInv == ASSUME IInv, NEW u \in Users, Call(u) PROVE IInv'
<1> USE DEF IInv
<1>1. PICK o \in Operations :
          /\ op' = [op EXCEPT ![u] = o]
          /\ \/ ~live /\ result' = [result EXCEPT ![u] = "Stopped"] /\ UNCHANGED pc
             \/ /\ o.kind = "read_some"
                /\ result' = [result EXCEPT ![u] = "Ok"] /\ UNCHANGED pc
             \/ /\ live /\ pc' = [pc EXCEPT ![u] = "lock"]
                /\ result' = [result EXCEPT ![u] = "none"]
  BY DEF Call, Admitted
<1>2. /\ pc[u] = "idle" /\ calls[u] < MaxCalls
      /\ calls' = [calls EXCEPT ![u] = @ + 1]
      /\ progress' = [progress EXCEPT ![u] = 0]
      /\ UNCHANGED <<live, dial, lock, streamVars, history>>
  BY DEF Call
<1>3. o.size \in Nat
  BY OperationType
<1>4. TypeOK'
  <2>1. /\ pc' \in [Users -> {"idle", "lock", "stream"}]
        /\ op' \in [Users -> Operations]
        /\ progress' \in [Users -> Nat]
        /\ result' \in [Users -> Results]
    BY <1>1, <1>2 DEF TypeOK, Results
  <2>2. calls' \in [Users -> 0..MaxCalls]
    BY <1>2, BoundsAssumption DEF TypeOK
  <2>3. \A v \in Users : op'[v].kind = "write_all" => progress'[v] <= op'[v].size
    BY <1>1, <1>2, <1>3 DEF TypeOK
  <2> QED
    BY <1>2, <2>1, <2>2, <2>3 DEF TypeOK, streamVars, history
<1>5. lock # u
  BY <1>2 DEF LockInv, TypeOK
<1>6. LockInv'
  BY <1>1, <1>2, <1>5 DEF LockInv, TypeOK
<1>7. ProgressInv'
  BY <1>1, <1>2 DEF ProgressInv, TypeOK
<1>8. LateInv' /\ CalledInv'
  BY <1>1, <1>2 DEF LateInv, CalledInv, TypeOK, history
<1>9. BytesAccounted'
  BY <1>1, <1>2, <1>5 DEF BytesAccounted, TypeOK, streamVars, history
<1>10. WireInv'
  <2>1. wire' = wire /\ wire \in Seq(Users \X (1..MaxCalls))
    BY <1>2 DEF streamVars, TypeOK
  <2>2. \A i \in 1..Len(wire) : wire[i] \in Users \X (1..MaxCalls)
    BY <2>1
  <2>3. ASSUME NEW i \in 1..Len(wire)
        PROVE  wire[i][2] <= calls'[wire[i][1]]
    <3>1. wire[i][1] \in Users /\ wire[i][2] \in Nat /\ wire[i][2] <= calls[wire[i][1]]
      BY <2>2 DEF WireInv
    <3>2. ASSUME NEW v \in Users
          PROVE  calls[v] \in Nat /\ calls'[v] \in Nat /\ calls[v] <= calls'[v]
      <4>1. calls[v] \in Nat /\ calls'[v] = IF v = u THEN calls[v] + 1 ELSE calls[v]
        BY <1>2 DEF TypeOK
      <4> QED
        BY <4>1
    <3> QED
      BY <3>1, <3>2
  <2>4. Cardinality(Written(u)') = 0
    <3>1. calls[u] \in Nat /\ calls'[u] = calls[u] + 1
      BY <1>2 DEF TypeOK
    <3>2. \A i \in 1..Len(wire) : wire[i][1] = u => wire[i][2] <= calls[u]
      BY DEF WireInv
    <3>3. Cardinality({i \in 1..Len(wire) : wire[i] = <<u, calls[u] + 1>>}) = 0
      BY <2>1, <3>1, <3>2, NothingWritten
    <3> QED
      BY <2>1, <3>1, <3>3 DEF Written
  <2>5. \A v \in Users \ {u} : Written(v)' = Written(v)
    BY <1>2, <2>1 DEF Written, TypeOK
  <2>6. pc'[u] # "stream" /\ progress'[u] = 0
    BY <1>1, <1>2 DEF TypeOK
  <2>7. op'[u].kind = "write_all" => result'[u] # "Ok"
    BY <1>1 DEF TypeOK
  <2>8. \A v \in Users \ {u} : /\ pc'[v] = pc[v] /\ op'[v] = op[v]
                                /\ progress'[v] = progress[v] /\ result'[v] = result[v]
    BY <1>1, <1>2 DEF TypeOK
  <2>9. ASSUME NEW v \in Users
        PROVE  /\ Cardinality(Written(v)') =
                     IF op'[v].kind = "write_all" THEN progress'[v] ELSE 0
               /\ pc'[v] = "stream" /\ Written(v)' # {} => Len(wire') \in Written(v)'
               /\ op'[v].kind = "write_all" /\ result'[v] = "Ok" =>
                     progress'[v] = op'[v].size
    <3>1. CASE v = u
      BY <2>4, <2>6, <2>7, <3>1
    <3>2. CASE v # u
      BY <2>1, <2>5, <2>8, <3>2 DEF WireInv
    <3> QED
      BY <3>1, <3>2
  <2> QED
    BY <2>1, <2>3, <2>9 DEF WireInv
<1> QED
  BY <1>4, <1>6, <1>7, <1>8, <1>9, <1>10

\* The mutex is taken, and the operation is late when the stream has been stopped.
LEMMA LockTakenInv == ASSUME IInv, NEW u \in Users, Lock(u) PROVE IInv'
<1> USE DEF IInv, Lock
<1>1. progress[u] = 0 /\ late[u] = 0
  BY DEF ProgressInv, LateInv
<1>2. TypeOK'
  <2>1. late' \in [Users -> Nat]
    BY DEF TypeOK
  <2> QED
    BY <2>1 DEF TypeOK, streamVars
<1>3. LockInv'
  BY UsersAssumption DEF LockInv, TypeOK
<1>4. ProgressInv'
  BY <1>1 DEF ProgressInv, TypeOK
<1>5. LateInv' /\ CalledInv'
  BY <1>1 DEF LateInv, CalledInv, TypeOK
<1>6. BytesAccounted'
  <2>1. taken = returned + dropped /\ returned \in Nat /\ dropped \in Nat
    BY DEF BytesAccounted, TypeOK
  <2> QED
    BY <1>1, <2>1 DEF BytesAccounted, streamVars
<1>7. WireInv'
  <2>1. UNCHANGED <<op, progress, calls, result, wire>> /\ \A v \in Users : Written(v)' = Written(v)
    BY DEF streamVars, Written
  <2>2. \A v \in Users \ {u} : pc'[v] = pc[v]
    BY DEF TypeOK
  <2>3. Cardinality(Written(u)) = 0
    BY <1>1 DEF WireInv
  <2>4. Written(u) = {}
    <3>1. IsFiniteSet(1..Len(wire))
      BY FS_Interval DEF TypeOK
    <3>2. IsFiniteSet(Written(u))
      BY <3>1, FS_Subset DEF Written
    <3> QED
      BY <2>3, <3>2, FS_EmptySet
  <2> QED
    BY <2>1, <2>2, <2>4 DEF WireInv
<1> QED
  BY <1>2, <1>3, <1>4, <1>5, <1>6, <1>7

\* What every step on the stream has in common: it is a step of the holder of the mutex,
\* who is not late any more than it was, and it touches nobody else.
LEMMA HolderOnly ==
    ASSUME IInv, NEW u \in Users, pc[u] = "stream"
    PROVE  lock = u /\ \A v \in Users \ {u} : pc[v] # "stream"
BY DEF IInv, LockInv

\* An operation that returns without another byte written keeps what is said of the wire.
LEMMA ReturnKeepsWire ==
    ASSUME IInv, NEW u \in Users, NEW r \in Results, Return(u, r),
           UNCHANGED <<op, calls, wire>>,
           op[u].kind = "write_all" => progress' = progress,
           \A v \in Users \ {u} : progress'[v] = progress[v],
           op[u].kind = "write_all" /\ r = "Ok" => progress[u] = op[u].size
    PROVE  WireInv'
<1>1. \A v \in Users : Written(v)' = Written(v)
  BY DEF Written
<1>2. /\ pc' = [pc EXCEPT ![u] = "idle"] /\ result' = [result EXCEPT ![u] = r]
      /\ pc'[u] = "idle" /\ result'[u] = r
      /\ \A v \in Users \ {u} : pc'[v] = pc[v] /\ result'[v] = result[v]
  BY DEF Return, IInv, TypeOK
<1>3. ASSUME NEW v \in Users
      PROVE  /\ Cardinality(Written(v)') =
                   IF op'[v].kind = "write_all" THEN progress'[v] ELSE 0
             /\ pc'[v] = "stream" /\ Written(v)' # {} => Len(wire') \in Written(v)'
             /\ op'[v].kind = "write_all" /\ result'[v] = "Ok" =>
                   progress'[v] = op'[v].size
  <2>1. CASE v = u
    BY <1>1, <1>2, <2>1 DEF IInv, WireInv
  <2>2. CASE v # u
    BY <1>1, <1>2, <2>2 DEF IInv, WireInv
  <2> QED
    BY <2>1, <2>2
<1>4. /\ \A i \in 1..Len(wire') : wire'[i][2] <= calls'[wire'[i][1]]
      /\ \A i, k \in 1..Len(wire') :
            wire'[i] = wire'[k] => \A j \in i..k : wire'[j] = wire'[i]
  BY DEF IInv, WireInv
<1> QED
  BY <1>3, <1>4 DEF WireInv

\* An operation that returns gives up the mutex, and is idle from then on.
LEMMA ReturnKeepsOrder ==
    ASSUME IInv, NEW u \in Users, NEW r \in Results, pc[u] = "stream", Return(u, r),
           UNCHANGED <<live, op, calls, late>>,
           \A v \in Users \ {u} : progress'[v] = progress[v]
    PROVE  /\ lock' \in Users \cup {Nobody}
           /\ pc' \in [Users -> {"idle", "lock", "stream"}]
           /\ result' \in [Users -> Results]
           /\ LockInv' /\ ProgressInv' /\ LateInv' /\ CalledInv'
<1>1. lock = u /\ \A v \in Users \ {u} : pc[v] # "stream"
  BY HolderOnly
<1>2. /\ lock' = Nobody /\ pc' = [pc EXCEPT ![u] = "idle"]
      /\ result' = [result EXCEPT ![u] = r]
      /\ pc \in [Users -> {"idle", "lock", "stream"}] /\ result \in [Users -> Results]
  BY DEF Return, IInv, TypeOK
<1>3. LockInv'
  BY <1>1, <1>2, UsersAssumption DEF IInv, LockInv
<1>4. ProgressInv'
  BY <1>2 DEF IInv, ProgressInv
<1>5. LateInv' /\ CalledInv'
  BY <1>2 DEF IInv, LateInv, CalledInv
<1> QED
  BY <1>2, <1>3, <1>4, <1>5

\* A byte is written: it is the next of its call, and the last on the wire.
LEMMA WriteByteInv == ASSUME IInv, NEW u \in Users, WriteByte(u) PROVE IInv'
<1> USE DEF IInv
<1>1. /\ pc[u] = "stream" /\ op[u].kind = "write_all" /\ progress[u] < op[u].size
      /\ wire' = Append(wire, <<u, calls[u]>>)
      /\ progress' = [progress EXCEPT ![u] = @ + 1]
      /\ UNCHANGED <<live, dial, lock, pc, op, calls, result, drained, sent, taken, peer,
                     shut, returned, dropped, late>>
  BY DEF WriteByte, On, history
<1>2. /\ op[u].size \in Nat /\ progress[u] \in Nat
      /\ calls[u] \in 0..MaxCalls /\ wire \in Seq(Users \X (1..MaxCalls))
  BY OperationType DEF TypeOK
<1>3. lock = u /\ \A v \in Users \ {u} : pc[v] # "stream"
  BY <1>1, HolderOnly
<1>4. CalledInv
  OBVIOUS
<1>5. calls[u] \in 1..MaxCalls
  BY <1>1, <1>2, <1>4 DEF CalledInv
<1>6. Len(wire') = Len(wire) + 1 /\ wire'[Len(wire) + 1] = <<u, calls[u]>>
      /\ \A i \in 1..Len(wire) : wire'[i] = wire[i]
  BY <1>1, <1>2
<1>7. TypeOK'
  <2>1. wire' \in Seq(Users \X (1..MaxCalls))
    BY <1>1, <1>2, <1>5
  <2>2. drained \in 0..Len(wire')
    BY <1>2, <1>6 DEF TypeOK
  <2>3. progress' \in [Users -> Nat]
    BY <1>1, <1>2 DEF TypeOK
  <2>4. \A v \in Users : op[v].kind = "write_all" => progress'[v] <= op[v].size
    BY <1>1, <1>2 DEF TypeOK
  <2> QED
    BY <1>1, <2>1, <2>2, <2>3, <2>4 DEF TypeOK
<1>8. LockInv' /\ LateInv' /\ CalledInv'
  BY <1>1, <1>4 DEF LockInv, LateInv, CalledInv
<1>9. ProgressInv'
  BY <1>1 DEF ProgressInv, TypeOK
<1>10. BytesAccounted'
  BY <1>1, <1>3, UsersAssumption DEF BytesAccounted
<1>11. WireInv'
  <2>1. Written(u)' = Written(u) \cup {Len(wire) + 1}
    BY <1>1, <1>2, <1>6 DEF Written
  <2>2. Len(wire) + 1 \notin Written(u)
    BY <1>2 DEF Written
  <2>3. Cardinality(Written(u)') = progress'[u]
    <3>1. IsFiniteSet(1..Len(wire))
      BY <1>2, FS_Interval
    <3>2. IsFiniteSet(Written(u))
      BY <3>1, FS_Subset DEF Written
    <3>3. Cardinality(Written(u)) = progress[u]
      BY <1>1 DEF WireInv
    <3>4. Cardinality(Written(u) \cup {Len(wire) + 1}) = progress[u] + 1
      BY <2>2, <3>2, <3>3, FS_AddElement
    <3>5. progress'[u] = progress[u] + 1
      BY <1>1 DEF TypeOK
    <3> QED
      BY <2>1, <3>4, <3>5
  <2>4. \A v \in Users \ {u} : Written(v)' = Written(v)
    BY <1>1, <1>2, <1>6 DEF Written
  <2>5. Len(wire') \in Written(u)'
    BY <1>2, <1>6, <2>1
  <2>6. ASSUME NEW v \in Users
        PROVE  /\ Cardinality(Written(v)') =
                     IF op'[v].kind = "write_all" THEN progress'[v] ELSE 0
               /\ pc'[v] = "stream" /\ Written(v)' # {} => Len(wire') \in Written(v)'
               /\ op'[v].kind = "write_all" /\ result'[v] = "Ok" =>
                     progress'[v] = op'[v].size
    <3>1. CASE v = u
      BY <1>1, <2>3, <2>5, <3>1 DEF LockInv
    <3>2. CASE v # u
      BY <1>1, <1>3, <2>4, <3>2 DEF WireInv, TypeOK
    <3> QED
      BY <3>1, <3>2
  <2>7. \A i \in 1..Len(wire') : wire'[i][2] <= calls'[wire'[i][1]]
    BY <1>1, <1>2, <1>6 DEF WireInv
  <2>8. ASSUME NEW i \in 1..Len(wire'), NEW k \in 1..Len(wire'), wire'[i] = wire'[k],
               NEW j \in i..k
        PROVE  wire'[j] = wire'[i]
    <3>1. CASE k \in 1..Len(wire)
      <4>1. CASE i \in 1..Len(wire)
        <5>1. wire[i] = wire[k] /\ j \in 1..Len(wire)
          BY <1>2, <1>6, <2>8, <3>1, <4>1
        <5> QED
          BY <1>6, <3>1, <4>1, <5>1, <2>8 DEF WireInv
      <4>2. CASE i = Len(wire) + 1
        BY <1>2, <3>1, <4>2
      <4> QED
        BY <1>2, <1>6, <4>1, <4>2
    <3>2. CASE k = Len(wire) + 1 /\ i \in 1..Len(wire)
      <4>1. i \in Written(u) /\ wire[i] = <<u, calls[u]>>
        BY <1>6, <2>8, <3>2 DEF Written
      <4>2. Len(wire) \in Written(u)
        BY <1>1, <4>1 DEF WireInv
      <4>3. wire[i] = wire[Len(wire)] /\ Len(wire) \in 1..Len(wire)
        BY <4>1, <4>2 DEF Written
      <4>4. j \in 1..Len(wire) => wire[j] = wire[i]
        <5>1. j \in 1..Len(wire) => j \in i..Len(wire)
          BY <1>2, <3>2
        <5>2. \A m \in i..Len(wire) : wire[m] = wire[i]
          BY <3>2, <4>3 DEF WireInv
        <5> QED
          BY <5>1, <5>2
      <4>5. CASE j = Len(wire) + 1
        <5>1. wire'[j] = <<u, calls[u]>> /\ wire'[i] = wire[i]
          BY <1>6, <3>2, <4>5
        <5> QED
          BY <4>1, <5>1
      <4>6. CASE j \in 1..Len(wire)
        BY <1>6, <3>2, <4>4, <4>6
      <4> QED
        BY <1>2, <3>2, <4>5, <4>6
    <3>3. CASE k = Len(wire) + 1 /\ i = Len(wire) + 1
      BY <1>2, <3>3
    <3> QED
      BY <1>2, <1>6, <3>1, <3>2, <3>3
  <2> QED
    BY <2>6, <2>7, <2>8 DEF WireInv
<1> QED
  BY <1>7, <1>8, <1>9, <1>10, <1>11

\* A write or a shutdown that returns has taken no byte from the stream.
LEMMA NoReadReturnsInv ==
    ASSUME IInv, NEW u \in Users, WriteReturns(u) \/ Shutdown(u) PROVE IInv'
<1>1. PICK r \in Results :
          /\ Return(u, r) /\ pc[u] = "stream" /\ op[u].kind # "read_to_end"
          /\ op[u].kind = "write_all" /\ r = "Ok" => progress[u] = op[u].size
  BY DEF WriteReturns, Shutdown, On, Results
<1>2. UNCHANGED <<live, dial, op, progress, calls, wire, drained, sent, taken, peer,
                  returned, dropped, late>>
  BY DEF WriteReturns, Shutdown, streamVars, history
<1>3. shut' \in SUBSET {"read", "write"}
  BY DEF WriteReturns, Shutdown, streamVars, IInv, TypeOK
<1>4. WireInv' /\ LockInv' /\ ProgressInv' /\ LateInv' /\ CalledInv'
  <2>1. WireInv'
    BY <1>1, <1>2, ReturnKeepsWire
  <2> QED
    BY <1>1, <1>2, <2>1, ReturnKeepsOrder
<1>5. TypeOK'
  BY <1>1, <1>2, <1>3, ReturnKeepsOrder DEF IInv, TypeOK
<1>6. BytesAccounted'
  <2>1. lock = u /\ lock' = Nobody
    BY <1>1, HolderOnly DEF Return
  <2> QED
    BY <1>1, <1>2, <2>1, UsersAssumption DEF IInv, BytesAccounted
<1> QED
  BY <1>4, <1>5, <1>6 DEF IInv

\* Bytes are read: they are in the caller's hands or in those of read_to_end.
LEMMA ReadBytesInv == ASSUME IInv, NEW u \in Users, ReadBytes(u) PROVE IInv'
<1>1. PICK k \in 1..Unread :
          /\ taken' = taken + k
          /\ progress' = [progress EXCEPT ![u] = @ + k]
          /\ \/ /\ On(u, "read_some") /\ k <= op[u].size
                /\ Return(u, "Ok")
                /\ returned' = returned + k
             \/ /\ On(u, "read_to_end")
                /\ UNCHANGED <<lock, pc, result, returned>>
          /\ UNCHANGED <<live, dial, op, calls, wire, drained, sent, peer, shut,
                         dropped, late>>
  BY DEF ReadBytes
<1>2. /\ pc[u] = "stream" /\ lock = u /\ \A v \in Users \ {u} : pc[v] # "stream"
      /\ op[u].kind \in {"read_some", "read_to_end"}
  BY <1>1, HolderOnly DEF On
<1>3. /\ k \in Nat /\ taken + k \in 0..sent /\ taken \in Nat /\ returned \in Nat
      /\ dropped \in Nat /\ progress[u] \in Nat /\ sent \in Nat
  BY BoundsAssumption DEF IInv, TypeOK, Unread
<1>4. /\ progress' \in [Users -> Nat] /\ progress'[u] = progress[u] + k
      /\ \A v \in Users \ {u} : progress'[v] = progress[v]
  BY <1>1, <1>3 DEF IInv, TypeOK
<1>5. \A v \in Users : op[v].kind = "write_all" => progress'[v] <= op[v].size
  BY <1>2, <1>4 DEF IInv, TypeOK
<1>6. CASE op[u].kind = "read_some"
  <2>1. Return(u, "Ok") /\ returned' = returned + k /\ "Ok" \in Results
    BY <1>1, <1>6 DEF On, Results
  <2>2. WireInv' /\ LockInv' /\ ProgressInv' /\ LateInv' /\ CalledInv'
    <3>1. op[u].kind # "write_all" /\ UNCHANGED <<live, op, calls, late, wire>>
      BY <1>1, <1>6
    <3>2. WireInv'
      BY <1>4, <2>1, <3>1, ReturnKeepsWire
    <3> QED
      BY <1>2, <1>4, <2>1, <3>1, <3>2, ReturnKeepsOrder
  <2>3. TypeOK'
    <3>1. UNCHANGED <<live, dial, op, calls, wire, drained, sent, peer, shut, dropped, late>>
          /\ taken' = taken + k
      BY <1>1
    <3>2. /\ lock' \in Users \cup {Nobody}
          /\ pc' \in [Users -> {"idle", "lock", "stream"}]
          /\ result' \in [Users -> Results]
      BY <1>2, <1>4, <2>1, <3>1, ReturnKeepsOrder
    <3>3. taken' \in 0..sent' /\ returned' \in Nat
      BY <1>3, <2>1, <3>1
    <3>4. \A v \in Users : op'[v].kind = "write_all" => progress'[v] <= op'[v].size
      BY <1>5, <3>1
    <3> QED
      BY <1>4, <3>1, <3>2, <3>3, <3>4 DEF IInv, TypeOK
  <2>4. BytesAccounted'
    <3>1. lock' = Nobody /\ taken = returned + dropped
      BY <1>2, <1>3, <1>6, <2>1 DEF Return, IInv, BytesAccounted
    <3> QED
      BY <1>1, <1>3, <2>1, <3>1 DEF BytesAccounted
  <2> QED
    BY <2>2, <2>3, <2>4 DEF IInv
<1>7. CASE op[u].kind = "read_to_end"
  <2>1. UNCHANGED <<lock, pc, result, returned, op, calls, wire, live, late>>
    BY <1>1, <1>7 DEF On
  <2>2. TypeOK'
    BY <1>1, <1>3, <1>4, <1>5, <2>1 DEF IInv, TypeOK
  <2>3. LockInv' /\ LateInv' /\ CalledInv'
    BY <2>1 DEF IInv, LockInv, LateInv, CalledInv
  <2>4. ProgressInv'
    BY <1>2, <1>4, <1>7, <2>1 DEF IInv, ProgressInv
  <2>5. BytesAccounted'
    <3>1. lock' = u /\ taken = returned + dropped + progress[u] /\ u # Nobody
      BY <1>2, <1>7, <2>1, UsersAssumption DEF IInv, BytesAccounted
    <3> QED
      BY <1>1, <1>3, <1>4, <1>7, <2>1, <3>1 DEF BytesAccounted
  <2>6. WireInv'
    <3>1. \A v \in Users : Written(v)' = Written(v)
      BY <2>1 DEF Written
    <3> QED
      BY <1>4, <1>7, <2>1, <3>1 DEF IInv, WireInv
  <2> QED
    BY <2>2, <2>3, <2>4, <2>5, <2>6 DEF IInv
<1> QED
  BY <1>2, <1>6, <1>7

\* A read that ends or fails: what it had gathered is returned or dropped.
LEMMA ReadOverInv ==
    ASSUME IInv, NEW u \in Users, ReadEnds(u) \/ ReadFails(u) PROVE IInv'
<1>1. PICK r \in {"Ok", "ReadFailed"} : Return(u, r)
  BY DEF ReadEnds, ReadFails
<1>2. /\ pc[u] = "stream" /\ lock = u
      /\ op[u].kind \in {"read_some", "read_to_end"}
      /\ r \in Results
  BY HolderOnly DEF ReadEnds, ReadFails, On, Results
<1>3. /\ UNCHANGED <<live, dial, op, progress, calls, wire, drained, sent, taken, peer,
                     shut, late>>
      /\ \/ returned' = returned + progress[u] /\ UNCHANGED dropped
         \/ dropped' = dropped + progress[u] /\ UNCHANGED returned
  BY DEF ReadEnds, ReadFails, streamVars
<1>4. WireInv' /\ LockInv' /\ ProgressInv' /\ LateInv' /\ CalledInv'
  <2>1. op[u].kind # "write_all"
    BY <1>2
  <2>2. WireInv'
    BY <1>1, <1>2, <1>3, <2>1, ReturnKeepsWire
  <2> QED
    BY <1>1, <1>2, <1>3, <2>2, ReturnKeepsOrder
<1>5. returned \in Nat /\ dropped \in Nat /\ progress[u] \in Nat
  BY DEF IInv, TypeOK
<1>6. TypeOK'
  <2>1. /\ lock' \in Users \cup {Nobody}
        /\ pc' \in [Users -> {"idle", "lock", "stream"}]
        /\ result' \in [Users -> Results]
    BY <1>1, <1>2, <1>3, ReturnKeepsOrder
  <2>2. returned' \in Nat /\ dropped' \in Nat
    BY <1>3, <1>5 DEF IInv, TypeOK
  <2> QED
    BY <1>3, <2>1, <2>2 DEF IInv, TypeOK
<1>7. BytesAccounted'
  <2>1. taken = returned + dropped + progress[u]
    <3>1. CASE op[u].kind = "read_to_end"
      BY <1>2, <3>1, UsersAssumption DEF IInv, BytesAccounted
    <3>2. CASE op[u].kind = "read_some"
      BY <1>2, <1>5, <3>2 DEF IInv, BytesAccounted, ProgressInv
    <3> QED
      BY <1>2, <3>1, <3>2
  <2>2. lock' = Nobody
    BY <1>1 DEF Return
  <2> QED
    BY <1>3, <1>5, <2>1, <2>2 DEF BytesAccounted
<1> QED
  BY <1>4, <1>6, <1>7 DEF IInv
-----------------------------------------------------------------------------
\* Every step preserves the invariant.
LEMMA NextInv == IInv /\ [Next]_vars => IInv'
<1> SUFFICES ASSUME IInv, [Next]_vars PROVE IInv'
  OBVIOUS
<1>1. CASE \/ Stop \/ PeerSends \/ PeerReads \/ PeerCloses \/ PeerResets
           \/ ConnectBegins \/ ConnectReturns
  BY <1>1, EnvironmentInv
<1>2. ASSUME NEW u \in Users, Call(u) \/ Lock(u) \/ Operate(u) PROVE IInv'
  BY <1>2, CallInv, LockTakenInv, WriteByteInv, NoReadReturnsInv, ReadBytesInv, ReadOverInv
  DEF Operate
<1>3. CASE UNCHANGED vars
  BY <1>3, WireUnchanged DEF vars, IInv, TypeOK, LockInv, ProgressInv, LateInv, CalledInv,
     BytesAccounted
<1> QED
  BY <1>1, <1>2, <1>3 DEF Next

\* The invariant holds in every reachable state.
THEOREM Invariance == Spec => []IInv
<1> QED
  BY InitInv, NextInv, PTL DEF Spec

\* Every variable keeps its type, and no read or write goes beyond its buffer.
THEOREM TypeCorrect == Spec => []TypeOK
<1> QED
  BY Invariance, PTL DEF IInv

\* No write of another clone gets between the bytes of a write, and a write that has
\* returned Ok is on the wire as a whole.
THEOREM WritesAreWhole == Spec => []WritesWhole
<1>1. IInv => WritesWhole
  BY DEF IInv, WireInv, WritesWhole, Written
<1> QED
  BY <1>1, Invariance, PTL

\* No byte that was read gets lost without an error.
THEOREM BytesAreAccounted == Spec => []BytesAccounted
<1> QED
  BY Invariance, PTL DEF IInv

\* After a stop one operation of each user reaches the stream at most.
THEOREM OneIsLate == Spec => []OneLateOperation
<1>1. IInv => OneLateOperation
  BY DEF IInv, LateInv, OneLateOperation
<1> QED
  BY <1>1, Invariance, PTL
=============================================================================
