------------------------- MODULE TcpLoopbackProofs -------------------------
(***************************************************************************)
(* Proofs that every safety invariant of TcpLoopback holds for all values  *)
(* of its constants: any number of accept() callers and of connections,    *)
(* any backlog, whether or not the wake-up connection can fail.            *)
(*                                                                         *)
(* None of the properties is inductive alone. IInv adds where the listener *)
(* thread must be for each step of start and stop (PhaseInv), the order of *)
(* the connections not yet delivered (OrderInv), that the connection stop  *)
(* makes is younger than all that was queued (WakeInv), and why no second  *)
(* connection slips past the flag (LateInv).                               *)
(***************************************************************************)
EXTENDS TcpLoopback, FiniteSetTheorems, TLAPS

Beginning == {"created", "failed"}
Stopping == {"requested", "unlived", "woken", "notified", "joined", "cleared",
             "stopped"}
Woken == {"woken", "notified", "joined", "cleared", "stopped"}
Joined == {"joined", "cleared", "stopped"}

\* The listener thread and the flags for every step of start and stop.
PhaseInv ==
    /\ (owner \in Beginning) <=> (listener = "none")
    /\ stop_requested <=> (owner \in Stopping)
    /\ owner \in {"created", "failed", "unlived"} \cup Woken => ~generation_live
    /\ listener \in {"leaving", "unlived", "notified", "ended"} => stop_requested
    /\ owner \in Joined => listener = "ended"
    /\ owner \in {"cleared", "stopped"} => queue = <<>>
    /\ owner = "stopped" => ~actual_address
    /\ ~ListenerOpen => backlog = <<>>
    /\ (stream # 0) <=> (listener \in {"taken", "checked", "counted"})
    /\ owner \notin Woken => wakeup = 0 /\ arrivals <= MaxArrivals
    /\ owner \in Beginning =>
          queue = <<>> /\ delivered = <<>> /\ accepted_connections = 0

\* A call holds the mutex only between its last look at the queue and wait().
LockInv ==
    \A a \in Acceptors :
        acceptor[a] = "parking" => queue_lock = a /\ queue = <<>>

\* delivered, queue, the listener's stream and the backlog, in this order, are
\* one increasing sequence of arrivals.
Below(s, n) == \A i \in 1..Len(s) : s[i] < n
Above(s, n) == \A i \in 1..Len(s) : n < s[i]
OrderInv ==
    /\ DeliveryInArrivalOrder
    /\ Increasing(backlog)
    /\ Before(delivered, backlog) /\ Before(queue, backlog)
    /\ stream # 0 =>
          /\ Below(delivered, stream) /\ Below(queue, stream)
          /\ Above(backlog, stream)
          /\ stream <= arrivals
    /\ Below(delivered, arrivals + 1) /\ Below(queue, arrivals + 1)
    /\ Below(backlog, arrivals + 1)

WakeInv == WakeupNeverDelivered /\ (wakeup = Failed \/ wakeup <= arrivals)

\* The listener passes its check only while stop_requested is unset, and then
\* late is 0.
LateInv ==
    /\ late <= 1
    /\ ~stop_requested => late = 0
    /\ late # 0 => listener \notin {"checked", "counted"}

IInv == /\ TypeOK /\ PhaseInv /\ LockInv /\ OrderInv /\ AcceptedCountExact
        /\ WakeInv /\ LateInv /\ NoStrandedConnection

-----------------------------------------------------------------------------
\* Types are kept; the arrivals stay below the bound because stop connects once.
LEMMA TypeStep ==
  TypeOK /\ PhaseInv /\ [Next]_vars => TypeOK'
<1> SUFFICES ASSUME TypeOK /\ PhaseInv, [Next]_vars PROVE TypeOK'
  OBVIOUS
<1> USE AcceptorsAssumption, BoundsAssumption DEF TypeOK, PhaseInv, Establish, NotifyAll, Sleepers, OwnerStates, ListenerStates,
        AcceptorStates, Outcomes, Woken,
        vars, ownerVars, flagVars, listenerVars, kernelVars, acceptVars
<1>1. CASE PeerConnect
  BY <1>1 DEF PeerConnect, Connections
<1>2. CASE Start
  <2>1. queue' \in Seq(Connections)
    BY <1>2 DEF Start
  <2>2. UNCHANGED <<queue_lock, stream, backlog, arrivals, wakeup, acceptor, outcome,
                    delivered, late>>
    BY <1>2 DEF Start
  <2>3. QED
    BY <1>2, <2>1, <2>2 DEF Start
<1>3. CASE StartFails
  BY <1>3 DEF StartFails
<1>4. CASE StopRequest
  BY <1>4 DEF StopRequest
<1>5. CASE StopUnlive
  BY <1>5 DEF StopUnlive
<1>6. CASE StopWake
  <2>1. CASE arrivals' = arrivals + 1
    <3>1. wakeup' = arrivals + 1 /\ backlog' = Append(backlog, arrivals + 1)
      BY <1>6, <2>1 DEF StopWake
    <3>2. arrivals + 1 \in Connections
      BY <1>6 DEF StopWake, Connections
    <3>3. QED
      BY <1>6, <2>1, <3>1, <3>2 DEF StopWake
  <2>2. CASE wakeup' = Failed /\ UNCHANGED kernelVars
    BY <1>6, <2>2 DEF StopWake
  <2>3. QED
    BY <1>6, <2>1, <2>2 DEF StopWake
<1>7. CASE StopNotify
  BY <1>7 DEF StopNotify
<1>8. CASE StopJoin
  BY <1>8 DEF StopJoin
<1>9. CASE StopClear
  BY <1>9 DEF StopClear
<1>10. CASE StopForget
  BY <1>10 DEF StopForget
<1>11. CASE ListenerTake
  BY <1>11 DEF ListenerTake
<1>12. CASE ListenerCheck
  BY <1>12 DEF ListenerCheck
<1>13. CASE ListenerCount
  BY <1>13 DEF ListenerCount
<1>14. CASE ListenerPush
  BY <1>14 DEF ListenerPush
<1>15. CASE ListenerNotify
  BY <1>15 DEF ListenerNotify
<1>16. CASE ListenerUnlive
  BY <1>16 DEF ListenerUnlive
<1>17. CASE ListenerNotifyAll
  BY <1>17 DEF ListenerNotifyAll
<1>18. CASE ListenerEnd
  BY <1>18 DEF ListenerEnd
<1>19. CASE ListenerError
  <2>1. CASE UNCHANGED backlog
    BY <1>19, <2>1 DEF ListenerError
  <2>2. CASE backlog # <<>> /\ backlog' = Tail(backlog)
    BY <1>19, <2>2 DEF ListenerError
  <2>3. QED
    BY <1>19, <2>1, <2>2 DEF ListenerError
<1>20. ASSUME NEW a \in Acceptors, AcceptBegin(a) PROVE TypeOK'
  <2>1. acceptor' \in [Acceptors -> AcceptorStates]
    BY <1>20 DEF AcceptBegin
  <2>2. outcome' \in [Acceptors -> Outcomes]
    BY <1>20 DEF AcceptBegin
  <2>3. QED
    BY <1>20, <2>1, <2>2 DEF AcceptBegin
<1>21. ASSUME NEW a \in Acceptors, AcceptScan(a) PROVE TypeOK'
  <2>1. acceptor' \in [Acceptors -> AcceptorStates]
    BY <1>21 DEF AcceptScan
  <2>2. outcome' \in [Acceptors -> Outcomes]
    BY <1>21 DEF AcceptScan
  <2>3. queue' \in Seq(Connections) /\ delivered' \in Seq(Connections)
    <3>1. CASE UNCHANGED <<queue, delivered>>
      BY <3>1
    <3>2. CASE queue # <<>> /\ queue' = Tail(queue)
                  /\ delivered' = Append(delivered, Head(queue))
      BY <3>2
    <3>3. QED
      BY <1>21, <3>1, <3>2 DEF AcceptScan
  <2>4. queue_lock' \in Acceptors \cup {Nobody}
    BY <1>21 DEF AcceptScan
  <2>5. QED
    BY <1>21, <2>1, <2>2, <2>3, <2>4 DEF AcceptScan
<1>22. ASSUME NEW a \in Acceptors, AcceptWait(a) PROVE TypeOK'
  BY <1>22 DEF AcceptWait
<1>23. ASSUME NEW a \in Acceptors, SpuriousWakeup(a) PROVE TypeOK'
  BY <1>23 DEF SpuriousWakeup
<1>24. CASE UNCHANGED vars
  BY <1>24
<1> QED
  BY <1>1, <1>2, <1>3, <1>4, <1>5, <1>6, <1>7, <1>8, <1>9, <1>10, <1>11, <1>12, <1>13, <1>14, <1>15, <1>16, <1>17, <1>18, <1>19, <1>20, <1>21, <1>22, <1>23, <1>24
  DEF Next, OwnerStop, ListenerStep

\* The phases of start, stop and the listener keep in step.
LEMMA PhaseStep ==
  TypeOK /\ PhaseInv /\ [Next]_vars => PhaseInv'
<1> SUFFICES ASSUME TypeOK /\ PhaseInv, [Next]_vars PROVE PhaseInv'
  OBVIOUS
<1> USE AcceptorsAssumption, BoundsAssumption DEF TypeOK, PhaseInv, Establish, NotifyAll, ListenerOpen, OwnerStates,
        ListenerStates, Connections, Beginning, Stopping, Woken, Joined,
        vars, ownerVars, flagVars, listenerVars, kernelVars, acceptVars
<1>1. CASE PeerConnect
  BY <1>1 DEF PeerConnect
<1>2. CASE Start
  BY <1>2 DEF Start
<1>3. CASE StartFails
  BY <1>3 DEF StartFails
<1>4. CASE StopRequest
  BY <1>4 DEF StopRequest
<1>5. CASE StopUnlive
  BY <1>5 DEF StopUnlive
<1>6. CASE StopWake
  BY <1>6 DEF StopWake
<1>7. CASE StopNotify
  BY <1>7 DEF StopNotify
<1>8. CASE StopJoin
  BY <1>8 DEF StopJoin
<1>9. CASE StopClear
  BY <1>9 DEF StopClear
<1>10. CASE StopForget
  BY <1>10 DEF StopForget
<1>11. CASE ListenerTake
  BY <1>11 DEF ListenerTake
<1>12. CASE ListenerCheck
  BY <1>12 DEF ListenerCheck
<1>13. CASE ListenerCount
  BY <1>13 DEF ListenerCount
<1>14. CASE ListenerPush
  BY <1>14 DEF ListenerPush
<1>15. CASE ListenerNotify
  BY <1>15 DEF ListenerNotify
<1>16. CASE ListenerUnlive
  BY <1>16 DEF ListenerUnlive
<1>17. CASE ListenerNotifyAll
  BY <1>17 DEF ListenerNotifyAll
<1>18. CASE ListenerEnd
  BY <1>18 DEF ListenerEnd
<1>19. CASE ListenerError
  BY <1>19 DEF ListenerError
<1>20. ASSUME NEW a \in Acceptors, AcceptBegin(a) PROVE PhaseInv'
  BY <1>20 DEF AcceptBegin
<1>21. ASSUME NEW a \in Acceptors, AcceptScan(a) PROVE PhaseInv'
  BY <1>21 DEF AcceptScan
<1>22. ASSUME NEW a \in Acceptors, AcceptWait(a) PROVE PhaseInv'
  BY <1>22 DEF AcceptWait
<1>23. ASSUME NEW a \in Acceptors, SpuriousWakeup(a) PROVE PhaseInv'
  BY <1>23 DEF SpuriousWakeup
<1>24. CASE UNCHANGED vars
  BY <1>24
<1> QED
  BY <1>1, <1>2, <1>3, <1>4, <1>5, <1>6, <1>7, <1>8, <1>9, <1>10, <1>11, <1>12, <1>13, <1>14, <1>15, <1>16, <1>17, <1>18, <1>19, <1>20, <1>21, <1>22, <1>23, <1>24
  DEF Next, OwnerStop, ListenerStep

\* The queue cannot change while a call holds the mutex on its way to wait().
LEMMA LockStep ==
  TypeOK /\ PhaseInv /\ LockInv /\ [Next]_vars => LockInv'
<1> SUFFICES ASSUME TypeOK /\ PhaseInv /\ LockInv, [Next]_vars PROVE LockInv'
  OBVIOUS
<1> USE AcceptorsAssumption, BoundsAssumption DEF TypeOK, PhaseInv, LockInv, NotifyAll, Sleepers, Establish, Beginning,
        vars, ownerVars, flagVars, listenerVars, kernelVars, acceptVars
<1>1. CASE PeerConnect
  BY <1>1 DEF PeerConnect
<1>2. CASE Start
  BY <1>2 DEF Start
<1>3. CASE StartFails
  BY <1>3 DEF StartFails
<1>4. CASE StopRequest
  BY <1>4 DEF StopRequest
<1>5. CASE StopUnlive
  BY <1>5 DEF StopUnlive
<1>6. CASE StopWake
  BY <1>6 DEF StopWake
<1>7. CASE StopNotify
  BY <1>7 DEF StopNotify
<1>8. CASE StopJoin
  BY <1>8 DEF StopJoin
<1>9. CASE StopClear
  BY <1>9 DEF StopClear
<1>10. CASE StopForget
  BY <1>10 DEF StopForget
<1>11. CASE ListenerTake
  BY <1>11 DEF ListenerTake
<1>12. CASE ListenerCheck
  BY <1>12 DEF ListenerCheck
<1>13. CASE ListenerCount
  BY <1>13 DEF ListenerCount
<1>14. CASE ListenerPush
  BY <1>14 DEF ListenerPush
<1>15. CASE ListenerNotify
  BY <1>15 DEF ListenerNotify
<1>16. CASE ListenerUnlive
  BY <1>16 DEF ListenerUnlive
<1>17. CASE ListenerNotifyAll
  BY <1>17 DEF ListenerNotifyAll
<1>18. CASE ListenerEnd
  BY <1>18 DEF ListenerEnd
<1>19. CASE ListenerError
  BY <1>19 DEF ListenerError
<1>20. ASSUME NEW a \in Acceptors, AcceptBegin(a) PROVE LockInv'
  BY <1>20 DEF AcceptBegin
<1>21. ASSUME NEW a \in Acceptors, AcceptScan(a) PROVE LockInv'
  BY <1>21 DEF AcceptScan
<1>22. ASSUME NEW a \in Acceptors, AcceptWait(a) PROVE LockInv'
  BY <1>22 DEF AcceptWait
<1>23. ASSUME NEW a \in Acceptors, SpuriousWakeup(a) PROVE LockInv'
  BY <1>23 DEF SpuriousWakeup
<1>24. CASE UNCHANGED vars
  BY <1>24
<1> QED
  BY <1>1, <1>2, <1>3, <1>4, <1>5, <1>6, <1>7, <1>8, <1>9, <1>10, <1>11, <1>12, <1>13, <1>14, <1>15, <1>16, <1>17, <1>18, <1>19, <1>20, <1>21, <1>22, <1>23, <1>24
  DEF Next, OwnerStop, ListenerStep

\* The counter, the queue and the history move together.
LEMMA CountStep ==
  TypeOK /\ PhaseInv /\ AcceptedCountExact /\ [Next]_vars => AcceptedCountExact'
<1> SUFFICES ASSUME TypeOK /\ PhaseInv /\ AcceptedCountExact, [Next]_vars PROVE AcceptedCountExact'
  OBVIOUS
<1> USE AcceptorsAssumption, BoundsAssumption DEF TypeOK, PhaseInv, AcceptedCountExact, Establish, NotifyAll, Beginning, Joined,
        vars, ownerVars, flagVars, listenerVars, kernelVars, acceptVars
<1>1. CASE PeerConnect
  BY <1>1 DEF PeerConnect
<1>2. CASE Start
  BY <1>2 DEF Start
<1>3. CASE StartFails
  BY <1>3 DEF StartFails
<1>4. CASE StopRequest
  BY <1>4 DEF StopRequest
<1>5. CASE StopUnlive
  BY <1>5 DEF StopUnlive
<1>6. CASE StopWake
  BY <1>6 DEF StopWake
<1>7. CASE StopNotify
  BY <1>7 DEF StopNotify
<1>8. CASE StopJoin
  BY <1>8 DEF StopJoin
<1>9. CASE StopClear
  BY <1>9 DEF StopClear
<1>10. CASE StopForget
  BY <1>10 DEF StopForget
<1>11. CASE ListenerTake
  BY <1>11 DEF ListenerTake
<1>12. CASE ListenerCheck
  BY <1>12 DEF ListenerCheck
<1>13. CASE ListenerCount
  BY <1>13 DEF ListenerCount
<1>14. CASE ListenerPush
  BY <1>14 DEF ListenerPush
<1>15. CASE ListenerNotify
  BY <1>15 DEF ListenerNotify
<1>16. CASE ListenerUnlive
  BY <1>16 DEF ListenerUnlive
<1>17. CASE ListenerNotifyAll
  BY <1>17 DEF ListenerNotifyAll
<1>18. CASE ListenerEnd
  BY <1>18 DEF ListenerEnd
<1>19. CASE ListenerError
  BY <1>19 DEF ListenerError
<1>20. ASSUME NEW a \in Acceptors, AcceptBegin(a) PROVE AcceptedCountExact'
  BY <1>20 DEF AcceptBegin
<1>21. ASSUME NEW a \in Acceptors, AcceptScan(a) PROVE AcceptedCountExact'
  <2>1. CASE UNCHANGED <<queue, delivered>>
    BY <1>21, <2>1 DEF AcceptScan
  <2>2. CASE queue # <<>> /\ queue' = Tail(queue)
                /\ delivered' = Append(delivered, Head(queue))
    <3>1. Len(queue') = Len(queue) - 1 /\ Len(delivered') = Len(delivered) + 1
      BY <2>2
    <3>2. Len(queue) \in Nat /\ Len(delivered) \in Nat
      OBVIOUS
    <3>3. UNCHANGED <<owner, listener, accepted_connections>>
      BY <1>21 DEF AcceptScan
    <3>4. QED
      BY <3>1, <3>2, <3>3
  <2>3. QED
    BY <1>21, <2>1, <2>2 DEF AcceptScan
<1>22. ASSUME NEW a \in Acceptors, AcceptWait(a) PROVE AcceptedCountExact'
  BY <1>22 DEF AcceptWait
<1>23. ASSUME NEW a \in Acceptors, SpuriousWakeup(a) PROVE AcceptedCountExact'
  BY <1>23 DEF SpuriousWakeup
<1>24. CASE UNCHANGED vars
  BY <1>24
<1> QED
  BY <1>1, <1>2, <1>3, <1>4, <1>5, <1>6, <1>7, <1>8, <1>9, <1>10, <1>11, <1>12, <1>13, <1>14, <1>15, <1>16, <1>17, <1>18, <1>19, <1>20, <1>21, <1>22, <1>23, <1>24
  DEF Next, OwnerStop, ListenerStep

\* Only a listener that passed its check before the request can be late.
LEMMA LateStep ==
  TypeOK /\ PhaseInv /\ LateInv /\ [Next]_vars => LateInv'
<1> SUFFICES ASSUME TypeOK /\ PhaseInv /\ LateInv, [Next]_vars PROVE LateInv'
  OBVIOUS
<1> USE AcceptorsAssumption, BoundsAssumption DEF TypeOK, PhaseInv, LateInv, Establish, NotifyAll, Stopping, ListenerStates, OwnerStates,
        vars, ownerVars, flagVars, listenerVars, kernelVars, acceptVars
<1>1. CASE PeerConnect
  BY <1>1 DEF PeerConnect
<1>2. CASE Start
  BY <1>2 DEF Start
<1>3. CASE StartFails
  BY <1>3 DEF StartFails
<1>4. CASE StopRequest
  BY <1>4 DEF StopRequest
<1>5. CASE StopUnlive
  BY <1>5 DEF StopUnlive
<1>6. CASE StopWake
  BY <1>6 DEF StopWake
<1>7. CASE StopNotify
  BY <1>7 DEF StopNotify
<1>8. CASE StopJoin
  BY <1>8 DEF StopJoin
<1>9. CASE StopClear
  BY <1>9 DEF StopClear
<1>10. CASE StopForget
  BY <1>10 DEF StopForget
<1>11. CASE ListenerTake
  BY <1>11 DEF ListenerTake
<1>12. CASE ListenerCheck
  BY <1>12 DEF ListenerCheck
<1>13. CASE ListenerCount
  BY <1>13 DEF ListenerCount
<1>14. CASE ListenerPush
  BY <1>14 DEF ListenerPush
<1>15. CASE ListenerNotify
  BY <1>15 DEF ListenerNotify
<1>16. CASE ListenerUnlive
  BY <1>16 DEF ListenerUnlive
<1>17. CASE ListenerNotifyAll
  BY <1>17 DEF ListenerNotifyAll
<1>18. CASE ListenerEnd
  BY <1>18 DEF ListenerEnd
<1>19. CASE ListenerError
  BY <1>19 DEF ListenerError
<1>20. ASSUME NEW a \in Acceptors, AcceptBegin(a) PROVE LateInv'
  BY <1>20 DEF AcceptBegin
<1>21. ASSUME NEW a \in Acceptors, AcceptScan(a) PROVE LateInv'
  BY <1>21 DEF AcceptScan
<1>22. ASSUME NEW a \in Acceptors, AcceptWait(a) PROVE LateInv'
  BY <1>22 DEF AcceptWait
<1>23. ASSUME NEW a \in Acceptors, SpuriousWakeup(a) PROVE LateInv'
  BY <1>23 DEF SpuriousWakeup
<1>24. CASE UNCHANGED vars
  BY <1>24
<1> QED
  BY <1>1, <1>2, <1>3, <1>4, <1>5, <1>6, <1>7, <1>8, <1>9, <1>10, <1>11, <1>12, <1>13, <1>14, <1>15, <1>16, <1>17, <1>18, <1>19, <1>20, <1>21, <1>22, <1>23, <1>24
  DEF Next, OwnerStop, ListenerStep

(* Increasing sequences of arrivals. *)

\* A later arrival can be appended to an increasing sequence.
LEMMA AppendIncreasing ==
  ASSUME NEW s \in Seq(Connections), NEW n \in Connections,
         Increasing(s), Below(s, n)
  PROVE  Increasing(Append(s, n))
BY DEF Increasing, Below, Connections

\* The tail of an increasing sequence is increasing, and above its head.
LEMMA TailIncreasing ==
  ASSUME NEW s \in Seq(Connections), s # <<>>, Increasing(s)
  PROVE  Increasing(Tail(s)) /\ Above(Tail(s), Head(s))
BY DEF Increasing, Above, Connections

\* Appending to a sequence keeps a common bound of its elements.
LEMMA AppendBelow ==
  ASSUME NEW s \in Seq(Connections), NEW n \in Connections, NEW m \in Nat,
         Below(s, m), n < m
  PROVE  Below(Append(s, n), m)
BY DEF Below, Connections

\* The tail of a sequence keeps the bounds of the sequence.
LEMMA TailBounds ==
  ASSUME NEW s \in Seq(Connections), s # <<>>, NEW m \in Nat
  PROVE  /\ Below(s, m) => Below(Tail(s), m) /\ Head(s) < m
         /\ Above(s, m) => Above(Tail(s), m) /\ m < Head(s)
BY DEF Below, Above, Connections

\* What was before n is before a sequence that n is appended to, and so on for
\* the other side of Before.
LEMMA BeforeAppend ==
  ASSUME NEW s \in Seq(Connections), NEW t \in Seq(Connections),
         NEW n \in Connections, Before(s, t)
  PROVE  /\ Below(s, n) => Before(s, Append(t, n))
         /\ Above(t, n) => Before(Append(s, n), t)
BY DEF Before, Below, Above, Connections

\* Before survives taking the head of either sequence.
LEMMA BeforeTail ==
  ASSUME NEW s \in Seq(Connections), NEW t \in Seq(Connections), Before(s, t)
  PROVE  /\ t # <<>> => Before(s, Tail(t)) /\ Below(s, Head(t))
         /\ s # <<>> => Before(Tail(s), t) /\ Above(t, Head(s))
BY DEF Before, Below, Above, Connections

\* The order of arrival survives each way a connection moves: into the backlog,
\* into the listener's hands, into the queue, out of accept(), or lost.
LEMMA OrderStep ==
  TypeOK /\ PhaseInv /\ OrderInv /\ [Next]_vars => OrderInv'
<1> SUFFICES ASSUME TypeOK, PhaseInv, OrderInv, [Next]_vars PROVE OrderInv'
  OBVIOUS
<1>t. /\ queue \in Seq(Connections) /\ delivered \in Seq(Connections)
      /\ backlog \in Seq(Connections) /\ arrivals \in Nat
      /\ stream # 0 => stream \in Connections /\ stream \in Nat
  BY BoundsAssumption DEF TypeOK, Connections
<1>n. \A n \in Connections : n \in Nat
  BY BoundsAssumption DEF Connections
<1>1. CASE UNCHANGED <<queue, delivered, backlog, stream, arrivals>>
  BY <1>1 DEF OrderInv, DeliveryInArrivalOrder, Increasing, Before, Below, Above
<1>2. CASE /\ arrivals' = arrivals + 1 /\ backlog' = Append(backlog, arrivals + 1)
           /\ arrivals + 1 \in Connections
           /\ UNCHANGED <<queue, delivered, stream>>
  <2>1. Increasing(backlog')
    BY <1>2, <1>t, AppendIncreasing DEF OrderInv
  <2>2. Before(delivered, backlog') /\ Before(queue, backlog')
    BY <1>2, <1>t, BeforeAppend DEF OrderInv
  <2>3. stream # 0 => Above(backlog', stream) /\ stream <= arrivals'
    BY <1>2, <1>t DEF OrderInv, Above
  <2>4. /\ Below(delivered, arrivals' + 1) /\ Below(queue, arrivals' + 1)
        /\ Below(backlog', arrivals' + 1)
    BY <1>2, <1>t, <1>n DEF OrderInv, Below
  <2>5. QED
    BY <1>2, <2>1, <2>2, <2>3, <2>4 DEF OrderInv, DeliveryInArrivalOrder
<1>3. CASE queue' = <<>> /\ UNCHANGED <<delivered, backlog, stream, arrivals>>
  BY <1>3, <1>t DEF OrderInv, DeliveryInArrivalOrder, Increasing, Before, Below
<1>4. CASE /\ stream = 0 /\ backlog # <<>> /\ stream' = Head(backlog)
           /\ backlog' = Tail(backlog) /\ UNCHANGED <<queue, delivered, arrivals>>
  <2>1. Increasing(backlog') /\ Above(backlog', stream')
    BY <1>4, <1>t, TailIncreasing DEF OrderInv
  <2>2. /\ Before(delivered, backlog') /\ Before(queue, backlog')
        /\ Below(delivered, stream') /\ Below(queue, stream')
    BY <1>4, <1>t, BeforeTail DEF OrderInv
  <2>3. Below(backlog', arrivals + 1) /\ stream' < arrivals + 1
    BY <1>4, <1>t, TailBounds DEF OrderInv
  <2>4. stream' \in Nat
    BY <1>4, <1>t, <1>n
  <2>5. QED
    BY <1>4, <1>t, <2>1, <2>2, <2>3, <2>4 DEF OrderInv, DeliveryInArrivalOrder
<1>5. CASE stream' = 0 /\ UNCHANGED <<queue, delivered, backlog, arrivals>>
  BY <1>5 DEF OrderInv, DeliveryInArrivalOrder
<1>6. CASE /\ stream # 0 /\ stream' = 0 /\ queue' = Append(queue, stream)
           /\ UNCHANGED <<delivered, backlog, arrivals>>
  <2>1. Increasing(queue')
    BY <1>6, <1>t, AppendIncreasing DEF OrderInv, DeliveryInArrivalOrder
  <2>2. Before(delivered, queue')
    BY <1>6, <1>t, BeforeAppend DEF OrderInv, DeliveryInArrivalOrder
  <2>3. Before(queue', backlog)
    BY <1>6, <1>t, BeforeAppend DEF OrderInv
  <2>4. Below(queue', arrivals + 1)
    BY <1>6, <1>t, AppendBelow DEF OrderInv
  <2>5. QED
    BY <1>6, <2>1, <2>2, <2>3, <2>4 DEF OrderInv, DeliveryInArrivalOrder
<1>7. CASE backlog' = <<>> /\ UNCHANGED <<queue, delivered, stream, arrivals>>
  BY <1>7, <1>t DEF OrderInv, DeliveryInArrivalOrder, Increasing, Before, Below,
                    Above
<1>8. CASE /\ backlog # <<>> /\ backlog' = Tail(backlog)
           /\ UNCHANGED <<queue, delivered, stream, arrivals>>
  <2>1. Increasing(backlog')
    BY <1>8, <1>t, TailIncreasing DEF OrderInv
  <2>2. Before(delivered, backlog') /\ Before(queue, backlog')
    BY <1>8, <1>t, BeforeTail DEF OrderInv
  <2>3. Below(backlog', arrivals + 1)
    BY <1>8, <1>t, TailBounds DEF OrderInv
  <2>4. stream # 0 => Above(backlog', stream)
    BY <1>8, <1>t, TailBounds DEF OrderInv
  <2>5. QED
    BY <1>8, <2>1, <2>2, <2>3, <2>4 DEF OrderInv, DeliveryInArrivalOrder
<1>9. CASE /\ queue # <<>> /\ queue' = Tail(queue)
           /\ delivered' = Append(delivered, Head(queue))
           /\ UNCHANGED <<backlog, stream, arrivals>>
  <2> DEFINE h == Head(queue)
  <2>1. /\ h \in Connections /\ h \in Nat /\ Tail(queue) \in Seq(Connections)
    BY <1>9, <1>t, <1>n
  <2>2. Increasing(queue') /\ Above(queue', h)
    BY <1>9, <1>t, TailIncreasing DEF OrderInv, DeliveryInArrivalOrder
  <2>3. Before(delivered, queue') /\ Below(delivered, h)
    BY <1>9, <1>t, BeforeTail DEF OrderInv, DeliveryInArrivalOrder
  <2>4. Increasing(delivered')
    BY <1>9, <1>t, <2>1, <2>3, AppendIncreasing DEF OrderInv, DeliveryInArrivalOrder
  <2>5. Before(delivered', queue')
    BY <1>9, <1>t, <2>1, <2>2, <2>3, BeforeAppend
  <2>6. Before(queue', backlog) /\ Above(backlog, h)
    BY <1>9, <1>t, BeforeTail DEF OrderInv
  <2>7. Before(delivered', backlog)
    BY <1>9, <1>t, <2>1, <2>6, BeforeAppend DEF OrderInv
  <2>8. Below(queue', arrivals + 1) /\ h < arrivals + 1
    BY <1>9, <1>t, TailBounds DEF OrderInv
  <2>9. Below(delivered', arrivals + 1)
    BY <1>9, <1>t, <2>1, <2>8, AppendBelow DEF OrderInv
  <2>10. stream # 0 => Below(queue', stream) /\ h < stream
    BY <1>9, <1>t, TailBounds DEF OrderInv
  <2>11. stream # 0 => Below(delivered', stream)
    BY <1>9, <1>t, <2>1, <2>10, AppendBelow DEF OrderInv
  <2>12. QED
    BY <1>9, <2>2, <2>4, <2>5, <2>6, <2>7, <2>8, <2>9, <2>10, <2>11
    DEF OrderInv, DeliveryInArrivalOrder
<1>10. QED
  <2> USE DEF ownerVars, flagVars, listenerVars, kernelVars, acceptVars
  <2>1. CASE PeerConnect
    BY <2>1, <1>2, <1>t, BoundsAssumption DEF PeerConnect, Establish, Connections
  <2>2. CASE Start
    BY <2>2, <1>3 DEF Start
  <2>3. CASE StopWake
    <3>1. arrivals + 1 \in Connections
      BY <2>3, <1>t, BoundsAssumption DEF StopWake, PhaseInv, Woken, Connections
    <3>2. QED
      BY <2>3, <3>1, <1>1, <1>2 DEF StopWake, Establish
  <2>4. CASE StopClear
    BY <2>4, <1>3 DEF StopClear
  <2>5. CASE StartFails \/ StopRequest \/ StopUnlive \/ StopNotify \/ StopJoin
             \/ StopForget
    BY <2>5, <1>1 DEF StartFails, StopRequest, StopUnlive, StopNotify, StopJoin,
                      StopForget, NotifyAll
  <2>6. CASE ListenerTake
    BY <2>6, <1>4 DEF ListenerTake, PhaseInv
  <2>7. CASE ListenerCheck
    BY <2>7, <1>1, <1>5 DEF ListenerCheck
  <2>8. CASE ListenerPush
    BY <2>8, <1>6 DEF ListenerPush, PhaseInv
  <2>9. CASE ListenerEnd
    BY <2>9, <1>7 DEF ListenerEnd
  <2>10. CASE ListenerError
    BY <2>10, <1>1, <1>8 DEF ListenerError
  <2>11. CASE ListenerCount \/ ListenerNotify \/ ListenerUnlive
              \/ ListenerNotifyAll
    BY <2>11, <1>1 DEF ListenerCount, ListenerNotify, ListenerUnlive,
                       ListenerNotifyAll, NotifyAll
  <2>12. ASSUME NEW a \in Acceptors, AcceptScan(a) PROVE OrderInv'
    BY <2>12, <1>1, <1>9 DEF AcceptScan
  <2>13. ASSUME NEW a \in Acceptors,
                AcceptBegin(a) \/ AcceptWait(a) \/ SpuriousWakeup(a)
         PROVE  OrderInv'
    BY <2>13, <1>1 DEF AcceptBegin, AcceptWait, SpuriousWakeup
  <2>14. CASE UNCHANGED vars
    BY <2>14, <1>1 DEF vars
  <2>15. QED
    BY <2>1, <2>2, <2>3, <2>4, <2>5, <2>6, <2>7, <2>8, <2>9, <2>10, <2>11,
       <2>12, <2>13, <2>14
    DEF Next, OwnerStop, ListenerStep

\* The connection stop makes is younger than all that was queued before, and the
\* listener does not get past its check with it.
LEMMA WakeStep ==
  TypeOK /\ PhaseInv /\ OrderInv /\ WakeInv /\ [Next]_vars => WakeInv'
<1> SUFFICES ASSUME TypeOK, PhaseInv, OrderInv, WakeInv, [Next]_vars
             PROVE  WakeInv'
  OBVIOUS
<1>t. /\ queue \in Seq(Connections) /\ delivered \in Seq(Connections)
      /\ arrivals \in Nat /\ wakeup \in Nat /\ stream \in Nat
      /\ \A i \in 1..Len(queue) : queue[i] \in Nat /\ queue[i] # Failed
      /\ \A i \in 1..Len(delivered) : delivered[i] \in Nat /\ delivered[i] # Failed
      /\ stream # Failed /\ Failed # 0
  BY BoundsAssumption DEF TypeOK, Connections, Failed
<1>1. CASE /\ UNCHANGED <<queue, delivered, wakeup>>
           /\ arrivals' \in {arrivals, arrivals + 1}
           /\ listener' \in {"checked", "counted"} /\ wakeup # 0 =>
                 listener \in {"checked", "counted"} /\ stream' = stream
  BY <1>1, <1>t DEF WakeInv, WakeupNeverDelivered
<1>2. CASE /\ wakeup' = arrivals + 1 /\ arrivals' = arrivals + 1
           /\ UNCHANGED <<queue, delivered, listener, stream>>
  <2>1. /\ \A i \in 1..Len(queue) : queue[i] < arrivals + 1
        /\ \A i \in 1..Len(delivered) : delivered[i] < arrivals + 1
        /\ stream < arrivals + 1
    BY <1>t DEF OrderInv, Below
  <2>2. /\ \A i \in 1..Len(queue) : queue[i] # arrivals + 1
        /\ \A i \in 1..Len(delivered) : delivered[i] # arrivals + 1
        /\ stream # arrivals + 1
    BY <1>t, <2>1
  <2>3. QED
    BY <1>2, <1>t, <2>2 DEF WakeInv, WakeupNeverDelivered
<1>2a. CASE wakeup' = Failed /\ UNCHANGED <<queue, delivered, arrivals, listener, stream>>
  BY <1>2a, <1>t DEF WakeInv, WakeupNeverDelivered
<1>3. CASE queue' = <<>> /\ UNCHANGED <<delivered, wakeup, arrivals, listener, stream>>
  BY <1>3, <1>t DEF WakeInv, WakeupNeverDelivered
<1>4. CASE /\ listener = "counted" /\ listener' = "pushed"
           /\ queue' = Append(queue, stream)
           /\ UNCHANGED <<delivered, wakeup, arrivals>>
  BY <1>4, <1>t DEF WakeInv, WakeupNeverDelivered
<1>5. CASE /\ queue # <<>> /\ queue' = Tail(queue)
           /\ delivered' = Append(delivered, Head(queue))
           /\ UNCHANGED <<wakeup, arrivals, listener, stream>>
  BY <1>5, <1>t DEF WakeInv, WakeupNeverDelivered
<1>6. QED
  <2> USE DEF ownerVars, flagVars, listenerVars, kernelVars, acceptVars
  <2>1. CASE PeerConnect
    BY <2>1, <1>1 DEF PeerConnect, Establish
  <2>2. CASE Start
    <3>1. wakeup = 0 /\ wakeup' = 0 /\ arrivals' = arrivals
      BY <2>2 DEF Start, PhaseInv, Woken
    <3>2. QED
      BY <3>1, <1>t DEF WakeInv, WakeupNeverDelivered
  <2>3. CASE StopWake
    BY <2>3, <1>2, <1>2a DEF StopWake, Establish
  <2>4. CASE StopClear
    BY <2>4, <1>3 DEF StopClear
  <2>5. CASE StartFails \/ StopRequest \/ StopUnlive \/ StopNotify \/ StopJoin
             \/ StopForget
    BY <2>5, <1>1 DEF StartFails, StopRequest, StopUnlive, StopNotify, StopJoin,
                      StopForget, NotifyAll
  <2>6. CASE ListenerCheck
    BY <2>6, <1>1 DEF ListenerCheck, PhaseInv, Stopping, Woken
  <2>7. CASE ListenerPush
    BY <2>7, <1>4 DEF ListenerPush
  <2>8. CASE ListenerCount
    BY <2>8, <1>1 DEF ListenerCount
  <2>9. CASE ListenerTake \/ ListenerEnd \/ ListenerError
             \/ ListenerNotify \/ ListenerUnlive \/ ListenerNotifyAll
    BY <2>9, <1>1 DEF ListenerTake, ListenerEnd, ListenerError, ListenerNotify,
                      ListenerUnlive, ListenerNotifyAll, NotifyAll
  <2>10. ASSUME NEW a \in Acceptors, AcceptScan(a) PROVE WakeInv'
    BY <2>10, <1>1, <1>5 DEF AcceptScan
  <2>11. ASSUME NEW a \in Acceptors,
                AcceptBegin(a) \/ AcceptWait(a) \/ SpuriousWakeup(a)
         PROVE  WakeInv'
    BY <2>11, <1>1 DEF AcceptBegin, AcceptWait, SpuriousWakeup
  <2>12. CASE UNCHANGED vars
    BY <2>12, <1>1 DEF vars
  <2>13. QED
    BY <2>1, <2>2, <2>3, <2>4, <2>5, <2>6, <2>7, <2>8, <2>9, <2>10, <2>11, <2>12
    DEF Next, OwnerStop, ListenerStep

\* The calls about to scan form a finite set; a call that starts or stops
\* scanning changes its size by one.
LEMMA ScannersFinite == IsFiniteSet(Scanners) /\ Cardinality(Scanners) \in Nat
BY AcceptorsAssumption, FS_Subset, FS_CardinalityType DEF Scanners

LEMMA ScannersGrow ==
  ASSUME TypeOK, NEW a \in Acceptors, acceptor[a] # "scanning",
         acceptor' = [acceptor EXCEPT ![a] = "scanning"]
  PROVE  Cardinality(Scanners') = Cardinality(Scanners) + 1
<1>1. Scanners' = Scanners \cup {a} /\ a \notin Scanners
  BY DEF Scanners, TypeOK
<1>2. QED
  BY <1>1, ScannersFinite, FS_AddElement

LEMMA ScannersShrink ==
  ASSUME TypeOK, NEW a \in Acceptors, acceptor[a] = "scanning", NEW s,
         s # "scanning", acceptor' = [acceptor EXCEPT ![a] = s]
  PROVE  Cardinality(Scanners') = Cardinality(Scanners) - 1
<1>1. Scanners' = Scanners \ {a} /\ a \in Scanners
  BY DEF Scanners, TypeOK
<1>2. QED
  BY <1>1, ScannersFinite, FS_RemoveElement

\* A queued connection is always matched by a scan or a notification to come.
LEMMA StrandStep ==
  TypeOK /\ PhaseInv /\ LockInv /\ NoStrandedConnection /\ [Next]_vars
    => NoStrandedConnection'
<1> SUFFICES ASSUME TypeOK, PhaseInv, LockInv, NoStrandedConnection, [Next]_vars
             PROVE  NoStrandedConnection'
  OBVIOUS
<1>t. queue \in Seq(Connections) /\ Len(queue) \in Nat
  BY DEF TypeOK
<1>s. Cardinality(Scanners) \in Nat
  BY ScannersFinite
<1>1. CASE Len(queue') = 0 /\ Cardinality(Scanners') \in Nat
  BY <1>1 DEF NoStrandedConnection
<1>2. CASE UNCHANGED <<acceptor, queue>> /\ listener' # "pushed" /\ listener # "pushed"
  <2>1. Scanners' = Scanners /\ Sleepers' = Sleepers
    BY <1>2 DEF Scanners, Sleepers
  <2>2. QED
    BY <1>2, <2>1 DEF NoStrandedConnection
<1>3. CASE UNCHANGED <<acceptor, queue, listener>>
  <2>1. Scanners' = Scanners /\ Sleepers' = Sleepers
    BY <1>3 DEF Scanners, Sleepers
  <2>2. QED
    BY <1>3, <2>1 DEF NoStrandedConnection
<1>4. CASE NotifyAll
  <2>1. Sleepers' = {}
    BY <1>4 DEF NotifyAll, Sleepers
  <2>2. QED
    BY <2>1 DEF NoStrandedConnection
<1>5. ASSUME NEW a \in Acceptors, acceptor[a] \in {"idle", "waiting"},
             acceptor' = [acceptor EXCEPT ![a] = "scanning"],
             UNCHANGED <<queue, listener>>
      PROVE  NoStrandedConnection'
  <2>1. Cardinality(Scanners') = Cardinality(Scanners) + 1
    BY <1>5, ScannersGrow
  <2>2. Sleepers' # {} => Sleepers # {}
    BY <1>5 DEF Sleepers, TypeOK
  <2>3. QED
    BY <1>5, <2>1, <2>2, <1>t, <1>s DEF NoStrandedConnection
<1>6. CASE ListenerPush
  <2>1. Scanners' = Scanners /\ Sleepers' = Sleepers
    BY <1>6 DEF ListenerPush, acceptVars, Scanners, Sleepers
  <2>2. Len(queue') = Len(queue) + 1
    BY <1>6, <1>t DEF ListenerPush
  <2>3. listener = "counted" /\ listener' = "pushed"
    BY <1>6 DEF ListenerPush
  <2>4. QED
    BY <2>1, <2>2, <2>3, <1>t, <1>s DEF NoStrandedConnection
<1>7. CASE ListenerNotify
  <2>1. CASE Sleepers = {}
    <3>1. Sleepers' = {}
      BY <1>7, <2>1 DEF ListenerNotify, Sleepers
    <3>2. QED
      BY <3>1 DEF NoStrandedConnection
  <2>2. CASE Sleepers # {}
    <3>1. PICK a \in Sleepers : acceptor' = [acceptor EXCEPT ![a] = "scanning"]
      BY <1>7, <2>2 DEF ListenerNotify
    <3>2. Cardinality(Scanners') = Cardinality(Scanners) + 1
      BY <3>1, ScannersGrow DEF Sleepers
    <3>3. listener = "pushed" /\ listener' = "incoming" /\ queue' = queue
      BY <1>7 DEF ListenerNotify
    <3>4. QED
      BY <2>2, <3>2, <3>3, <1>t, <1>s DEF NoStrandedConnection
  <2>3. QED
    BY <2>1, <2>2
<1>8. ASSUME NEW a \in Acceptors, AcceptScan(a) PROVE NoStrandedConnection'
  <2>1. CASE queue = <<>>
    <3>1. Len(queue') = 0
      BY <1>8, <2>1 DEF AcceptScan
    <3>2. \/ acceptor' = [acceptor EXCEPT ![a] = "idle"]
          \/ acceptor' = [acceptor EXCEPT ![a] = "parking"]
      BY <1>8 DEF AcceptScan
    <3>3. Cardinality(Scanners') = Cardinality(Scanners) - 1
      BY <1>8, <3>2, ScannersShrink DEF AcceptScan
    <3>4. Cardinality(Scanners) >= 1
      <4>1. a \in Scanners
        BY <1>8 DEF AcceptScan, Scanners
      <4>2. QED
        BY <4>1, ScannersFinite, FS_EmptySet, <1>s
    <3>5. QED
      BY <3>1, <3>3, <3>4, <1>s DEF NoStrandedConnection
  <2>2. CASE queue # <<>>
    <3>1. Len(queue') = Len(queue) - 1
      BY <1>8, <2>2, <1>t DEF AcceptScan
    <3>2. acceptor' = [acceptor EXCEPT ![a] = "idle"] /\ acceptor[a] = "scanning"
      BY <1>8, <2>2 DEF AcceptScan
    <3>3. Cardinality(Scanners') = Cardinality(Scanners) - 1
      BY <3>2, ScannersShrink
    <3>4. Sleepers' # {} => Sleepers # {}
      BY <3>2 DEF Sleepers, TypeOK
    <3>5. listener' = listener
      BY <1>8 DEF AcceptScan, listenerVars
    <3>6. QED
      BY <3>1, <3>3, <3>4, <3>5, <1>t, <1>s DEF NoStrandedConnection
  <2>3. QED
    BY <2>1, <2>2
<1>9. ASSUME NEW a \in Acceptors, AcceptWait(a) PROVE NoStrandedConnection'
  <2>1. Len(queue') = 0
    BY <1>9 DEF AcceptWait, LockInv
  <2>2. Scanners' = Scanners
    BY <1>9 DEF AcceptWait, Scanners, TypeOK
  <2>3. QED
    BY <2>1, <2>2, <1>s DEF NoStrandedConnection
<1>10. CASE Start \/ StopClear
  <2>1. Len(queue') = 0 /\ Scanners' = Scanners
    BY <1>10 DEF Start, StopClear, acceptVars, Scanners
  <2>2. QED
    BY <2>1, <1>s, <1>1
<1>11. QED
  <2> USE DEF ownerVars, flagVars, listenerVars, kernelVars, acceptVars
  <2>1. CASE PeerConnect \/ StartFails \/ StopRequest \/ StopUnlive \/ StopWake
             \/ StopJoin \/ StopForget
    BY <2>1, <1>3 DEF PeerConnect, StartFails, StopRequest, StopUnlive, StopWake,
                      StopJoin, StopForget
  <2>2. CASE StopNotify \/ ListenerNotifyAll
    BY <2>2, <1>4 DEF StopNotify, ListenerNotifyAll
  <2>3. CASE ListenerTake \/ ListenerCheck \/ ListenerCount \/ ListenerUnlive
             \/ ListenerEnd \/ ListenerError
    BY <2>3, <1>2 DEF ListenerTake, ListenerCheck, ListenerCount, ListenerUnlive,
                      ListenerEnd, ListenerError
  <2>4. ASSUME NEW a \in Acceptors, AcceptBegin(a) PROVE NoStrandedConnection'
    BY <2>4, <1>3, <1>5 DEF AcceptBegin
  <2>5. ASSUME NEW a \in Acceptors, SpuriousWakeup(a) PROVE NoStrandedConnection'
    BY <2>5, <1>5 DEF SpuriousWakeup
  <2>6. CASE UNCHANGED vars
    BY <2>6, <1>3 DEF vars
  <2>7. QED
    BY <2>1, <2>2, <2>3, <2>4, <2>5, <2>6, <1>6, <1>7, <1>8, <1>9, <1>10
    DEF Next, OwnerStop, ListenerStep

-----------------------------------------------------------------------------
(* The theorems. *)

\* The initial state satisfies the invariant.
LEMMA InvInit == Init => IInv
<1> SUFFICES ASSUME Init PROVE IInv
  OBVIOUS
<1>1. Scanners = {} /\ Sleepers = {}
  BY DEF Init, Scanners, Sleepers
<1>2. TypeOK
  <2>1. <<>> \in Seq(Connections)
    OBVIOUS
  <2>2. /\ acceptor \in [Acceptors -> AcceptorStates]
        /\ outcome \in [Acceptors -> Outcomes]
    BY DEF Init, AcceptorStates, Outcomes
  <2>3. QED
    BY <2>1, <2>2 DEF Init, TypeOK, OwnerStates, ListenerStates
<1>3. PhaseInv /\ LockInv /\ LateInv /\ AcceptedCountExact
  BY BoundsAssumption DEF Init, PhaseInv, LockInv, LateInv, AcceptedCountExact,
     ListenerOpen, Beginning, Stopping, Woken, Joined
<1>4. OrderInv /\ WakeInv
  BY DEF Init, OrderInv, WakeInv, WakeupNeverDelivered, DeliveryInArrivalOrder,
         Increasing, Before, Below
<1>5. NoStrandedConnection
  BY <1>1 DEF NoStrandedConnection
<1>6. QED
  BY <1>2, <1>3, <1>4, <1>5 DEF IInv

\* Every step preserves it.
LEMMA InvStep == IInv /\ [Next]_vars => IInv'
BY TypeStep, PhaseStep, LockStep, CountStep, LateStep, OrderStep, WakeStep,
   StrandStep DEF IInv

\* Every reachable state of the adapter is in the inductive invariant.
THEOREM Invariance == Spec => []IInv
<1>1. QED
  BY InvInit, InvStep, PTL DEF Spec

\* Every variable of the adapter keeps its type.
THEOREM TypeCorrect == Spec => []TypeOK
<1>1. IInv => TypeOK
  BY DEF IInv
<1>2. QED
  BY <1>1, Invariance, PTL

\* Any number of concurrent accept() calls return each connection at most once
\* and in the order of arrival.
THEOREM InOrderDelivery == Spec => []DeliveryInArrivalOrder
<1>1. IInv => DeliveryInArrivalOrder
  BY DEF IInv, OrderInv
<1>2. QED
  BY <1>1, Invariance, PTL

\* The reported number of accepted connections is exact but for the connection
\* that is being queued.
THEOREM CountIsExact == Spec => []AcceptedCountExact
<1>1. IInv => AcceptedCountExact
  BY DEF IInv
<1>2. QED
  BY <1>1, Invariance, PTL

\* No accept() ever returns the connection stop makes to wake the listener.
THEOREM WakeupStaysInside == Spec => []WakeupNeverDelivered
<1>1. IInv => WakeupNeverDelivered
  BY DEF IInv, WakeInv
<1>2. QED
  BY <1>1, Invariance, PTL

\* No connection is left in the queue by callers that all sleep, for any number
\* of callers.
THEOREM NoneStranded == Spec => []NoStrandedConnection
<1>1. IInv => NoStrandedConnection
  BY DEF IInv
<1>2. QED
  BY <1>1, Invariance, PTL

\* When stop has returned the generation is quiescent.
THEOREM StopIsQuiescent == Spec => []StoppedIsQuiescent
<1>1. IInv => StoppedIsQuiescent
  BY DEF IInv, PhaseInv, StoppedIsQuiescent, Joined, Woken, ListenerOpen
<1>2. QED
  BY <1>1, Invariance, PTL

\* At most one connection is queued after stop was requested.
THEOREM OneLateAdmission == Spec => []AtMostOneLateAdmission
<1>1. IInv => AtMostOneLateAdmission
  BY DEF IInv, LateInv, AtMostOneLateAdmission
<1>2. QED
  BY <1>1, Invariance, PTL
-----------------------------------------------------------------------------
(* stop is never left waiting by the adapter itself. *)

\* Whoever has the mutex is about to give it back, in wait().
HolderInv == queue_lock # Nobody => acceptor[queue_lock] = "parking"

\* Once stop has connected to itself, a listener that goes back to accept(2) finds
\* a connection there; whichever it is, it then sees stop_requested. (No connection
\* of stop's own is there when its connect failed.)
HelpInv ==
    /\ owner \in {"started", "requested", "unlived", "woken", "notified", "joined",
                  "cleared"} => actual_address
    /\ owner \in Woken /\ listener \in {"incoming", "checked", "counted", "pushed"}
          => backlog # <<>> \/ wakeup = Failed

LEMMA HolderStep ==
  TypeOK /\ LockInv /\ HolderInv /\ [Next]_vars => HolderInv'
<1> SUFFICES ASSUME TypeOK, LockInv, HolderInv, [Next]_vars PROVE HolderInv'
  OBVIOUS
<1> USE AcceptorsAssumption DEF TypeOK, LockInv, HolderInv, NotifyAll, Sleepers, Establish,
        vars, ownerVars, flagVars, listenerVars, kernelVars, acceptVars
<1>1. CASE PeerConnect
  BY <1>1 DEF PeerConnect
<1>2. CASE Start
  BY <1>2 DEF Start
<1>3. CASE StartFails
  BY <1>3 DEF StartFails
<1>4. CASE StopRequest
  BY <1>4 DEF StopRequest
<1>5. CASE StopUnlive
  BY <1>5 DEF StopUnlive
<1>6. CASE StopWake
  BY <1>6 DEF StopWake
<1>7. CASE StopNotify
  BY <1>7 DEF StopNotify
<1>8. CASE StopJoin
  BY <1>8 DEF StopJoin
<1>9. CASE StopClear
  BY <1>9 DEF StopClear
<1>10. CASE StopForget
  BY <1>10 DEF StopForget
<1>11. CASE ListenerTake
  BY <1>11 DEF ListenerTake
<1>12. CASE ListenerCheck
  BY <1>12 DEF ListenerCheck
<1>13. CASE ListenerCount
  BY <1>13 DEF ListenerCount
<1>14. CASE ListenerPush
  BY <1>14 DEF ListenerPush
<1>15. CASE ListenerNotify
  BY <1>15 DEF ListenerNotify
<1>16. CASE ListenerUnlive
  BY <1>16 DEF ListenerUnlive
<1>17. CASE ListenerNotifyAll
  BY <1>17 DEF ListenerNotifyAll
<1>18. CASE ListenerEnd
  BY <1>18 DEF ListenerEnd
<1>19. CASE ListenerError
  BY <1>19 DEF ListenerError
<1>20. ASSUME NEW a \in Acceptors, AcceptBegin(a) PROVE HolderInv'
  BY <1>20 DEF AcceptBegin
<1>21. ASSUME NEW a \in Acceptors, AcceptScan(a) PROVE HolderInv'
  BY <1>21 DEF AcceptScan
<1>22. ASSUME NEW a \in Acceptors, AcceptWait(a) PROVE HolderInv'
  BY <1>22 DEF AcceptWait
<1>23. ASSUME NEW a \in Acceptors, SpuriousWakeup(a) PROVE HolderInv'
  BY <1>23 DEF SpuriousWakeup
<1>24. CASE UNCHANGED vars
  BY <1>24
<1> QED
  BY <1>1, <1>2, <1>3, <1>4, <1>5, <1>6, <1>7, <1>8, <1>9, <1>10, <1>11, <1>12,
     <1>13, <1>14, <1>15, <1>16, <1>17, <1>18, <1>19, <1>20, <1>21, <1>22, <1>23, <1>24
  DEF Next, OwnerStop, ListenerStep

\* The backlog is only emptied by a listener that then looks at the flag, or leaves.
LEMMA HelpStep ==
  TypeOK /\ PhaseInv /\ HelpInv /\ [Next]_vars => HelpInv'
<1> SUFFICES ASSUME TypeOK, PhaseInv, HelpInv, [Next]_vars PROVE HelpInv'
  OBVIOUS
<1> USE BoundsAssumption DEF TypeOK, PhaseInv, HelpInv, Establish, ListenerOpen, Woken, Stopping,
        ListenerStates, vars, ownerVars, flagVars, listenerVars, kernelVars, acceptVars
<1>1. CASE PeerConnect
  BY <1>1 DEF PeerConnect
<1>2. CASE Start
  BY <1>2 DEF Start
<1>3. CASE StartFails
  BY <1>3 DEF StartFails
<1>4. CASE StopRequest
  BY <1>4 DEF StopRequest
<1>5. CASE StopUnlive
  BY <1>5 DEF StopUnlive
<1>6. CASE StopWake
  BY <1>6 DEF StopWake
<1>7. CASE StopNotify
  BY <1>7 DEF StopNotify
<1>8. CASE StopJoin
  BY <1>8 DEF StopJoin
<1>9. CASE StopClear
  BY <1>9 DEF StopClear
<1>10. CASE StopForget
  BY <1>10 DEF StopForget
<1>11. CASE ListenerTake
  BY <1>11 DEF ListenerTake
<1>12. CASE ListenerCheck
  BY <1>12 DEF ListenerCheck
<1>13. CASE ListenerCount
  BY <1>13 DEF ListenerCount
<1>14. CASE ListenerPush
  BY <1>14 DEF ListenerPush
<1>15. CASE ListenerNotify
  BY <1>15 DEF ListenerNotify
<1>16. CASE ListenerUnlive
  BY <1>16 DEF ListenerUnlive
<1>17. CASE ListenerNotifyAll
  BY <1>17 DEF ListenerNotifyAll
<1>18. CASE ListenerEnd
  BY <1>18 DEF ListenerEnd
<1>19. CASE ListenerError
  BY <1>19 DEF ListenerError
<1>20. ASSUME NEW a \in Acceptors, AcceptBegin(a) PROVE HelpInv'
  BY <1>20 DEF AcceptBegin
<1>21. ASSUME NEW a \in Acceptors, AcceptScan(a) PROVE HelpInv'
  BY <1>21 DEF AcceptScan
<1>22. ASSUME NEW a \in Acceptors, AcceptWait(a) PROVE HelpInv'
  BY <1>22 DEF AcceptWait
<1>23. ASSUME NEW a \in Acceptors, SpuriousWakeup(a) PROVE HelpInv'
  BY <1>23 DEF SpuriousWakeup
<1>24. CASE UNCHANGED vars
  BY <1>24
<1> QED
  BY <1>1, <1>2, <1>3, <1>4, <1>5, <1>6, <1>7, <1>8, <1>9, <1>10, <1>11, <1>12,
     <1>13, <1>14, <1>15, <1>16, <1>17, <1>18, <1>19, <1>20, <1>21, <1>22, <1>23, <1>24
  DEF Next, OwnerStop, ListenerStep

\* What each step of stop waits for.
StopMoves ==
    \/ owner \in {"requested", "woken", "cleared"}
    \/ owner = "unlived" /\ (~ListenerOpen \/ Len(backlog) < Backlog)
    \/ owner = "notified" /\ listener = "ended"
    \/ owner = "joined" /\ queue_lock = Nobody

\* What the listener thread waits for.
ListenerMoves ==
    \/ listener = "incoming" /\ backlog # <<>>
    \/ listener = "counted" /\ queue_lock = Nobody
    \/ listener \in {"taken", "checked", "pushed", "leaving", "unlived", "notified"}

\* While stop has not returned, it, the listener thread or a caller that is about to
\* release the mutex in wait() can take a step, whatever the peers do; or the connect
\* of stop has failed and the listener waits for another.
StopStallsUnhelpedOnly ==
    owner \in {"requested", "unlived", "woken", "notified", "joined", "cleared"} =>
        \/ StopMoves \/ ListenerMoves
        \/ \E a \in Acceptors : acceptor[a] = "parking"
        \/ StopUnhelped

\* stop cannot be left in connect(), in join() or in lock() with everyone asleep,
\* for any number of callers and any backlog, but in the one case that its connect()
\* to itself failed and nobody else's is there for the listener.
THEOREM StopIsNeverStuck == Spec => []StopStallsUnhelpedOnly
<1>1. Init => HolderInv /\ HelpInv
  BY DEF Init, HolderInv, HelpInv, Woken
<1>2. IInv /\ HolderInv /\ HelpInv /\ [Next]_vars => HolderInv' /\ HelpInv'
  BY HolderStep, HelpStep DEF IInv
<1>3. IInv /\ HolderInv /\ HelpInv => StopStallsUnhelpedOnly
  <2> SUFFICES ASSUME IInv, HolderInv, HelpInv,
                      \A a \in Acceptors : acceptor[a] # "parking",
                      owner \in {"requested", "unlived", "woken", "notified", "joined",
                                 "cleared"}
               PROVE  StopMoves \/ ListenerMoves \/ StopUnhelped
    BY DEF StopStallsUnhelpedOnly
  <2>1. queue_lock = Nobody
    BY DEF HolderInv, IInv, TypeOK
  <2>2. CASE owner = "unlived" /\ ListenerOpen /\ backlog = <<>>
    BY <2>2, BoundsAssumption DEF StopMoves
  <2>3. CASE owner = "notified" /\ listener = "incoming"
    BY <2>3 DEF HelpInv, Woken, ListenerMoves, StopUnhelped
  <2> QED
    BY <2>1, <2>2, <2>3 DEF IInv, TypeOK, PhaseInv, Beginning, ListenerStates, ListenerOpen,
       StopMoves, ListenerMoves
<1> QED
  BY <1>1, <1>2, <1>3, Invariance, PTL DEF Spec
-----------------------------------------------------------------------------
(* The adapter implements the channel. *)

\* A step of the adapter is a step of the channel or changes nothing in it.
LEMMA ChannelStep ==
  IInv /\ IInv' /\ [Next]_vars => [Channel!Next]_(Channel!vars)
<1> SUFFICES ASSUME IInv, IInv', [Next]_vars
             PROVE  [Channel!Next]_(Channel!vars)
  OBVIOUS
<1> DEFINE Seen == <<owner, late, queue, delivered>>
<1>t. /\ TypeOK /\ PhaseInv /\ LateInv /\ OrderInv
      /\ late \in Nat /\ late' \in Nat
      /\ queue \in Seq(Connections) /\ delivered \in Seq(Connections)
  BY DEF IInv, TypeOK
<1>1. CASE UNCHANGED Seen
  BY <1>1 DEF Channel!vars, ChannelMode
<1>2. CASE Start
  <2>1. queue = <<>> /\ queue' = <<>> /\ UNCHANGED delivered
    BY <1>2, <1>t DEF Start, PhaseInv, Beginning, acceptVars
  <2>2. ChannelMode = "new" /\ ChannelMode' = "open"
    BY <1>2 DEF Start, ChannelMode
  <2>3. QED
    BY <2>1, <2>2 DEF Channel!Next, Channel!Open
<1>3. CASE StopRequest
  <2>1. late = 0 /\ late' = 0 /\ UNCHANGED <<queue, delivered>>
    BY <1>3, <1>t DEF StopRequest, PhaseInv, LateInv, Stopping, acceptVars
  <2>2. ChannelMode = "open" /\ ChannelMode' = "closing"
    BY <1>3, <2>1 DEF StopRequest, ChannelMode
  <2>3. QED
    BY <2>1, <2>2 DEF Channel!Next, Channel!Close
<1>4. CASE StopClear
  <2>1. queue' = <<>> /\ UNCHANGED <<delivered, late>>
    BY <1>4 DEF StopClear, acceptVars
  <2>2. ChannelMode \in {"closing", "sealed"} /\ ChannelMode' = "closed"
    BY <1>4 DEF StopClear, ChannelMode
  <2>3. QED
    BY <2>1, <2>2 DEF Channel!Next, Channel!Discard
<1>5. CASE /\ owner \in {"unlived", "woken", "notified", "requested", "joined"}
           /\ owner' \in {"unlived", "woken", "notified", "requested", "joined"}
           /\ UNCHANGED <<late, queue, delivered>>
  BY <1>5 DEF Channel!vars, ChannelMode
<1>6. CASE StopForget
  BY <1>6 DEF StopForget, Channel!vars, ChannelMode, acceptVars
<1>7. CASE ListenerPush
  <2>1. /\ stream # 0 /\ queue' = Append(queue, stream) /\ UNCHANGED delivered
    BY <1>7, <1>t DEF ListenerPush, PhaseInv, acceptVars
  <2>2. stream \in Connections
    BY <2>1, <1>t DEF TypeOK
  <2>3. Channel!Younger(stream)
    BY <2>1, <1>t DEF OrderInv, Below, Channel!Younger
  <2>4. \/ ChannelMode = "open" /\ ChannelMode' = "open"
        \/ ChannelMode = "closing" /\ ChannelMode' = "sealed"
    <3>1. listener = "counted" /\ owner' = owner
      BY <1>7 DEF ListenerPush, ownerVars
    <3>2. late = 0
      BY <3>1, <1>t DEF LateInv
    <3>3. owner \notin {"created", "failed", "joined", "cleared", "stopped"}
      BY <3>1, <1>t DEF PhaseInv, Beginning, Joined
    <3>4. CASE stop_requested
      <4>1. late' = 1 /\ owner # "started"
        BY <1>7, <1>t, <3>2, <3>4 DEF ListenerPush, PhaseInv, Stopping
      <4>2. QED
        BY <3>1, <3>2, <3>3, <4>1 DEF ChannelMode
    <3>5. CASE ~stop_requested
      <4>1. owner = "started"
        BY <1>t, <3>3, <3>5 DEF PhaseInv, Stopping, TypeOK, OwnerStates
      <4>2. QED
        BY <3>1, <4>1 DEF ChannelMode
    <3>6. QED
      BY <3>4, <3>5
  <2>5. Channel!Offer
    BY <2>1, <2>2, <2>3, <2>4 DEF Channel!Offer
  <2>6. QED
    BY <2>5 DEF Channel!Next
<1>8. ASSUME NEW a \in Acceptors, AcceptScan(a)
      PROVE  [Channel!Next]_(Channel!vars)
  <2>1. UNCHANGED <<owner, late>>
    BY <1>8 DEF AcceptScan, ownerVars
  <2>2. UNCHANGED ChannelMode
    BY <2>1 DEF ChannelMode
  <2>3. CASE UNCHANGED <<queue, delivered>>
    BY <2>2, <2>3 DEF Channel!vars
  <2>4. CASE /\ queue # <<>> /\ queue' = Tail(queue)
             /\ delivered' = Append(delivered, Head(queue))
    BY <2>2, <2>4 DEF Channel!Next, Channel!Take
  <2>5. QED
    BY <1>8, <2>3, <2>4 DEF AcceptScan
<1>9. QED
  <2> USE DEF ownerVars, flagVars, listenerVars, kernelVars, acceptVars
  <2>1. CASE PeerConnect
    BY <2>1, <1>1 DEF PeerConnect
  <2>2. CASE StartFails
    BY <2>2 DEF StartFails, Channel!vars, ChannelMode
  <2>3. CASE StopUnlive \/ StopWake \/ StopNotify \/ StopJoin
    BY <2>3, <1>5 DEF StopUnlive, StopWake, StopNotify, StopJoin
  <2>4. CASE ListenerTake \/ ListenerCheck \/ ListenerCount \/ ListenerNotify
             \/ ListenerUnlive \/ ListenerNotifyAll \/ ListenerEnd
             \/ ListenerError
    BY <2>4, <1>1 DEF ListenerTake, ListenerCheck, ListenerCount, ListenerNotify,
       ListenerUnlive, ListenerNotifyAll, ListenerEnd, ListenerError
  <2>5. ASSUME NEW a \in Acceptors,
               AcceptBegin(a) \/ AcceptWait(a) \/ SpuriousWakeup(a)
        PROVE  [Channel!Next]_(Channel!vars)
    BY <2>5, <1>1 DEF AcceptBegin, AcceptWait, SpuriousWakeup
  <2>6. CASE UNCHANGED vars
    BY <2>6, <1>1 DEF vars
  <2>7. QED
    BY <2>1, <2>2, <2>3, <2>4, <2>5, <2>6, <1>2, <1>3, <1>4, <1>6, <1>7, <1>8
    DEF Next, OwnerStop, ListenerStep

\* The adapter implements the channel that callers of accept() rely on.
THEOREM ChannelImplemented == Spec => ImplementsChannel
<1>1. Init => Channel!Init
  BY DEF Init, Channel!Init, ChannelMode
<1>2. IInv /\ IInv' /\ [Next]_vars => [Channel!Next]_(Channel!vars)
  BY ChannelStep
<1>3. QED
  BY <1>1, <1>2, Invariance, PTL DEF Spec, Channel!Spec, ImplementsChannel
=============================================================================
