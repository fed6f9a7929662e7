----------------------------- MODULE TcpLoopback -----------------------------
(***************************************************************************)
(* The loopback realization of TcpByteStreamTransport                      *)
(* (packages/networking/tcp/src/loopback): one generation of the adapter,  *)
(* with the thread that owns the Instance (start, then stop), the listener *)
(* thread that start spawns, and callers of accept() that run concurrently *)
(* with both.                                                              *)
(*                                                                         *)
(* One action is the code between two points at which another thread can   *)
(* see a difference: every SeqCst load or store of a flag is a step of its *)
(* own, and so is every critical section of the queue mutex.               *)
(*                                                                         *)
(* Connections are numbered by the kernel in the order of their arrival,   *)
(* so n < m says that connection n arrived before connection m.            *)
(***************************************************************************)
EXTENDS Naturals, Sequences, FiniteSets

CONSTANTS
    Acceptors,    \* the threads that call accept()
    Nobody,       \* the holder of a free mutex
    MaxArrivals,  \* bound: connections made by anyone but stop itself
    Backlog       \* bound: connections the kernel holds before accept(2)

ASSUME AcceptorsAssumption == IsFiniteSet(Acceptors) /\ Nobody \notin Acceptors
ASSUME BoundsAssumption == MaxArrivals \in Nat /\ Backlog \in Nat \ {0}

VARIABLES
    owner,                 \* how far start and stop have come
    stop_requested,        \* TcpListenerState.stop_requested
    generation_live,       \* TcpListenerState.generation_live
    actual_address,        \* whether TcpListenerState.actual_address is Some
    accepted_connections,  \* TcpListenerState.accepted_connections
    queue,                 \* TcpListenerState.accepted: the VecDeque
    queue_lock,            \* TcpListenerState.accepted: the holder of the mutex
    listener,              \* where the listener thread is
    stream,                \* the connection in the listener's hands, 0 for none
    backlog,               \* the kernel: established, not yet accepted
    arrivals,              \* the kernel: connections established so far
    wakeup,                \* the connection stop made to itself, 0 for none yet
    acceptor,              \* where each call of accept() is
    outcome,               \* what the last accept() of each thread returned
    delivered,             \* history: the connections accept() returned, in order
    late                   \* history: connections queued after stop was requested

ownerVars    == <<owner, actual_address, wakeup>>
flagVars     == <<stop_requested, generation_live>>
listenerVars == <<listener, stream>>
kernelVars   == <<backlog, arrivals>>
acceptVars   == <<acceptor, outcome, delivered>>
vars == <<owner, actual_address, wakeup, stop_requested, generation_live,
          accepted_connections, queue, queue_lock, listener, stream, backlog,
          arrivals, acceptor, outcome, delivered, late>>

OwnerStates == {"created", "failed", "started", "requested", "unlived",
                "woken", "notified", "joined", "cleared", "stopped"}
ListenerStates == {"none", "incoming", "taken", "checked", "counted", "pushed",
                   "leaving", "unlived", "notified", "ended"}
AcceptorStates == {"idle", "scanning", "parking", "waiting"}
Outcomes == {"none", "Accepted", "Stopped"}
Connections == 1..(MaxArrivals + 1)

\* The value of `wakeup` once the connect of stop has failed.
Failed == MaxArrivals + 2

\* Sleepers is the wait set of the Condvar.
Sleepers == {a \in Acceptors : acceptor[a] = "waiting"}

\* Scanners are the calls that look at the queue before they sleep.
Scanners == {a \in Acceptors : acceptor[a] = "scanning"}

Init ==
    /\ owner = "created"
    /\ stop_requested = FALSE
    /\ generation_live = FALSE
    /\ actual_address = FALSE
    /\ accepted_connections = 0
    /\ queue = <<>>
    /\ queue_lock = Nobody
    /\ listener = "none"
    /\ stream = 0
    /\ backlog = <<>>
    /\ arrivals = 0
    /\ wakeup = 0
    /\ acceptor = [a \in Acceptors |-> "idle"]
    /\ outcome = [a \in Acceptors |-> "none"]
    /\ delivered = <<>>
    /\ late = 0
-----------------------------------------------------------------------------
(* The kernel's side of the listening socket. *)

\* The socket lives as long as the listener thread: the closure owns it.
ListenerOpen == listener \notin {"none", "ended"}

Establish ==
    /\ ListenerOpen
    /\ Len(backlog) < Backlog
    /\ arrivals' = arrivals + 1
    /\ backlog' = Append(backlog, arrivals + 1)

\* Any process connects to the bound address, the adapter's own connect() too.
PeerConnect ==
    /\ arrivals < MaxArrivals
    /\ Establish
    /\ UNCHANGED <<ownerVars, flagVars, accepted_connections, queue, queue_lock,
                   listenerVars, acceptVars, late>>

NotifyAll ==
    acceptor' = [a \in Acceptors |->
                    IF a \in Sleepers THEN "scanning" ELSE acceptor[a]]
-----------------------------------------------------------------------------
(* The owner: lifecycle start and stop. *)

\* Bind, local_addr, the flags, the empty queue, the address and the thread.
\* Nothing else runs before start returns, so it is one step.
Start ==
    /\ owner = "created"
    /\ owner' = "started"
    /\ stop_requested' = FALSE
    /\ generation_live' = TRUE
    /\ accepted_connections' = 0
    /\ queue' = <<>>
    /\ actual_address' = TRUE
    /\ listener' = "incoming"
    /\ UNCHANGED <<queue_lock, stream, kernelVars, wakeup, acceptVars, late>>

\* Not a loopback host, not an address, or bind or local_addr fails: start
\* returns before its first store.
StartFails ==
    /\ owner = "created"
    /\ owner' = "failed"
    /\ UNCHANGED <<actual_address, wakeup, flagVars, accepted_connections, queue,
                   queue_lock, listenerVars, kernelVars, acceptVars, late>>

StopRequest ==
    /\ owner = "started"
    /\ owner' = "requested"
    /\ stop_requested' = TRUE
    /\ UNCHANGED <<actual_address, wakeup, generation_live, accepted_connections,
                   queue, queue_lock, listenerVars, kernelVars, acceptVars, late>>

StopUnlive ==
    /\ owner = "requested"
    /\ owner' = "unlived"
    /\ generation_live' = FALSE
    /\ UNCHANGED <<actual_address, wakeup, stop_requested, accepted_connections,
                   queue, queue_lock, listenerVars, kernelVars, acceptVars, late>>

\* Mutant of StopWake: stop relies on the flag and connects to nothing.
StopWakeSilent ==
    /\ owner = "unlived"
    /\ owner' = "woken"
    /\ UNCHANGED <<actual_address, wakeup, flagVars, accepted_connections, queue,
                   queue_lock, listenerVars, kernelVars, acceptVars, late>>

\* stop connects to its own address to get the listener out of accept(2). The
\* connect waits for room in the backlog, is refused once the socket is closed,
\* and may fail for lack of a descriptor or a port; its result is ignored.
StopWake ==
    /\ owner = "unlived"
    /\ owner' = "woken"
    /\ \/ /\ actual_address
          /\ Establish
          /\ wakeup' = arrivals + 1
       \/ /\ wakeup' = Failed
          /\ UNCHANGED kernelVars
    /\ UNCHANGED <<actual_address, flagVars, accepted_connections, queue,
                   queue_lock, listenerVars, acceptVars, late>>

\* notify_all, without the mutex that accept() checks stop_requested under.
StopNotify ==
    /\ owner = "woken"
    /\ owner' = "notified"
    /\ NotifyAll
    /\ UNCHANGED <<actual_address, wakeup, flagVars, accepted_connections, queue,
                   queue_lock, listenerVars, kernelVars, outcome, delivered, late>>

\* Mutant of StopJoin: the handle is dropped, not joined.
StopDetach ==
    /\ owner = "notified"
    /\ owner' = "joined"
    /\ UNCHANGED <<actual_address, wakeup, flagVars, accepted_connections, queue,
                   queue_lock, listenerVars, kernelVars, acceptVars, late>>

StopJoin ==
    /\ owner = "notified"
    /\ listener = "ended"
    /\ owner' = "joined"
    /\ UNCHANGED <<actual_address, wakeup, flagVars, accepted_connections, queue,
                   queue_lock, listenerVars, kernelVars, acceptVars, late>>

StopClear ==
    /\ owner = "joined"
    /\ queue_lock = Nobody
    /\ owner' = "cleared"
    /\ queue' = <<>>
    /\ UNCHANGED <<actual_address, wakeup, flagVars, accepted_connections,
                   queue_lock, listenerVars, kernelVars, acceptVars, late>>

StopForget ==
    /\ owner = "cleared"
    /\ owner' = "stopped"
    /\ actual_address' = FALSE
    /\ UNCHANGED <<wakeup, flagVars, accepted_connections, queue, queue_lock,
                   listenerVars, kernelVars, acceptVars, late>>

OwnerStop == \/ StopUnlive \/ StopWake \/ StopNotify
             \/ StopJoin \/ StopClear \/ StopForget
-----------------------------------------------------------------------------
(* The listener thread. *)

\* listener.incoming() yields a connection.
ListenerTake ==
    /\ listener = "incoming"
    /\ backlog # <<>>
    /\ listener' = "taken"
    /\ stream' = Head(backlog)
    /\ backlog' = Tail(backlog)
    /\ UNCHANGED <<ownerVars, flagVars, accepted_connections, queue, queue_lock,
                   arrivals, acceptVars, late>>

\* listener.incoming() yields an error (no descriptor left, or the connection
\* was reset before it was accepted): the loop goes on unless stop was requested.
ListenerError ==
    /\ listener = "incoming"
    /\ \/ UNCHANGED backlog
       \/ backlog # <<>> /\ backlog' = Tail(backlog)
    /\ listener' = IF stop_requested THEN "leaving" ELSE "incoming"
    /\ UNCHANGED <<ownerVars, flagVars, accepted_connections, queue, queue_lock,
                   stream, arrivals, acceptVars, late>>

\* Mutant of ListenerCheck: the loop does not look at stop_requested.
ListenerCheckNothing ==
    /\ listener = "taken"
    /\ listener' = "checked"
    /\ UNCHANGED <<ownerVars, flagVars, accepted_connections, queue, queue_lock,
                   stream, kernelVars, acceptVars, late>>

\* Mutant of ListenerCheck: the connection is counted before the check.
ListenerCountEarly ==
    /\ listener = "taken"
    /\ accepted_connections' = accepted_connections + 1
    /\ IF stop_requested
       THEN listener' = "leaving" /\ stream' = 0
       ELSE listener' = "counted" /\ UNCHANGED stream
    /\ UNCHANGED <<ownerVars, flagVars, queue, queue_lock, kernelVars, acceptVars,
                   late>>

\* The two loads of stop_requested, with nothing of effect between them.
ListenerCheck ==
    /\ listener = "taken"
    /\ IF stop_requested
       THEN listener' = "leaving" /\ stream' = 0
       ELSE listener' = "checked" /\ UNCHANGED stream
    /\ UNCHANGED <<ownerVars, flagVars, accepted_connections, queue, queue_lock,
                   kernelVars, acceptVars, late>>

\* The counter moves before the connection can be accepted.
ListenerCount ==
    /\ listener = "checked"
    /\ listener' = "counted"
    /\ accepted_connections' = accepted_connections + 1
    /\ UNCHANGED <<ownerVars, flagVars, queue, queue_lock, stream, kernelVars,
                   acceptVars, late>>

\* Mutant of ListenerPush: push_front for push_back.
ListenerPushFront ==
    /\ listener = "counted"
    /\ queue_lock = Nobody
    /\ listener' = "pushed"
    /\ queue' = <<stream>> \o queue
    /\ stream' = 0
    /\ late' = IF stop_requested THEN late + 1 ELSE late
    /\ UNCHANGED <<ownerVars, flagVars, accepted_connections, queue_lock,
                   kernelVars, acceptVars>>

ListenerPush ==
    /\ listener = "counted"
    /\ queue_lock = Nobody
    /\ listener' = "pushed"
    /\ queue' = Append(queue, stream)
    /\ stream' = 0
    /\ late' = IF stop_requested THEN late + 1 ELSE late
    /\ UNCHANGED <<ownerVars, flagVars, accepted_connections, queue_lock,
                   kernelVars, acceptVars>>

\* Mutant of ListenerNotify: the notification is forgotten.
ListenerNotifyNobody ==
    /\ listener = "pushed"
    /\ listener' = "incoming"
    /\ UNCHANGED <<ownerVars, flagVars, accepted_connections, queue, queue_lock,
                   stream, kernelVars, acceptVars, late>>

\* notify_one: some sleeper wakes, if there is one.
ListenerNotify ==
    /\ listener = "pushed"
    /\ listener' = "incoming"
    /\ IF Sleepers = {}
       THEN UNCHANGED acceptor
       ELSE \E a \in Sleepers : acceptor' = [acceptor EXCEPT ![a] = "scanning"]
    /\ UNCHANGED <<ownerVars, flagVars, accepted_connections, queue, queue_lock,
                   stream, kernelVars, outcome, delivered, late>>

ListenerUnlive ==
    /\ listener = "leaving"
    /\ listener' = "unlived"
    /\ generation_live' = FALSE
    /\ UNCHANGED <<ownerVars, stop_requested, accepted_connections, queue,
                   queue_lock, stream, kernelVars, acceptVars, late>>

ListenerNotifyAll ==
    /\ listener = "unlived"
    /\ listener' = "notified"
    /\ NotifyAll
    /\ UNCHANGED <<ownerVars, flagVars, accepted_connections, queue, queue_lock,
                   stream, kernelVars, outcome, delivered, late>>

\* The closure returns: the socket closes and the kernel resets its backlog.
ListenerEnd ==
    /\ listener = "notified"
    /\ listener' = "ended"
    /\ backlog' = <<>>
    /\ UNCHANGED <<ownerVars, flagVars, accepted_connections, queue, queue_lock,
                   stream, arrivals, acceptVars, late>>

ListenerStep ==
    \/ ListenerTake \/ ListenerCheck \/ ListenerCount \/ ListenerPush
    \/ ListenerNotify \/ ListenerUnlive \/ ListenerNotifyAll \/ ListenerEnd
-----------------------------------------------------------------------------
(* accept(). *)

\* The call, up to its first early return.
AcceptBegin(a) ==
    /\ acceptor[a] = "idle"
    /\ \/ /\ generation_live
          /\ acceptor' = [acceptor EXCEPT ![a] = "scanning"]
          /\ outcome' = [outcome EXCEPT ![a] = "none"]
       \/ /\ ~generation_live
          /\ outcome' = [outcome EXCEPT ![a] = "Stopped"]
          /\ UNCHANGED acceptor
    /\ UNCHANGED <<ownerVars, flagVars, accepted_connections, queue, queue_lock,
                   listenerVars, kernelVars, delivered, late>>

\* Mutant of AcceptScan: a call that wakes does not look at stop_requested.
AcceptScanDeaf(a) ==
    /\ acceptor[a] = "scanning"
    /\ queue_lock = Nobody
    /\ \/ /\ queue # <<>>
          /\ queue' = Tail(queue)
          /\ delivered' = Append(delivered, Head(queue))
          /\ acceptor' = [acceptor EXCEPT ![a] = "idle"]
          /\ outcome' = [outcome EXCEPT ![a] = "Accepted"]
          /\ UNCHANGED queue_lock
       \/ /\ queue = <<>>
          /\ acceptor' = [acceptor EXCEPT ![a] = "parking"]
          /\ queue_lock' = a
          /\ UNCHANGED <<queue, outcome, delivered>>
    /\ UNCHANGED <<ownerVars, flagVars, accepted_connections, listenerVars,
                   kernelVars, late>>

\* With the mutex in hand, entered by lock() or out of wait(): the queue first,
\* then the flag. A call that finds neither keeps the mutex up to wait().
AcceptScan(a) ==
    /\ acceptor[a] = "scanning"
    /\ queue_lock = Nobody
    /\ \/ /\ queue # <<>>
          /\ queue' = Tail(queue)
          /\ delivered' = Append(delivered, Head(queue))
          /\ acceptor' = [acceptor EXCEPT ![a] = "idle"]
          /\ outcome' = [outcome EXCEPT ![a] = "Accepted"]
          /\ UNCHANGED queue_lock
       \/ /\ queue = <<>>
          /\ stop_requested
          /\ acceptor' = [acceptor EXCEPT ![a] = "idle"]
          /\ outcome' = [outcome EXCEPT ![a] = "Stopped"]
          /\ UNCHANGED <<queue, queue_lock, delivered>>
       \/ /\ queue = <<>>
          /\ ~stop_requested
          /\ acceptor' = [acceptor EXCEPT ![a] = "parking"]
          /\ queue_lock' = a
          /\ UNCHANGED <<queue, outcome, delivered>>
    /\ UNCHANGED <<ownerVars, flagVars, accepted_connections, listenerVars,
                   kernelVars, late>>

\* available.wait(queued): release the mutex and sleep, atomically.
AcceptWait(a) ==
    /\ acceptor[a] = "parking"
    /\ acceptor' = [acceptor EXCEPT ![a] = "waiting"]
    /\ queue_lock' = Nobody
    /\ UNCHANGED <<ownerVars, flagVars, accepted_connections, queue, listenerVars,
                   kernelVars, outcome, delivered, late>>

\* A Condvar may wake a sleeper without a notification.
SpuriousWakeup(a) ==
    /\ acceptor[a] = "waiting"
    /\ acceptor' = [acceptor EXCEPT ![a] = "scanning"]
    /\ UNCHANGED <<ownerVars, flagVars, accepted_connections, queue, queue_lock,
                   listenerVars, kernelVars, outcome, delivered, late>>

Next ==
    \/ PeerConnect
    \/ Start \/ StartFails \/ StopRequest \/ OwnerStop
    \/ ListenerStep \/ ListenerError
    \/ \E a \in Acceptors :
          AcceptBegin(a) \/ AcceptScan(a) \/ AcceptWait(a) \/ SpuriousWakeup(a)

Spec == Init /\ [][Next]_vars

(***************************************************************************)
(* Threads that can run do run: the listener, a stop that was begun and an *)
(* accept() in progress. Steps that take the queue mutex are strongly fair *)
(* (the mutex is not withheld from one thread for ever). Nothing obliges a *)
(* peer to connect, a caller to accept, the owner to stop, the kernel to   *)
(* fail or a Condvar to wake spuriously.                                   *)
(***************************************************************************)
Fairness ==
    /\ WF_vars(OwnerStop) /\ SF_vars(StopClear)
    /\ WF_vars(ListenerStep) /\ SF_vars(ListenerPush)
    /\ \A a \in Acceptors : SF_vars(AcceptScan(a)) /\ WF_vars(AcceptWait(a))

FairSpec == Spec /\ Fairness
-----------------------------------------------------------------------------
(* Properties. *)

\* Every variable has its type; connections are numbers the kernel gave out.
TypeOK ==
    /\ owner \in OwnerStates
    /\ stop_requested \in BOOLEAN
    /\ generation_live \in BOOLEAN
    /\ actual_address \in BOOLEAN
    /\ accepted_connections \in Nat
    /\ queue \in Seq(Connections)
    /\ queue_lock \in Acceptors \cup {Nobody}
    /\ listener \in ListenerStates
    /\ stream \in Connections \cup {0}
    /\ backlog \in Seq(Connections)
    /\ arrivals \in Connections \cup {0}
    /\ wakeup \in Connections \cup {0, Failed}
    /\ acceptor \in [Acceptors -> AcceptorStates]
    /\ outcome \in [Acceptors -> Outcomes]
    /\ delivered \in Seq(Connections)
    /\ late \in Nat

Increasing(s) == \A i, j \in 1..Len(s) : i < j => s[i] < s[j]
Before(s, t)  == \A i \in 1..Len(s), j \in 1..Len(t) : s[i] < t[j]

\* Concurrent accept() calls share the connections out: each one is returned at
\* most once, and none is returned after a connection that arrived later, over
\* every interleaving of the listener, the accepts and stop.
DeliveryInArrivalOrder ==
    Increasing(delivered) /\ Increasing(queue) /\ Before(delivered, queue)

\* The counter that TcpTransportInspector reports is ahead of the connections
\* queued or returned by the one the listener is about to queue, and by no more,
\* up to the moment stop throws the queue away.
AcceptedCountExact ==
    owner \notin {"cleared", "stopped"} =>
        accepted_connections = Len(delivered) + Len(queue)
                                 + (IF listener = "counted" THEN 1 ELSE 0)

\* The connection stop makes to wake the listener is never counted or queued, so
\* no accept() returns it.
WakeupNeverDelivered ==
    wakeup # 0 =>
        /\ listener \in {"checked", "counted"} => stream # wakeup
        /\ \A i \in 1..Len(queue) : queue[i] # wakeup
        /\ \A i \in 1..Len(delivered) : delivered[i] # wakeup

\* No accept() sleeps on a connection that is nobody's to take: while a call
\* sleeps, every queued connection is matched by a call about to look at the
\* queue or by a notification about to be sent. It is what notify_one, one per
\* connection, owes its callers when accepts overtake each other.
NoStrandedConnection ==
    Sleepers # {} =>
        Len(queue) <= Cardinality(Scanners)
                        + (IF listener = "pushed" THEN 1 ELSE 0)

\* Once stop has returned nothing of the generation is left: the thread is gone,
\* the socket is closed, the queue is empty and stays so, no address is
\* reported and no connection counts as live.
StoppedIsQuiescent ==
    owner = "stopped" =>
        /\ listener = "ended"
        /\ backlog = <<>>
        /\ queue = <<>>
        /\ ~actual_address
        /\ ~generation_live

\* The phase of the channel that callers of accept() see.
ChannelMode ==
    CASE owner \in {"created", "failed"} -> "new"
      [] owner = "started" -> "open"
      [] owner \in {"cleared", "stopped"} -> "closed"
      [] OTHER -> IF late = 0 THEN "closing" ELSE "sealed"

Channel == INSTANCE AcceptChannel
             WITH mode <- ChannelMode, pending <- queue, taken <- delivered

\* The listener thread, the queue, the Condvar and stop together implement the
\* channel accept() promises: in order, at most once, at most one late offer, and
\* nothing after stop has thrown the queue away.
ImplementsChannel == Channel!Spec

\* A connection that races with stop is queued only if the listener had looked
\* at the flag before: that is at most one connection.
AtMostOneLateAdmission == late <= 1

\* stop is in join() for a listener that is in accept(2), its own connect has failed
\* and nobody else's is there.
StopUnhelped ==
    owner = "notified" /\ listener = "incoming" /\ wakeup = Failed /\ backlog = <<>>

\* stop returns, since it gets the listener out of accept(2) and the join ends. The
\* result of its connect is ignored: when that failed, stop returns as soon as
\* anybody connects, or accept(2) fails, and waits for ever only if neither happens.
StopCompletes == (owner = "requested") ~> (owner = "stopped" \/ []StopUnhelped)

\* An accept() that is asleep while stop still has its notify_all to send is
\* released, whichever of the two notify_all calls reaches it.
SleepersReleased ==
    \A a \in Acceptors :
        (acceptor[a] = "waiting" /\ owner \in {"requested", "unlived", "woken"})
            ~> (acceptor[a] = "idle")

\* While a connection is queued no accept() sleeps for good.
QueuedConnectionWakes ==
    \A a \in Acceptors :
        (acceptor[a] = "waiting" /\ queue # <<>>)
            ~> (acceptor[a] # "waiting" \/ queue = <<>>)

\* "Stopping the owning Instance unblocks the wait and returns `Stopped`"
\* (transport.rs): once stop has returned, no accept() goes on waiting.
StopUnblocksAccept ==
    \A a \in Acceptors :
        (owner = "stopped" /\ acceptor[a] = "waiting") ~> (acceptor[a] # "waiting")
=============================================================================
