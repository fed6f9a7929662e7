---------------------------- MODULE AcceptChannel ----------------------------
(***************************************************************************)
(* What accept() of a TcpByteStreamTransport promises its callers, without *)
(* threads, mutex, Condvar or sockets: a channel of connections, numbered  *)
(* by arrival, that is opened once and closed once.  While it is open      *)
(* connections are offered in order and taken in order, each at most once. *)
(* Closing races with one offer: that one may still get in.  A closed      *)
(* channel discards what was not taken and yields nothing more.            *)
(***************************************************************************)
EXTENDS Naturals, Sequences

CONSTANT Connections  \* natural numbers: n < m says that n arrived before m

VARIABLES
    mode,     \* "new", "open", "closing", "sealed" (the late offer is in), "closed"
    pending,  \* offered, not yet taken
    taken     \* taken so far, in order

vars == <<mode, pending, taken>>

Init == mode = "new" /\ pending = <<>> /\ taken = <<>>

Open == mode = "new" /\ mode' = "open" /\ UNCHANGED <<pending, taken>>

\* A connection is younger than every one offered before.
Younger(n) ==
    /\ \A i \in 1..Len(taken) : taken[i] < n
    /\ \A i \in 1..Len(pending) : pending[i] < n

Offer ==
    /\ \/ mode = "open" /\ mode' = "open"
       \/ mode = "closing" /\ mode' = "sealed"
    /\ \E n \in Connections : Younger(n) /\ pending' = Append(pending, n)
    /\ UNCHANGED taken

Take ==
    /\ pending # <<>>
    /\ taken' = Append(taken, Head(pending))
    /\ pending' = Tail(pending)
    /\ UNCHANGED mode

Close == mode = "open" /\ mode' = "closing" /\ UNCHANGED <<pending, taken>>

Discard ==
    /\ mode \in {"closing", "sealed"}
    /\ mode' = "closed"
    /\ pending' = <<>>
    /\ UNCHANGED taken

Next == Open \/ Offer \/ Take \/ Close \/ Discard

Spec == Init /\ [][Next]_vars
=============================================================================
