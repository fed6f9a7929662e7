------------------------------- MODULE FifoQueue -------------------------------
(***************************************************************************)
(* The in-memory realization of FifoQueue (packages/messaging/queue).      *)
(* Every operation is one critical section of the one mutex, and so one    *)
(* step; depth() only reads.                                               *)
(***************************************************************************)
EXTENDS Naturals, Sequences

CONSTANT Capacity  \* config.capacity: memory_queue() refuses 0

ASSUME CapacityAssumption == Capacity \in Nat \ {0}

VARIABLE messages  \* InMemoryQueueState.messages: the VecDeque

QueueInit == messages = <<>>

\* Mutant of Full: one message more than the capacity.
FullLate == Len(messages) > Capacity

Full == Len(messages) >= Capacity

\* Mutant of SendAccepted: push_front for push_back.
SendInFront(m) ==
    /\ ~Full
    /\ messages' = <<m>> \o messages

SendAccepted(m) ==
    /\ ~Full
    /\ messages' = Append(messages, m)

SendFull ==
    /\ Full
    /\ UNCHANGED messages

Receive(m) ==
    /\ messages # <<>>
    /\ m = Head(messages)
    /\ messages' = Tail(messages)
=============================================================================
