----------------------------- MODULE ObservedQueue -----------------------------
(***************************************************************************)
(* The observed queue (examples/observed-queue): producers that send and   *)
(* count what became of it on one of two counters, consumers that receive, *)
(* and readers of the two counts, all at once.                             *)
(*                                                                         *)
(* The queue is module FifoQueue.  An operation of a counter is one step,  *)
(* as AtomicCounter has it and the loop of module Counter implements it.   *)
(***************************************************************************)
EXTENDS FifoQueue, FiniteSets

CONSTANTS
    Producers,  \* the threads that call send_observed()
    Readers,    \* the threads that call observed_counts()
    MaxSends,   \* bound: the calls of each producer
    MaxValue    \* u64::MAX, where a counter refuses to go on

ASSUME ObservedAssumption ==
    /\ IsFiniteSet(Producers)
    /\ MaxSends \in Nat /\ MaxValue \in Nat

VARIABLES
    successes,  \* the counter "successful-sends"
    failures,   \* the counter "failed-sends"
    producer,   \* where each producer is: "idle", "accepted", "full"
    sends,      \* the calls each producer has made
    reader,     \* where each reader is: "idle", "between"
    counts,     \* ObservedQueueCounts: what each reader has read, or read last
    accepted,   \* history: the messages accepted, in order
    refused,    \* history: the number of sends refused
    received,   \* history: the messages received, in order
    finished    \* history: for each reader, the sends finished when it began

countVars   == <<successes, failures>>
senderVars  == <<producer, sends>>
readerVars  == <<reader, counts, finished>>
historyVars == <<accepted, refused, received>>
vars == <<messages, successes, failures, producer, sends, reader, counts, accepted,
          refused, received, finished>>

Messages == Producers \X (1..MaxSends)

Init ==
    /\ QueueInit
    /\ successes = 0
    /\ failures = 0
    /\ producer = [p \in Producers |-> "idle"]
    /\ sends = [p \in Producers |-> 0]
    /\ reader = [r \in Readers |-> "idle"]
    /\ counts = [r \in Readers |-> [successes |-> 0, failures |-> 0]]
    /\ accepted = <<>>
    /\ refused = 0
    /\ received = <<>>
    /\ finished = [r \in Readers |-> 0]
-----------------------------------------------------------------------------
(* send_observed(). *)

Send(p) ==
    /\ producer[p] = "idle"
    /\ sends[p] < MaxSends
    /\ sends' = [sends EXCEPT ![p] = @ + 1]
    /\ LET m == <<p, sends[p] + 1>> IN
       \/ /\ SendAccepted(m)
          /\ producer' = [producer EXCEPT ![p] = "accepted"]
          /\ accepted' = Append(accepted, m)
          /\ UNCHANGED refused
       \/ /\ SendFull
          /\ producer' = [producer EXCEPT ![p] = "full"]
          /\ refused' = refused + 1
          /\ UNCHANGED accepted
    /\ UNCHANGED <<countVars, readerVars, received>>

\* increment(1): a counter at its end says Overflow, which send_observed drops.
Incremented(n) == IF n < MaxValue THEN n + 1 ELSE n

\* Mutant of Count: every send counts as a success.
CountSuccess(p) ==
    /\ producer[p] # "idle"
    /\ successes' = Incremented(successes)
    /\ producer' = [producer EXCEPT ![p] = "idle"]
    /\ UNCHANGED <<messages, failures, sends, readerVars, historyVars>>

Count(p) ==
    /\ \/ /\ producer[p] = "accepted"
          /\ successes' = Incremented(successes)
          /\ UNCHANGED failures
       \/ /\ producer[p] = "full"
          /\ failures' = Incremented(failures)
          /\ UNCHANGED successes
    /\ producer' = [producer EXCEPT ![p] = "idle"]
    /\ UNCHANGED <<messages, sends, readerVars, historyVars>>
-----------------------------------------------------------------------------
(* try_receive() of some consumer; on an empty queue it changes nothing. *)

TryReceive ==
    /\ \E p \in Producers, i \in 1..MaxSends :
          Receive(<<p, i>>) /\ received' = Append(received, <<p, i>>)
    /\ UNCHANGED <<countVars, senderVars, readerVars, accepted, refused>>
-----------------------------------------------------------------------------
(* observed_counts(): the two counters, one after the other. *)

Waiting(state) == {p \in Producers : producer[p] = state}

ReadSuccesses(r) ==
    /\ reader[r] = "idle"
    /\ reader' = [reader EXCEPT ![r] = "between"]
    /\ counts' = [counts EXCEPT ![r].successes = successes]
    /\ finished' = [finished EXCEPT ![r] =
           Len(accepted) + refused - Cardinality(Producers \ Waiting("idle"))]
    /\ UNCHANGED <<messages, countVars, senderVars, historyVars>>

\* Mutant of ReadFailures: the failures that were read before are good enough.
ReadFailuresStale(r) ==
    /\ reader[r] = "between"
    /\ reader' = [reader EXCEPT ![r] = "idle"]
    /\ UNCHANGED <<messages, countVars, senderVars, counts, finished, historyVars>>

ReadFailures(r) ==
    /\ reader[r] = "between"
    /\ reader' = [reader EXCEPT ![r] = "idle"]
    /\ counts' = [counts EXCEPT ![r].failures = failures]
    /\ UNCHANGED <<messages, countVars, senderVars, finished, historyVars>>

Next ==
    \/ \E p \in Producers : Send(p) \/ Count(p)
    \/ TryReceive
    \/ \E r \in Readers : ReadSuccesses(r) \/ ReadFailures(r)

Spec == Init /\ [][Next]_vars
-----------------------------------------------------------------------------
(* Properties. *)

\* Every variable has its type, and the queue keeps to its capacity.
TypeOK ==
    /\ messages \in Seq(Messages) /\ Len(messages) <= Capacity
    /\ successes \in 0..MaxValue /\ failures \in 0..MaxValue
    /\ producer \in [Producers -> {"idle", "accepted", "full"}]
    /\ sends \in [Producers -> 0..MaxSends]
    /\ reader \in [Readers -> {"idle", "between"}]
    /\ counts \in [Readers -> [successes : 0..MaxValue, failures : 0..MaxValue]]
    /\ accepted \in Seq(Messages)
    /\ refused \in Nat
    /\ received \in Seq(Messages)
    /\ finished \in [Readers -> Nat]

\* "returned in FIFO order", and "destructive receive": what consumers receive
\* and what is left in the queue is what was accepted, in that order.
FifoAndDestructive == received \o messages = accepted

\* The sends whose producer has not come to its counter yet.
Uncounted == Cardinality(Waiting("accepted"))
Unfailed  == Cardinality(Waiting("full"))

UpTo(n) == IF n <= MaxValue THEN n ELSE MaxValue

\* The counters are behind the queue by the sends whose producer has yet to count
\* them, and by nothing else, up to where a counter is full.
EverySendCounted ==
    /\ successes = UpTo(Len(accepted) - Uncounted)
    /\ failures = UpTo(refused - Unfailed)

\* What observed_counts() returns is not a state the counters were ever in, but
\* it misses no send that had finished when it began and reports none that was
\* not made by its end, as long as no counter is full.
CountsAreRecent ==
    \A r \in Readers :
        LET total == counts[r].successes + counts[r].failures IN
        (reader[r] = "idle" /\ successes < MaxValue /\ failures < MaxValue) =>
            finished[r] <= total /\ total <= Len(accepted) + refused
=============================================================================
