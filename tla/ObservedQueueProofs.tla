------------------------- MODULE ObservedQueueProofs -------------------------
(***************************************************************************)
(* Proofs about ObservedQueue, for any number of producers and readers,    *)
(* any capacity, any number of sends and any width of the counters.        *)
(***************************************************************************)
EXTENDS ObservedQueue, FiniteSetTheorems, SequenceTheorems, TLAPS

\* Whatever is still to be counted has been sent.
SendsInv == Uncounted <= Len(accepted) /\ Unfailed <= refused

\* What a reader has read is behind the counters, and what it read together with
\* what it has yet to read covers the sends finished when it began.
ReaderInv ==
    \A r \in Readers :
        /\ counts[r].successes <= successes
        /\ counts[r].failures <= failures
        /\ (successes < MaxValue /\ failures < MaxValue) =>
              finished[r] <= counts[r].successes
                  + (IF reader[r] = "between" THEN failures ELSE counts[r].failures)

Inv == TypeOK /\ FifoAndDestructive /\ SendsInv /\ EverySendCounted /\ ReaderInv
-----------------------------------------------------------------------------
\* An element that enters the second of two sequences enters both together.
LEMMA AppendMoves ==
  ASSUME NEW S, NEW s \in Seq(S), NEW t \in Seq(S), NEW e \in S
  PROVE  s \o Append(t, e) = Append(s \o t, e)
<1>1. <<e>> \in Seq(S) /\ s \o t \in Seq(S)
  BY ConcatProperties
<1>2. s \o (t \o <<e>>) = (s \o t) \o <<e>>
  BY <1>1, ConcatAssociative
<1> QED
  BY <1>1, <1>2, AppendIsConcat

\* One that goes from the head of the second to the end of the first stays.
LEMMA HeadMoves ==
  ASSUME NEW S, NEW s \in Seq(S), NEW t \in Seq(S), t # <<>>
  PROVE  Append(s, Head(t)) \o Tail(t) = s \o t
<1>1. Head(t) \in S /\ Tail(t) \in Seq(S) /\ <<Head(t)>> \in Seq(S)
  BY HeadTailProperties
<1>2. (s \o <<Head(t)>>) \o Tail(t) = s \o (<<Head(t)>> \o Tail(t))
  BY <1>1, ConcatAssociative
<1>3. <<Head(t)>> \o Tail(t) = t
  BY <1>1
<1>4. Append(s, Head(t)) = s \o <<Head(t)>>
  BY <1>1, AppendIsConcat
<1> QED
  BY <1>2, <1>3, <1>4

\* The waiting producers of a state are finitely many.
LEMMA WaitingFinite ==
  ASSUME NEW s
  PROVE  IsFiniteSet(Waiting(s)) /\ Cardinality(Waiting(s)) \in Nat
<1>1. Waiting(s) \subseteq Producers
  BY DEF Waiting
<1> QED
  BY <1>1, ObservedAssumption, FS_Subset, FS_CardinalityType

\* A producer that moves from one state to another is one less there and one
\* more here.
LEMMA WaitingMoves ==
  ASSUME producer \in [Producers -> {"idle", "accepted", "full"}],
         NEW CONSTANT p \in Producers, NEW CONSTANT from, NEW CONSTANT to,
         producer[p] = from, from # to,
         producer' = [producer EXCEPT ![p] = to]
  PROVE  /\ Cardinality(Waiting(to)') = Cardinality(Waiting(to)) + 1
         /\ Cardinality(Waiting(from)') = Cardinality(Waiting(from)) - 1
         /\ Cardinality(Waiting(from)) > 0
         /\ \A other : other # from /\ other # to => Waiting(other)' = Waiting(other)
<1>1. Waiting(to)' = Waiting(to) \cup {p} /\ p \notin Waiting(to)
  BY DEF Waiting
<1>2. Waiting(from)' = Waiting(from) \ {p} /\ p \in Waiting(from)
  BY DEF Waiting
<1>3. Cardinality(Waiting(to) \cup {p}) = Cardinality(Waiting(to)) + 1
  BY <1>1, WaitingFinite, FS_AddElement
<1>4. Cardinality(Waiting(from) \ {p}) = Cardinality(Waiting(from)) - 1
  BY <1>2, WaitingFinite, FS_RemoveElement
<1>5. Cardinality(Waiting(from)) > 0
  BY <1>2, WaitingFinite, FS_EmptySet
<1>6. \A other : other # from /\ other # to => Waiting(other)' = Waiting(other)
  BY DEF Waiting
<1> QED
  BY <1>1, <1>2, <1>3, <1>4, <1>5, <1>6

\* The sends to be counted are a number.
LEMMA UncountedNat == Uncounted \in Nat /\ Unfailed \in Nat
  BY WaitingFinite DEF Uncounted, Unfailed

\* Sending and counting move a producer between idle and one of the two others.
LEMMA ProducerMoves ==
  ASSUME producer \in [Producers -> {"idle", "accepted", "full"}],
         NEW CONSTANT p \in Producers, NEW CONSTANT s \in {"accepted", "full"}
  PROVE  /\ producer[p] = "idle" /\ producer' = [producer EXCEPT ![p] = s] =>
               /\ Uncounted' = IF s = "accepted" THEN Uncounted + 1 ELSE Uncounted
               /\ Unfailed' = IF s = "full" THEN Unfailed + 1 ELSE Unfailed
         /\ producer[p] = s /\ producer' = [producer EXCEPT ![p] = "idle"] =>
               /\ Uncounted' = IF s = "accepted" THEN Uncounted - 1 ELSE Uncounted
               /\ Unfailed' = IF s = "full" THEN Unfailed - 1 ELSE Unfailed
               /\ IF s = "accepted" THEN Uncounted > 0 ELSE Unfailed > 0
<1>1. ASSUME producer[p] = "idle", producer' = [producer EXCEPT ![p] = s]
      PROVE  /\ Cardinality(Waiting(s)') = Cardinality(Waiting(s)) + 1
             /\ \A other : other # "idle" /\ other # s => Waiting(other)' = Waiting(other)
  <2>1. "idle" # s
    OBVIOUS
  <2>2. Cardinality(Waiting(s)') = Cardinality(Waiting(s)) + 1
    BY <1>1, <2>1, WaitingMoves
  <2>3. \A other : other # "idle" /\ other # s => Waiting(other)' = Waiting(other)
    BY <1>1 DEF Waiting
  <2> QED
    BY <2>2, <2>3
<1>2. ASSUME producer[p] = s, producer' = [producer EXCEPT ![p] = "idle"]
      PROVE  /\ Cardinality(Waiting(s)') = Cardinality(Waiting(s)) - 1
             /\ Cardinality(Waiting(s)) > 0
             /\ \A other : other # s /\ other # "idle" => Waiting(other)' = Waiting(other)
  <2>1. Cardinality(Waiting(s)') = Cardinality(Waiting(s)) - 1
    BY <1>2, WaitingMoves
  <2>2. Cardinality(Waiting(s)) > 0
    BY <1>2, WaitingMoves
  <2>3. \A other : other # s /\ other # "idle" => Waiting(other)' = Waiting(other)
    BY <1>2 DEF Waiting
  <2> QED
    BY <2>1, <2>2, <2>3
<1>3. CASE s = "accepted"
  BY <1>1, <1>2, <1>3 DEF Uncounted, Unfailed
<1>4. CASE s = "full"
  BY <1>1, <1>2, <1>4 DEF Uncounted, Unfailed
<1> QED
  BY <1>3, <1>4

\* Idle producers and waiting ones are all of them, each in one place.
LEMMA WaitingParts ==
  ASSUME TypeOK
  PROVE  Cardinality(Producers \ Waiting("idle")) = Uncounted + Unfailed
<1>1. Producers \ Waiting("idle") = Waiting("accepted") \cup Waiting("full")
  BY DEF TypeOK, Waiting
<1>2. Waiting("accepted") \cap Waiting("full") = {}
  BY DEF Waiting
<1>3. Cardinality(Waiting("accepted") \cap Waiting("full")) = 0
  BY <1>2, FS_EmptySet
<1>4. /\ IsFiniteSet(Waiting("accepted")) /\ IsFiniteSet(Waiting("full"))
      /\ Cardinality(Waiting("accepted")) \in Nat /\ Cardinality(Waiting("full")) \in Nat
  BY WaitingFinite
<1>5. Cardinality(Waiting("accepted") \cup Waiting("full"))
        = Cardinality(Waiting("accepted")) + Cardinality(Waiting("full"))
            - Cardinality(Waiting("accepted") \cap Waiting("full"))
  BY <1>4, FS_Union
<1>6. Cardinality(Producers \ Waiting("idle"))
        = Cardinality(Waiting("accepted") \cup Waiting("full"))
  BY <1>1, Zenon
<1>7. Cardinality(Waiting("accepted") \cup Waiting("full")) = Uncounted + Unfailed
  BY <1>3, <1>4, <1>5 DEF Uncounted, Unfailed
<1> QED
  BY <1>6, <1>7, Zenon
-----------------------------------------------------------------------------
\* Nothing was sent, counted or read.
LEMMA InitInv == Init => Inv
<1> SUFFICES ASSUME Init PROVE Inv
  OBVIOUS
<1> USE ObservedAssumption, CapacityAssumption DEF Init, QueueInit
<1>1. TypeOK
  BY DEF TypeOK
<1>2. FifoAndDestructive
  BY DEF FifoAndDestructive
<1>3. Waiting("accepted") = {} /\ Waiting("full") = {}
  BY DEF Waiting
<1>4. Uncounted = 0 /\ Unfailed = 0
  BY <1>3, FS_EmptySet DEF Uncounted, Unfailed
<1>5. SendsInv /\ EverySendCounted
  BY <1>4 DEF SendsInv, EverySendCounted, UpTo
<1>6. ReaderInv
  BY DEF ReaderInv
<1> QED
  BY <1>1, <1>2, <1>5, <1>6 DEF Inv

\* A send moves the queue and the history together, and leaves one send uncounted.
LEMMA SendInv ==
  ASSUME Inv, NEW p \in Producers, Send(p)
  PROVE  Inv'
<1> USE ObservedAssumption, CapacityAssumption DEF Inv
<1>1. /\ producer[p] = "idle" /\ sends[p] < MaxSends
      /\ sends' = [sends EXCEPT ![p] = @ + 1]
      /\ UNCHANGED <<successes, failures, reader, counts, finished, received>>
  BY DEF Send, countVars, readerVars
<1>2. <<p, sends[p] + 1>> \in Messages
  BY <1>1 DEF TypeOK, Messages
<1>3. CASE SendAccepted(<<p, sends[p] + 1>>) /\ producer' = [producer EXCEPT ![p] = "accepted"]
           /\ accepted' = Append(accepted, <<p, sends[p] + 1>>) /\ refused' = refused
  <2>1. TypeOK'
    BY <1>1, <1>2, <1>3 DEF TypeOK, SendAccepted, Full
  <2>2. FifoAndDestructive'
    <3>1. received \in Seq(Messages) /\ messages \in Seq(Messages)
      BY DEF TypeOK
    <3>2. received \o Append(messages, <<p, sends[p] + 1>>)
             = Append(received \o messages, <<p, sends[p] + 1>>)
      BY <1>2, <3>1, AppendMoves
    <3> QED
      BY <1>1, <1>3, <3>2 DEF FifoAndDestructive, SendAccepted
  <2>3. Len(accepted') = Len(accepted) + 1
    BY <1>2, <1>3 DEF TypeOK
  <2>4. Uncounted' = Uncounted + 1 /\ Unfailed' = Unfailed
    BY <1>1, <1>3, ProducerMoves DEF TypeOK
  <2>5. SendsInv' /\ EverySendCounted'
    BY <1>1, <1>3, <2>3, <2>4, UncountedNat
       DEF SendsInv, EverySendCounted, TypeOK, UpTo
  <2>6. ReaderInv'
    BY <1>1 DEF ReaderInv
  <2> QED
    BY <2>1, <2>2, <2>5, <2>6
<1>4. CASE SendFull /\ producer' = [producer EXCEPT ![p] = "full"]
           /\ accepted' = accepted /\ refused' = refused + 1
  <2>1. TypeOK'
    BY <1>1, <1>4 DEF TypeOK, SendFull
  <2>2. FifoAndDestructive'
    BY <1>1, <1>4 DEF FifoAndDestructive, SendFull
  <2>3. Uncounted' = Uncounted /\ Unfailed' = Unfailed + 1
    BY <1>1, <1>4, ProducerMoves DEF TypeOK
  <2>4. SendsInv' /\ EverySendCounted'
    BY <1>1, <1>4, <2>3, UncountedNat
       DEF SendsInv, EverySendCounted, TypeOK, UpTo
  <2>5. ReaderInv'
    BY <1>1 DEF ReaderInv
  <2> QED
    BY <2>1, <2>2, <2>4, <2>5
<1> QED
  BY <1>3, <1>4 DEF Send

\* A count moves one counter, or none that is full, and settles one send.
LEMMA CountInv ==
  ASSUME Inv, NEW p \in Producers, Count(p)
  PROVE  Inv'
<1> USE ObservedAssumption, CapacityAssumption DEF Inv
<1>1. /\ producer' = [producer EXCEPT ![p] = "idle"]
      /\ UNCHANGED <<messages, sends, reader, counts, finished, accepted, refused, received>>
  BY DEF Count, readerVars, historyVars
<1>2. FifoAndDestructive'
  BY <1>1 DEF FifoAndDestructive
<1>3. CASE producer[p] = "accepted" /\ successes' = Incremented(successes)
           /\ failures' = failures
  <2>1. TypeOK' /\ successes <= successes'
    BY <1>1, <1>3 DEF TypeOK, Incremented
  <2>2. Uncounted' = Uncounted - 1 /\ Unfailed' = Unfailed /\ Uncounted > 0
    BY <1>1, <1>3, ProducerMoves DEF TypeOK
  <2>3. SendsInv' /\ EverySendCounted'
    BY <1>1, <1>3, <2>2, UncountedNat
       DEF SendsInv, EverySendCounted, TypeOK, UpTo, Incremented
  <2>4. ReaderInv'
    BY <1>1, <1>3, <2>1 DEF ReaderInv, TypeOK
  <2> QED
    BY <1>2, <2>1, <2>3, <2>4
<1>4. CASE producer[p] = "full" /\ failures' = Incremented(failures)
           /\ successes' = successes
  <2>1. TypeOK' /\ failures <= failures'
    BY <1>1, <1>4 DEF TypeOK, Incremented
  <2>2. Unfailed' = Unfailed - 1 /\ Uncounted' = Uncounted /\ Unfailed > 0
    BY <1>1, <1>4, ProducerMoves DEF TypeOK
  <2>3. SendsInv' /\ EverySendCounted'
    BY <1>1, <1>4, <2>2, UncountedNat
       DEF SendsInv, EverySendCounted, TypeOK, UpTo, Incremented
  <2>4. ReaderInv'
    BY <1>1, <1>4, <2>1 DEF ReaderInv, TypeOK
  <2> QED
    BY <1>2, <2>1, <2>3, <2>4
<1> QED
  BY <1>3, <1>4 DEF Count

\* A receive takes the head of the queue to the end of what was received.
LEMMA ReceiveInv ==
  ASSUME Inv, TryReceive
  PROVE  Inv'
<1> USE ObservedAssumption, CapacityAssumption DEF Inv
<1>1. /\ messages # <<>> /\ messages' = Tail(messages)
      /\ received' = Append(received, Head(messages))
      /\ UNCHANGED <<successes, failures, producer, sends, reader, counts, finished,
                     accepted, refused>>
  BY DEF TryReceive, Receive, countVars, senderVars, readerVars
<1>2. TypeOK'
  BY <1>1 DEF TypeOK
<1>3. FifoAndDestructive'
  BY <1>1, HeadMoves DEF FifoAndDestructive, TypeOK
<1>4. SendsInv' /\ EverySendCounted'
  BY <1>1 DEF SendsInv, EverySendCounted, Uncounted, Unfailed, Waiting
<1>5. ReaderInv'
  BY <1>1 DEF ReaderInv
<1> QED
  BY <1>2, <1>3, <1>4, <1>5

\* The first read takes the count of what has finished; the second completes it.
LEMMA ReadInv ==
  ASSUME Inv, NEW r \in Readers, ReadSuccesses(r) \/ ReadFailures(r)
  PROVE  Inv'
<1> USE ObservedAssumption, CapacityAssumption DEF Inv
<1>1. UNCHANGED <<messages, successes, failures, producer, sends, accepted, refused, received>>
  BY DEF ReadSuccesses, ReadFailures, countVars, senderVars, historyVars
<1>2. FifoAndDestructive' /\ SendsInv' /\ EverySendCounted'
  BY <1>1 DEF FifoAndDestructive, SendsInv, EverySendCounted, Uncounted, Unfailed, Waiting
<1>3. CASE ReadSuccesses(r)
  <2> DEFINE f == Len(accepted) + refused - (Uncounted + Unfailed)
  <2>1. finished' = [finished EXCEPT ![r] = f]
    BY <1>3, WaitingParts DEF ReadSuccesses
  <2>2. f \in Nat
    BY UncountedNat DEF SendsInv, TypeOK
  <2>3. (successes < MaxValue /\ failures < MaxValue) => f <= successes + failures
    <3>1. /\ Len(accepted) \in Nat /\ refused \in Nat
          /\ Len(accepted) - Uncounted \in Nat /\ refused - Unfailed \in Nat
      BY UncountedNat DEF SendsInv, TypeOK
    <3>2. successes < MaxValue => successes = Len(accepted) - Uncounted
      BY <3>1 DEF EverySendCounted, UpTo
    <3>3. failures < MaxValue => failures = refused - Unfailed
      BY <3>1 DEF EverySendCounted, UpTo
    <3> QED
      BY <3>1, <3>2, <3>3, UncountedNat
  <2> HIDE DEF f
  <2>4. TypeOK'
    BY <1>1, <1>3, <2>1, <2>2 DEF TypeOK, ReadSuccesses
  <2>5. ReaderInv'
    BY <1>1, <1>3, <2>1, <2>2, <2>3 DEF ReaderInv, TypeOK, ReadSuccesses
  <2> QED
    BY <1>2, <2>4, <2>5
<1>4. CASE ReadFailures(r)
  <2>1. TypeOK'
    BY <1>1, <1>4 DEF TypeOK, ReadFailures
  <2>2. ReaderInv'
    BY <1>1, <1>4 DEF ReaderInv, TypeOK, ReadFailures
  <2> QED
    BY <1>2, <2>1, <2>2
<1> QED
  BY <1>3, <1>4

\* Every step preserves the invariant.
LEMMA NextInv == Inv /\ [Next]_vars => Inv'
<1> SUFFICES ASSUME Inv, [Next]_vars PROVE Inv'
  OBVIOUS
<1>1. CASE UNCHANGED vars
  BY <1>1 DEF vars, Inv, TypeOK, FifoAndDestructive, SendsInv, EverySendCounted, ReaderInv,
              Uncounted, Unfailed, Waiting
<1> QED
  BY <1>1, SendInv, CountInv, ReceiveInv, ReadInv DEF Next
-----------------------------------------------------------------------------
\* The invariant holds in every reachable state.
THEOREM Invariance == Spec => []Inv
<1> QED
  BY InitInv, NextInv, PTL DEF Spec

\* Every variable keeps its type, the queue its capacity.
THEOREM TypeCorrect == Spec => []TypeOK
<1> QED
  BY Invariance, PTL DEF Inv

\* Messages are received once, and in the order in which they were accepted.
THEOREM QueueIsFifo == Spec => []FifoAndDestructive
<1> QED
  BY Invariance, PTL DEF Inv

\* No send is lost to the counters, or counted twice or on the wrong one.
THEOREM SendsAreCounted == Spec => []EverySendCounted
<1> QED
  BY Invariance, PTL DEF Inv

\* What a reader is told misses no finished send and invents none.
THEOREM CountsRecent == Spec => []CountsAreRecent
<1>1. Inv => CountsAreRecent
  <2> SUFFICES ASSUME Inv, NEW r \in Readers, reader[r] = "idle",
                      successes < MaxValue, failures < MaxValue
               PROVE  /\ finished[r] <= counts[r].successes + counts[r].failures
                      /\ counts[r].successes + counts[r].failures
                           <= Len(accepted) + refused
    BY DEF CountsAreRecent
  <2>1. finished[r] <= counts[r].successes + counts[r].failures
    BY DEF Inv, ReaderInv
  <2>2. successes <= Len(accepted) /\ failures <= refused
    BY UncountedNat, ObservedAssumption
       DEF Inv, EverySendCounted, SendsInv, UpTo, TypeOK
  <2>3. counts[r].successes <= successes /\ counts[r].failures <= failures
    BY DEF Inv, ReaderInv
  <2>4. /\ counts[r].successes \in Nat /\ counts[r].failures \in Nat
        /\ successes \in Nat /\ failures \in Nat /\ Len(accepted) \in Nat /\ refused \in Nat
    BY ObservedAssumption DEF Inv, TypeOK
  <2> QED
    BY <2>1, <2>2, <2>3, <2>4
<1> QED
  BY <1>1, Invariance, PTL
=============================================================================
