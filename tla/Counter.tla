------------------------------- MODULE Counter -------------------------------
(***************************************************************************)
(* InMemoryCounter (packages/observability/counter/src/memory.rs): an      *)
(* AtomicU64 that concurrent callers increment with a compare-and-exchange *)
(* loop.  A load and a compare_exchange are one step each; everything      *)
(* between two of them is local to the caller.  compare_exchange is the    *)
(* strong one: it fails only when it observed another value.               *)
(***************************************************************************)
EXTENDS Naturals

CONSTANTS
    Callers,  \* the threads that use one occurrence of the counter
    Amounts,  \* what they add
    MaxValue  \* u64::MAX

ASSUME ValuesAssumption == MaxValue \in Nat /\ Amounts \subseteq 0..MaxValue

VARIABLES
    value,    \* InMemoryCounterState.value
    pc,       \* where each caller is: "idle", "load", "exchange", "return"
    amount,   \* the argument of increment()
    current,  \* the local of increment()
    reply,    \* the last result of each caller
    credited  \* history: the sum of the amounts of the increments told Updated

vars == <<value, pc, amount, current, reply, credited>>

None == [kind |-> "none", value |-> 0]

Init ==
    /\ value = 0
    /\ pc = [c \in Callers |-> "idle"]
    /\ amount = [c \in Callers |-> 0]
    /\ current = [c \in Callers |-> 0]
    /\ reply = [c \in Callers |-> None]
    /\ credited = 0

Goto(c, label) == pc' = [pc EXCEPT ![c] = label]
Reply(c, k, v) == reply' = [reply EXCEPT ![c] = [kind |-> k, value |-> v]]

\* current()
Current(c) ==
    /\ pc[c] = "idle"
    /\ Reply(c, "Current", value)
    /\ UNCHANGED <<value, pc, amount, current, credited>>

\* increment(amount) is called.
Increment(c) ==
    /\ pc[c] = "idle"
    /\ Goto(c, "load")
    /\ \E n \in Amounts : amount' = [amount EXCEPT ![c] = n]
    /\ reply' = [reply EXCEPT ![c] = None]
    /\ UNCHANGED <<value, current, credited>>

Load(c) ==
    /\ pc[c] = "load"
    /\ Goto(c, "exchange")
    /\ current' = [current EXCEPT ![c] = value]
    /\ UNCHANGED <<value, amount, reply, credited>>

\* Mutant of Overflows: >= for >.
OverflowsEarly(c) == current[c] + amount[c] >= MaxValue

\* checked_add has no result.
Overflows(c) == current[c] + amount[c] > MaxValue

Overflow(c) ==
    /\ pc[c] = "exchange"
    /\ Overflows(c)
    /\ Goto(c, "return")
    /\ Reply(c, "Overflow", current[c])
    /\ UNCHANGED <<value, amount, current, credited>>

\* Mutant of Exchange: a store in the place of compare_exchange.
Store(c) ==
    /\ pc[c] = "exchange"
    /\ ~Overflows(c)
    /\ value' = current[c] + amount[c]
    /\ Goto(c, "return")
    /\ Reply(c, "Updated", current[c] + amount[c])
    /\ credited' = credited + amount[c]
    /\ UNCHANGED <<amount, current>>

\* Mutant of Exchange: a call that lost the race tries the same value again.
ExchangeStubborn(c) ==
    /\ pc[c] = "exchange"
    /\ ~Overflows(c)
    /\ value = current[c]
    /\ value' = current[c] + amount[c]
    /\ Goto(c, "return")
    /\ Reply(c, "Updated", current[c] + amount[c])
    /\ credited' = credited + amount[c]
    /\ UNCHANGED <<amount, current>>

\* compare_exchange(current, next): Ok, or Err(observed) and another turn.
Exchange(c) ==
    /\ pc[c] = "exchange"
    /\ ~Overflows(c)
    /\ \/ /\ value = current[c]
          /\ value' = current[c] + amount[c]
          /\ Goto(c, "return")
          /\ Reply(c, "Updated", current[c] + amount[c])
          /\ credited' = credited + amount[c]
          /\ UNCHANGED current
       \/ /\ value # current[c]
          /\ current' = [current EXCEPT ![c] = value]
          /\ UNCHANGED <<value, pc, reply, credited>>
    /\ UNCHANGED amount

\* The result reaches the caller; the local goes out of scope.
Return(c) ==
    /\ pc[c] = "return"
    /\ Goto(c, "idle")
    /\ current' = [current EXCEPT ![c] = 0]
    /\ UNCHANGED <<value, amount, reply, credited>>

Step(c) == Load(c) \/ Overflow(c) \/ Exchange(c) \/ Return(c)

Next == \E c \in Callers : Current(c) \/ Increment(c) \/ Step(c)

Spec == Init /\ [][Next]_vars

\* A call in progress goes on; nobody has to make one.
FairSpec == Spec /\ \A c \in Callers : WF_vars(Step(c))
-----------------------------------------------------------------------------
(* Properties. *)

\* Every variable has its type: nothing passes the width of the counter.
TypeOK ==
    /\ value \in 0..MaxValue
    /\ pc \in [Callers -> {"idle", "load", "exchange", "return"}]
    /\ amount \in [Callers -> 0..MaxValue]
    /\ current \in [Callers -> 0..MaxValue]
    /\ reply \in [Callers -> [kind : {"none", "Current", "Updated", "Overflow"},
                              value : 0..MaxValue]]
    /\ credited \in Nat

\* "successful increments are not lost": the counter is the sum of the amounts
\* of all the calls that were, or are about to be, told Updated.
NoIncrementLost == value = credited

\* An Overflow is never a false alarm, however old the value the call looked at:
\* the increment does not fit when it is refused, nor ever after.
OverflowIsFinal ==
    \A c \in Callers :
        reply[c].kind = "Overflow" =>
            reply[c].value <= value /\ reply[c].value + amount[c] > MaxValue

\* A call takes effect when its exchange succeeds, or when it observes a value
\* that its amount does not fit on top of, a step or more before it says so.
Refused(c) == pc[c] = "exchange" /\ Overflows(c)

Status == [c \in Callers |->
              IF pc[c] = "idle" THEN "idle"
              ELSE IF pc[c] = "return" \/ Refused(c) THEN "done" ELSE "pending"]

Told == [c \in Callers |->
            IF Refused(c) THEN [kind |-> "Overflow", value |-> current[c]]
                          ELSE reply[c]]

Atomic == INSTANCE AtomicCounter WITH status <- Status, reply <- Told

\* The loop of increment() is linearizable: it implements the atomic counter.
ImplementsAtomicCounter == Atomic!Spec

\* Every call returns, however often it loses the race: each loss means that the
\* counter has grown, and it can only grow so far.
IncrementReturns == \A c \in Callers : (pc[c] = "load") ~> (pc[c] = "idle")
=============================================================================
