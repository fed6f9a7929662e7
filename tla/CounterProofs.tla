---------------------------- MODULE CounterProofs ----------------------------
(***************************************************************************)
(* Proofs about Counter, for any set of callers, any amounts and any width *)
(* of the counter.                                                         *)
(***************************************************************************)
EXTENDS Counter, TLAPS

\* The value a call goes on from is never ahead of the counter.
CurrentBehind == \A c \in Callers : pc[c] = "exchange" => current[c] <= value

Inv == TypeOK /\ NoIncrementLost /\ OverflowIsFinal /\ CurrentBehind

\* The initial state satisfies the invariant: nobody has called anything.
LEMMA InitInv == Init => Inv
<1> SUFFICES ASSUME Init PROVE Inv
  OBVIOUS
<1>1. TypeOK
  BY ValuesAssumption DEF Init, TypeOK, None
<1> QED
  BY <1>1 DEF Init, Inv, NoIncrementLost, OverflowIsFinal, CurrentBehind, None

\* Every step of every caller preserves the invariant, the exchange because it
\* succeeds only on the value it was computed from.
LEMMA NextInv == Inv /\ [Next]_vars => Inv'
<1> SUFFICES ASSUME Inv, [Next]_vars PROVE Inv'
  OBVIOUS
<1> USE DEF Inv, TypeOK, NoIncrementLost, OverflowIsFinal, CurrentBehind
<1>1. ASSUME NEW c \in Callers, Current(c) PROVE Inv'
  BY <1>1 DEF Current, Reply
<1>2. ASSUME NEW c \in Callers, Increment(c) PROVE Inv'
  <2> PICK n \in Amounts : amount' = [amount EXCEPT ![c] = n]
    BY <1>2 DEF Increment
  <2>1. n \in 0..MaxValue
    BY ValuesAssumption
  <2> QED
    BY <1>2, <2>1, ValuesAssumption DEF Increment, Goto, None
<1>3. ASSUME NEW c \in Callers, Load(c) PROVE Inv'
  BY <1>3 DEF Load, Goto
<1>4. ASSUME NEW c \in Callers, Overflow(c) PROVE Inv'
  BY <1>4 DEF Overflow, Overflows, Goto, Reply
<1>5. ASSUME NEW c \in Callers, Exchange(c) PROVE Inv'
  <2>1. CASE value = current[c]
    <3>1. value' = current[c] + amount[c] /\ value' \in 0..MaxValue /\ value' >= value
      BY <1>5, <2>1, ValuesAssumption DEF Exchange, Overflows
    <3>2. /\ credited' = credited + amount[c]
          /\ UNCHANGED <<current, amount>>
          /\ pc' = [pc EXCEPT ![c] = "return"]
          /\ reply' = [reply EXCEPT ![c] = [kind |-> "Updated", value |-> value']]
      BY <1>5, <2>1, <3>1 DEF Exchange, Goto, Reply
    <3>3. TypeOK'
      BY <3>1, <3>2
    <3>4. OverflowIsFinal'
      BY <3>1, <3>2, ValuesAssumption
    <3>5. CurrentBehind'
      BY <3>1, <3>2, ValuesAssumption
    <3> QED
      BY <2>1, <3>1, <3>2, <3>3, <3>4, <3>5
  <2>2. CASE value # current[c]
    <3>1. current' = [current EXCEPT ![c] = value] /\ UNCHANGED <<value, pc, amount, reply, credited>>
      BY <1>5, <2>2 DEF Exchange
    <3>2. TypeOK'
      BY <3>1
    <3>3. NoIncrementLost' /\ OverflowIsFinal'
      BY <3>1
    <3>4. CurrentBehind'
      BY <3>1, ValuesAssumption
    <3> QED
      BY <3>2, <3>3, <3>4
  <2> QED
    BY <2>1, <2>2
<1>6. ASSUME NEW c \in Callers, Return(c) PROVE Inv'
  BY <1>6, ValuesAssumption DEF Return, Goto
<1>7. CASE UNCHANGED vars
  BY <1>7 DEF vars
<1> QED
  BY <1>1, <1>2, <1>3, <1>4, <1>5, <1>6, <1>7 DEF Next, Step

\* The invariant holds in every reachable state.
THEOREM Invariance == Spec => []Inv
<1> QED
  BY InitInv, NextInv, PTL DEF Spec

\* Every variable keeps its type, the counter its width.
THEOREM TypeCorrect == Spec => []TypeOK
<1> QED
  BY Invariance, PTL DEF Inv

\* No increment that was told Updated is missing from the counter.
THEOREM IncrementsAreKept == Spec => []NoIncrementLost
<1> QED
  BY Invariance, PTL DEF Inv

\* An increment that was refused does not fit, then or later.
THEOREM RefusalsAreRight == Spec => []OverflowIsFinal
<1> QED
  BY Invariance, PTL DEF Inv
-----------------------------------------------------------------------------
(* The counter implements the atomic one. *)

\* A step of caller c that leaves the other callers' state alone.
OnlyAt(c) ==
    \A d \in Callers \ {c} : /\ pc'[d] = pc[d] /\ current'[d] = current[d]
                             /\ amount'[d] = amount[d] /\ reply'[d] = reply[d]

\* Such a step shows the atomic counter a change at c, and nothing elsewhere.
LEMMA Mapped ==
    ASSUME NEW c \in Callers, OnlyAt(c)
    PROVE  /\ Status' = [Status EXCEPT ![c] = Status'[c]]
           /\ Told' = [Told EXCEPT ![c] = Told'[c]]
BY DEF OnlyAt, Status, Told, Refused, Overflows

\* Every step of the counter is a step of the atomic counter, or none: the load
\* and the failed exchange that observe too large a value are its refusal.
LEMMA StepImplements == Inv /\ [Next]_vars => [Atomic!Next]_(Atomic!vars)
<1> SUFFICES ASSUME Inv, [Next]_vars PROVE [Atomic!Next]_(Atomic!vars)
  OBVIOUS
<1>1. ASSUME NEW c \in Callers, Current(c) PROVE Atomic!Current(c)
  <2>0. OnlyAt(c)
    BY <1>1 DEF Inv, TypeOK, OnlyAt, Current, Reply
  <2>1. /\ pc[c] = "idle"
        /\ pc' = [pc EXCEPT ![c] = "idle"]
        /\ current' = [current EXCEPT ![c] = current[c]]
        /\ amount' = [amount EXCEPT ![c] = amount[c]]
        /\ reply' = [reply EXCEPT ![c] = [kind |-> "Current", value |-> value]]
        /\ current[c] \in 0..MaxValue /\ amount[c] \in 0..MaxValue
    BY <1>1 DEF Inv, TypeOK, Current, Reply
  <2>2. /\ Status' = [Status EXCEPT ![c] = "idle"]
        /\ Told' = [Told EXCEPT ![c] = [kind |-> "Current", value |-> value]]
    <3>1. Status'[c] = "idle" /\ Told'[c] = [kind |-> "Current", value |-> value]
      BY <2>1 DEF Inv, TypeOK, Status, Told, Refused, Overflows
    <3> QED
      BY <2>0, <3>1, Mapped
  <2>3. Status[c] = "idle" /\ Status' = Status
    BY <2>1, <2>2 DEF Status
  <2> QED
    BY <1>1, <2>2, <2>3 DEF Current, Atomic!Current, Atomic!Reply
<1>2. ASSUME NEW c \in Callers, Increment(c) PROVE Atomic!Call(c)
  <2>0. OnlyAt(c)
    BY <1>2 DEF Inv, TypeOK, OnlyAt, Increment, Goto
  <2>1. PICK n \in Amounts : amount' = [amount EXCEPT ![c] = n]
    BY <1>2 DEF Increment
  <2>2. /\ pc[c] = "idle"
        /\ pc' = [pc EXCEPT ![c] = "load"]
        /\ current' = [current EXCEPT ![c] = current[c]]
        /\ reply' = [reply EXCEPT ![c] = None]
        /\ current[c] \in 0..MaxValue /\ n \in 0..MaxValue
    BY <1>2, ValuesAssumption DEF Inv, TypeOK, Increment, Goto
  <2>3. /\ Status' = [Status EXCEPT ![c] = "pending"]
        /\ Told' = [Told EXCEPT ![c] = None]
    <3>1. Status'[c] = "pending" /\ Told'[c] = None
      BY <2>1, <2>2 DEF Inv, TypeOK, Status, Told, Refused, Overflows
    <3> QED
      BY <2>0, <3>1, Mapped
  <2>4. Status[c] = "idle"
    BY <2>2 DEF Status
  <2> QED
    BY <1>2, <2>1, <2>3, <2>4 DEF Increment, None, Atomic!Call, Atomic!Reply
<1>3. ASSUME NEW c \in Callers, Load(c)
      PROVE  Atomic!Refuse(c) \/ UNCHANGED Atomic!vars
  <2>0. OnlyAt(c)
    BY <1>3 DEF Inv, TypeOK, OnlyAt, Load, Goto
  <2>1. /\ pc[c] = "load"
        /\ pc' = [pc EXCEPT ![c] = "exchange"]
        /\ current' = [current EXCEPT ![c] = value]
        /\ amount' = [amount EXCEPT ![c] = amount[c]]
        /\ reply' = [reply EXCEPT ![c] = reply[c]]
        /\ value \in 0..MaxValue /\ amount[c] \in 0..MaxValue
        /\ UNCHANGED <<value, amount>>
    BY <1>3 DEF Inv, TypeOK, Load, Goto
  <2>2. Status[c] = "pending" /\ Told[c] = reply[c]
    BY <2>1 DEF Status, Told, Refused
  <2>3. CASE value + amount[c] > MaxValue
    <3>1. /\ Status' = [Status EXCEPT ![c] = "done"]
          /\ Told' = [Told EXCEPT ![c] = [kind |-> "Overflow", value |-> value]]
      <4>1. Status'[c] = "done" /\ Told'[c] = [kind |-> "Overflow", value |-> value]
        BY <2>1, <2>3 DEF Inv, TypeOK, Status, Told, Refused, Overflows
      <4> QED
        BY <2>0, <4>1, Mapped
    <3> QED
      BY <2>1, <2>2, <2>3, <3>1 DEF Atomic!Refuse, Atomic!Reply
  <2>4. CASE ~(value + amount[c] > MaxValue)
    <3>1. /\ Status' = [Status EXCEPT ![c] = "pending"]
          /\ Told' = [Told EXCEPT ![c] = reply[c]]
      <4>1. Status'[c] = "pending" /\ Told'[c] = reply[c]
        BY <2>1, <2>4 DEF Inv, TypeOK, Status, Told, Refused, Overflows
      <4> QED
        BY <2>0, <4>1, Mapped
    <3>2. Status' = Status /\ Told' = Told
      BY <2>2, <3>1 DEF Status, Told
    <3> QED
      BY <2>1, <3>2 DEF Atomic!vars
  <2> QED
    BY <2>3, <2>4
<1>4. ASSUME NEW c \in Callers, Overflow(c) PROVE UNCHANGED Atomic!vars
  <2>0. OnlyAt(c)
    BY <1>4 DEF Inv, TypeOK, OnlyAt, Overflow, Goto, Reply
  <2>1. /\ pc[c] = "exchange" /\ current[c] + amount[c] > MaxValue
        /\ pc' = [pc EXCEPT ![c] = "return"]
        /\ current' = [current EXCEPT ![c] = current[c]]
        /\ amount' = [amount EXCEPT ![c] = amount[c]]
        /\ reply' = [reply EXCEPT ![c] = [kind |-> "Overflow", value |-> current[c]]]
        /\ current[c] \in 0..MaxValue /\ amount[c] \in 0..MaxValue
        /\ UNCHANGED <<value, amount>>
    BY <1>4 DEF Inv, TypeOK, Overflow, Overflows, Goto, Reply
  <2>2. /\ Status[c] = "done"
        /\ Told[c] = [kind |-> "Overflow", value |-> current[c]]
    BY <2>1 DEF Status, Told, Refused, Overflows
  <2>3. /\ Status' = [Status EXCEPT ![c] = "done"]
        /\ Told' = [Told EXCEPT ![c] = [kind |-> "Overflow", value |-> current[c]]]
    <3>1. Status'[c] = "done" /\ Told'[c] = [kind |-> "Overflow", value |-> current[c]]
      BY <2>1 DEF Inv, TypeOK, Status, Told, Refused, Overflows
    <3> QED
      BY <2>0, <3>1, Mapped
  <2>4. Status' = Status /\ Told' = Told
    BY <2>2, <2>3 DEF Status, Told
  <2> QED
    BY <2>1, <2>4 DEF Atomic!vars
<1>5. ASSUME NEW c \in Callers, Exchange(c)
      PROVE  Atomic!Update(c) \/ Atomic!Refuse(c) \/ UNCHANGED Atomic!vars
  <2>0. OnlyAt(c)
    BY <1>5 DEF Inv, TypeOK, OnlyAt, Exchange, Goto, Reply
  <2>1. /\ pc[c] = "exchange" /\ current[c] + amount[c] <= MaxValue
        /\ current[c] \in 0..MaxValue /\ amount[c] \in 0..MaxValue
        /\ value \in 0..MaxValue
        /\ amount' = [amount EXCEPT ![c] = amount[c]] /\ UNCHANGED amount
    BY <1>5, ValuesAssumption DEF Inv, TypeOK, Exchange, Overflows
  <2>2. Status[c] = "pending" /\ Told[c] = reply[c]
    BY <2>1, ValuesAssumption DEF Status, Told, Refused, Overflows
  <2>3. CASE value = current[c]
    <3>1. /\ value' = value + amount[c]
          /\ pc' = [pc EXCEPT ![c] = "return"]
          /\ current' = [current EXCEPT ![c] = current[c]]
          /\ reply' = [reply EXCEPT ![c] =
                          [kind |-> "Updated", value |-> value + amount[c]]]
      BY <1>5, <2>1, <2>3 DEF Inv, TypeOK, Exchange, Goto, Reply
    <3>2. /\ Status' = [Status EXCEPT ![c] = "done"]
          /\ Told' = [Told EXCEPT ![c] =
                         [kind |-> "Updated", value |-> value + amount[c]]]
      <4>1. Status'[c] = "done" /\ Told'[c] = [kind |-> "Updated", value |-> value + amount[c]]
        BY <2>1, <3>1 DEF Inv, TypeOK, Status, Told, Refused, Overflows
      <4> QED
        BY <2>0, <4>1, Mapped
    <3> QED
      BY <2>1, <2>2, <2>3, <3>1, <3>2 DEF Atomic!Update, Atomic!Reply
  <2>4. CASE value # current[c]
    <3>1. /\ current' = [current EXCEPT ![c] = value]
          /\ pc' = [pc EXCEPT ![c] = "exchange"]
          /\ reply' = [reply EXCEPT ![c] = reply[c]]
          /\ UNCHANGED value
      BY <1>5, <2>1, <2>4 DEF Inv, TypeOK, Exchange
    <3>2. CASE value + amount[c] > MaxValue
      <4>1. /\ Status' = [Status EXCEPT ![c] = "done"]
            /\ Told' = [Told EXCEPT ![c] = [kind |-> "Overflow", value |-> value]]
        <5>1. Status'[c] = "done" /\ Told'[c] = [kind |-> "Overflow", value |-> value]
          BY <2>1, <3>1, <3>2 DEF Inv, TypeOK, Status, Told, Refused, Overflows
        <5> QED
          BY <2>0, <5>1, Mapped
      <4> QED
        BY <2>1, <2>2, <3>1, <3>2, <4>1 DEF Atomic!Refuse, Atomic!Reply
    <3>3. CASE ~(value + amount[c] > MaxValue)
      <4>1. /\ Status' = [Status EXCEPT ![c] = "pending"]
            /\ Told' = [Told EXCEPT ![c] = reply[c]]
        <5>1. Status'[c] = "pending" /\ Told'[c] = reply[c]
          BY <2>1, <3>1, <3>3 DEF Inv, TypeOK, Status, Told, Refused, Overflows
        <5> QED
          BY <2>0, <5>1, Mapped
      <4>2. Status' = Status /\ Told' = Told
        BY <2>2, <4>1 DEF Status, Told
      <4> QED
        BY <2>1, <3>1, <4>2 DEF Atomic!vars
    <3> QED
      BY <3>2, <3>3
  <2> QED
    BY <2>3, <2>4
<1>6. ASSUME NEW c \in Callers, Return(c) PROVE Atomic!Return(c)
  <2>0. OnlyAt(c)
    BY <1>6 DEF Inv, TypeOK, OnlyAt, Return, Goto
  <2>1. /\ pc[c] = "return"
        /\ pc' = [pc EXCEPT ![c] = "idle"]
        /\ current' = [current EXCEPT ![c] = 0] /\ 0 \in 0..MaxValue
        /\ amount' = [amount EXCEPT ![c] = amount[c]]
        /\ reply' = [reply EXCEPT ![c] = reply[c]]
        /\ amount[c] \in 0..MaxValue
        /\ UNCHANGED <<value, amount>>
    BY <1>6, ValuesAssumption DEF Inv, TypeOK, Return, Goto
  <2>2. Status[c] = "done" /\ Told[c] = reply[c]
    BY <2>1 DEF Status, Told, Refused
  <2>3. Status' = [Status EXCEPT ![c] = "idle"] /\ Told' = [Told EXCEPT ![c] = reply[c]]
    <3>1. Status'[c] = "idle" /\ Told'[c] = reply[c]
      BY <2>1 DEF Inv, TypeOK, Status, Told, Refused, Overflows
    <3> QED
      BY <2>0, <3>1, Mapped
  <2>4. Told' = Told
    BY <2>2, <2>3 DEF Told
  <2> QED
    BY <2>1, <2>2, <2>3, <2>4 DEF Atomic!Return
<1>7. ASSUME UNCHANGED vars PROVE UNCHANGED Atomic!vars
  BY <1>7 DEF vars, Atomic!vars, Status, Told, Refused, Overflows
<1> QED
  BY <1>1, <1>2, <1>3, <1>4, <1>5, <1>6, <1>7 DEF Next, Step, Atomic!Next

\* The compare-and-exchange loop implements the atomic counter.
THEOREM CounterIsAtomic == Spec => ImplementsAtomicCounter
<1>1. Init => Atomic!Init
  BY DEF Init, None, Atomic!Init, Status, Told, Refused
<1> QED
  BY <1>1, StepImplements, Invariance, PTL DEF Spec, ImplementsAtomicCounter, Atomic!Spec
=============================================================================
