---------------------------- MODULE AtomicCounter ----------------------------
(***************************************************************************)
(* What CounterMetric promises: calls of increment() take effect one at a  *)
(* time, each at a moment between its call and its return.  An increment   *)
(* that does not fit in the counter is refused and changes nothing.        *)
(***************************************************************************)
EXTENDS Naturals

CONSTANTS Callers, Amounts, MaxValue

VARIABLES
    value,   \* the counter
    status,  \* of each caller: "idle", "pending", "done"
    amount,  \* what each caller adds, or added last
    reply    \* what each caller's last operation was told

vars == <<value, status, amount, reply>>

Replies == [kind : {"none", "Current", "Updated", "Overflow"}, value : 0..MaxValue]

Init ==
    /\ value = 0
    /\ status = [c \in Callers |-> "idle"]
    /\ amount = [c \in Callers |-> 0]
    /\ reply = [c \in Callers |-> [kind |-> "none", value |-> 0]]

Reply(c, k, v) == reply' = [reply EXCEPT ![c] = [kind |-> k, value |-> v]]

Call(c) ==
    /\ status[c] = "idle"
    /\ status' = [status EXCEPT ![c] = "pending"]
    /\ \E n \in Amounts : amount' = [amount EXCEPT ![c] = n]
    /\ Reply(c, "none", 0)
    /\ UNCHANGED value

Update(c) ==
    /\ status[c] = "pending"
    /\ value + amount[c] <= MaxValue
    /\ status' = [status EXCEPT ![c] = "done"]
    /\ value' = value + amount[c]
    /\ Reply(c, "Updated", value + amount[c])
    /\ UNCHANGED amount

Refuse(c) ==
    /\ status[c] = "pending"
    /\ value + amount[c] > MaxValue
    /\ status' = [status EXCEPT ![c] = "done"]
    /\ Reply(c, "Overflow", value)
    /\ UNCHANGED <<value, amount>>

Return(c) ==
    /\ status[c] = "done"
    /\ status' = [status EXCEPT ![c] = "idle"]
    /\ UNCHANGED <<value, amount, reply>>

Current(c) ==
    /\ status[c] = "idle"
    /\ Reply(c, "Current", value)
    /\ UNCHANGED <<value, status, amount>>

Next == \E c \in Callers :
            Call(c) \/ Update(c) \/ Refuse(c) \/ Return(c) \/ Current(c)

Spec == Init /\ [][Next]_vars
=============================================================================
