------------------------------ MODULE MCCounter ------------------------------
(* Amounts for Counter: the no-op, and two that overtake each other.          *)
EXTENDS Counter

MCAmounts == {0, 1, 2}
=============================================================================
