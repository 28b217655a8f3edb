------------------------------ MODULE MCCheckout ------------------------------
EXTENDS Checkout, TLC

CONSTANTS r1, r2, t1, t2

\* Windows and targets are interchangeable.
Alike == Permutations(Requests) \cup Permutations(Targets)
==============================================================================
