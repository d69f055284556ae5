------------------------------ MODULE MCTimers ------------------------------
EXTENDS Timers

CONSTANTS c1, u1, u2, m1, m2

Hosts == [u \in {u1, u2} |-> m1]

=============================================================================
