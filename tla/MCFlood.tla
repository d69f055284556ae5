------------------------------ MODULE MCFlood ------------------------------
EXTENDS Flood

\* Two windows, one longer than the time of ignorance, and one message each.
MCSettings ==
  {[nb |-> 2, time |-> 1, ignore |-> 2], [nb |-> 3, time |-> 2, ignore |-> 1],
   [nb |-> 1, time |-> 1, ignore |-> 1]}

=============================================================================
