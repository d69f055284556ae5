------------------------------- MODULE MCNet -------------------------------
EXTENDS Net

CONSTANTS h, a, b, n

=============================================================================
