------------------------------- MODULE MCIdle -------------------------------
EXTENDS Idle, TLC

CONSTANTS t1, t2, t3
=============================================================================
