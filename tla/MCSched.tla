------------------------------ MODULE MCSched ------------------------------
EXTENDS Sched
CONSTANTS p1, p2
TwoProcs == <<p1, p2>>
=============================================================================
