--------------------------- MODULE MCSchedulerLive ---------------------------
EXTENDS MCScheduler, SchedulerHistory
=============================================================================
