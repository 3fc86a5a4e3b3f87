---------------------------- MODULE MCScheduler ----------------------------
EXTENDS SchedulerProperties
=============================================================================
