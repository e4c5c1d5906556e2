--------------------------- MODULE MCScheduleList ---------------------------
EXTENDS ScheduleList
=============================================================================
