SPECIFICATION FairSpec
CONSTANTS
  Names = {lifecycle, unknown}
  Tasks = {lifecycle}
  Intervals = {1, 2, 3}
  None = None
  MaxEdits = 2
  MaxFailures = 1
INVARIANTS SchedulerInv OverlapsOnlyAfterEdit
PROPERTIES NoRunAfterStop ConfigApplied EnabledTasksRun StopEnds
CHECK_DEADLOCK FALSE
