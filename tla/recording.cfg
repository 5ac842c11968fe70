CONSTANTS
  main = main
  sub = sub
  Keys = {main, sub}
  Requests <- MCRequests
  MaxRecs = 2
  MaxAlerts = 2
  Day = 3
  Horizon = 4
  MaxWait = 2
  DefaultWait = 1
  CatchUp = 1
  None = None
SPECIFICATION Spec
INVARIANTS RunningReachable FollowsSchedule ConflictsAreReal
PROPERTY EventRecordingEnds
CHECK_DEADLOCK FALSE
