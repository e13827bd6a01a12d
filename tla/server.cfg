SPECIFICATION FairSpec
CONSTANTS
  Requests = {q1}
  None = None
INVARIANTS
  ServesWired
  GroupJoined
  ReturnsFlushed
  AdminByAdmin
  RefusedForCause
PROPERTIES
  StartupEnds
  StopEnds
\* The process ends.
CHECK_DEADLOCK FALSE
