\* Registry: two sessions, two approvals each, a log of three frames.
SPECIFICATION Spec
CONSTANTS
  Capacity = 3
  MaxSessions = 2
  Approvals = {1, 2}
  Statuses = {"idle", "awaiting_approval"}
  MaxFrames = 10
  SharedIds = FALSE
INVARIANTS
  TypeOK
  ReplayHonest
  ParkedIsReplayed
  NoneForgotten
PROPERTIES
  EventuallyDecided
CHECK_DEADLOCK FALSE
