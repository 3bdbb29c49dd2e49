\* Registry: two agents that use the same approval ids.
SPECIFICATION Spec
CONSTANTS
  Capacity = 3
  MaxSessions = 2
  Approvals = {1, 2}
  Statuses = {"idle", "awaiting_approval"}
  MaxFrames = 10
  SharedIds = TRUE
PROPERTIES
  EventuallyDecided
CHECK_DEADLOCK FALSE
