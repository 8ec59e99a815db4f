CONSTANTS
  Clients = {page}
  Pinned = {}
  EventBuffer = 2
  Batch = 2
  MaxEvents = 5
  MaxFailures = 2
SPECIFICATION Spec
INVARIANTS NoSilentGap

CHECK_DEADLOCK FALSE
