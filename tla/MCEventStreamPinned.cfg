CONSTANTS
  Clients = {page}
  Pinned = {page}
  EventBuffer = 2
  Batch = 2
  MaxEvents = 5
  MaxFailures = 2
SPECIFICATION Spec
INVARIANTS ResumesWhereItLeft

CHECK_DEADLOCK FALSE
