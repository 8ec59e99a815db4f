CONSTANTS
  Clients = {page}
  Pinned = {}
  EventBuffer = 2
  Batch = 2
  MaxEvents = 6
  MaxFailures = 3
SPECIFICATION FairSpec
INVARIANTS TypeOK RetainsLatest Contiguous GapsTold GapsTrue
PROPERTIES FeedSpec EventuallyHeard
CHECK_DEADLOCK FALSE
