CONSTANTS
  Requests = {r1, r2}
  Answers = {a1}
  Files = {}
  Clients = {alice, bob}
  None = None
  EventBuffer = 2
  Batch = 2
  MaxPerOwner = 0
  Retention = FALSE
  Spooled = FALSE
  MaxEvents = 4
  MaxKills = 1
  Me = alice
  MaxBreaks = 1
  RecentLimit = 1
SPECIFICATION FairSubSpec
INVARIANTS StreamOK HearsOwn HearsDeletion HearsOnlyOwn FeedShows NoSelfPraise BufferBounded
PROPERTIES AnswersArrive
CHECK_DEADLOCK FALSE
