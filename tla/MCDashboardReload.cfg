CONSTANTS
  Requests = {r1}
  Answers = {a1, a2}
  Files = {}
  Clients = {alice, bob}
  None = None
  EventBuffer = 2
  Batch = 2
  MaxPerOwner = 0
  Retention = FALSE
  Spooled = FALSE
  MaxEvents = 3
  MaxKills = 0
  MaxBreaks = 0
  MaxOnTheWay = 0
SPECIFICATION PageSpec
INVARIANT StateRestored
CHECK_DEADLOCK FALSE
