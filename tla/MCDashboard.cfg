CONSTANTS
  Requests = {r1, r2}
  Answers = {a1}
  Files = {}
  Clients = {alice, bob}
  None = None
  EventBuffer = 2
  Batch = 1
  MaxPerOwner = 0
  Retention = FALSE
  Spooled = FALSE
  MaxEvents = 4
  MaxKills = 0
  MaxBreaks = 1
  MaxOnTheWay = 1
SPECIFICATION PageSpec
SYMMETRY Symmetry
INVARIANTS PageOK CardsTell CountsRight
CHECK_DEADLOCK FALSE
