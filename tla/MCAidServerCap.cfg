CONSTANTS
  Requests = {r1, r2}
  Answers = {a1, a2}
  Files = {f1, f2}
  Clients = {alice, bob}
  None = None
  EventBuffer = 2
  MaxPerOwner = 1
  Retention = FALSE
  Spooled = TRUE
  MaxEvents = 6
  MaxKills = 0
SPECIFICATION Spec
SYMMETRY Symmetry
INVARIANTS CapHolds

CHECK_DEADLOCK FALSE
