CONSTANTS
  Requests = {r1, r2}
  Answers = {a1, a2}
  Files = {f1}
  Clients = {alice, bob}
  None = None
  EventBuffer = 2
  MaxPerOwner = 1
  Retention = TRUE
  Spooled = FALSE
  MaxEvents = 6
  MaxKills = 0
SPECIFICATION Spec
SYMMETRY Symmetry
INVARIANTS NoOrphanAttachment

CHECK_DEADLOCK FALSE
