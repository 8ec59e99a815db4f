CONSTANTS
  Requests = {r1, r2}
  Answers = {a1, a2}
  Files = {f1, f2}
  Clients = {alice, bob}
  None = None
  EventBuffer = 2
  MaxPerOwner = 1
  Retention = FALSE
  Spooled = FALSE
  MaxEvents = 7
  MaxKills = 1
SPECIFICATION Spec
SYMMETRY Symmetry
INVARIANTS TypeOK ReferentialIntegrity NoOrphanAttachment CapHolds EventsTellAll
PROPERTIES ClosedIsFinal
CHECK_DEADLOCK FALSE
