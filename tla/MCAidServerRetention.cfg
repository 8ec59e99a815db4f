CONSTANTS
  Requests = {r1, r2}
  Answers = {a1, a2}
  Files = {f1}
  Clients = {alice, bob}
  None = None
  EventBuffer = 2
  MaxPerOwner = 1
  Retention = TRUE
  Spooled = TRUE
  MaxEvents = 5
  MaxKills = 1
SPECIFICATION Spec
SYMMETRY Symmetry
INVARIANTS ReferentialIntegrity EventsTellTheLiving
PROPERTIES VanishesRightly OrphanedRightly BoardSpec StreamSpec
CHECK_DEADLOCK FALSE
