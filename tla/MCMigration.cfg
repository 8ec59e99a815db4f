CONSTANTS
  N = 3
  Size <- Sizes
  MaxKills = 2
  MaxDeploys = 2
SPECIFICATION FairSpec
INVARIANTS TypeOK ServesComplete OnlyCutClashes CutStaysCut
PROPERTIES EventuallyServes
CHECK_DEADLOCK FALSE
