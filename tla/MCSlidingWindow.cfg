CONSTANTS
  Keys = {a, b}
  Limit = 2
  Window = 2
  Skew = 1
  MaxTime = 6
SPECIFICATION Spec
SYMMETRY Symmetry
INVARIANTS TypeOK NoBurst BucketBounded
PROPERTY PolicySpec
