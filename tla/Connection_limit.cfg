SPECIFICATION Spec
CONSTANTS
  None = None
  Msg = {m1, m2}
SYMMETRY Symmetry
INVARIANT RateLimitDisconnects
CHECK_DEADLOCK FALSE
