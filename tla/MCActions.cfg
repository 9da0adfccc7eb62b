\* Three attempts on a unit, a process and a unit that is not allowed; one of
\* them may pass per window and target, and each map has room for one target.
CONSTANTS
  a1 = a1
  a2 = a2
  a3 = a3
  Attempts = {a1, a2, a3}
  u = u
  p = p
  v = v
  Units = {u, v}
  Processes = {p}
  UnitOf <- UnitOfP
  Allowed = {u, p}
  MaxActions = 1
  Window = 2
  FilterWindow = 2
  Second = 2
  MaxKeys = 1
  MaxFilter = 1
  NoTarget = NoTarget
  MaxClock = 3
SPECIFICATION Spec
SYMMETRY Alike
INVARIANTS RateHeld EffectsReachTheLog OwnLinesAreFiltered
CHECK_DEADLOCK FALSE
