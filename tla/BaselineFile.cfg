\* Two processes side by side, three starts, two bucket lengths, any file.
CONSTANTS
  Instances = {p1, p2}
  p1 = p1
  p2 = p2
  Lengths = {l1, l2}
  l1 = l1
  l2 = l2
  NoLength = NoLength
  Free = Free
  Stale = Stale
  MaxStarts = 3
  MaxItems = 2
SPECIFICATION Spec
SYMMETRY Alike
INVARIANT NeverMixesLengths
PROPERTIES NewerIsKept SavedIsRestored
CHECK_DEADLOCK FALSE
