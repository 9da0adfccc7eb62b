\* The second process moves the first one's file.
CONSTANTS
  Instances = {p1, p2}
  p1 = p1
  p2 = p2
  Lengths = {l1, l2}
  l1 = l1
  l2 = l2
  NoLength = NoLength
  Free = Free
  Stale = Stale
  MaxStarts = 2
  MaxItems = 1
SPECIFICATION Spec
INVARIANT OnlyUnreadableIsMovedAside
CHECK_DEADLOCK FALSE
