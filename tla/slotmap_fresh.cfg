\* Two threads push for the first time at once.
SPECIFICATION Spec
CONSTANTS
  t1 = t1
  t2 = t2
  Threads = {t1, t2}
  K = 512
  KS = 1024
  KeySpace = 256
  MaxItems = 3
  MaxSwaps = 4
SYMMETRY Symmetry
INVARIANTS DeleteReturnsItem
