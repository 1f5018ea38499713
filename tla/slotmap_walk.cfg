\* Two threads, slots of several chunks.
SPECIFICATION Spec
CONSTANTS
  t1 = t1
  t2 = t2
  Threads = {t1, t2}
  K = 512
  KS = 2
  KeySpace = 256
  MaxItems = 4
  MaxSwaps = 4
SYMMETRY Symmetry
INVARIANTS OnlyOwnerDeletes
