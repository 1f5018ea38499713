\* Two threads on free vectors of one chunk.
SPECIFICATION Spec
CONSTANTS
  t1 = t1
  t2 = t2
  Threads = {t1, t2}
  K = 512
  KS = 3
  KeySpace = 256
  MaxItems = 4
  MaxSwaps = 6
SYMMETRY Symmetry
INVARIANTS TypeOK KeyUnique WritesDisabledSlot
