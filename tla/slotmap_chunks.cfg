\* One thread, free vectors of several chunks.
SPECIFICATION Spec
CONSTANTS
  t1 = t1
  Threads = {t1}
  K = 1
  KS = 1024
  KeySpace = 256
  MaxItems = 7
  MaxSwaps = 6
INVARIANTS NoKeyTwice
