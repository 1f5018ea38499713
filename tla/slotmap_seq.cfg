\* One thread, any calls; fewer keys than slots in the end.
SPECIFICATION FairSpec
CONSTANTS
  t1 = t1
  Threads = {t1}
  K = 512
  KS = 2
  KeySpace = 4
  MaxItems = 5
  MaxSwaps = 6
INVARIANTS NoKeyLost
PROPERTIES ImplementsKeyedStore CallsReturn
