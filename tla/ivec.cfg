\* Three threads insert two ids; the vector is cleared, disposed or dropped.
SPECIFICATION Spec
CONSTANTS
  t1 = t1
  t2 = t2
  t3 = t3
  Threads = {t1, t2, t3}
  Ids = {1, 2}
  MaxSnaps = 5
  MaxObjects = 7
SYMMETRY Symmetry
INVARIANTS TypeOK SnapshotsAccounted DroppedOnce StaleIsRegistered ReturnsItem
PROPERTIES InsertedForever LossMeansProgress
