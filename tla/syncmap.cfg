\* Three threads get and set two keys; frames end; a key is deleted up to twice a frame.
SPECIFICATION Spec
CONSTANTS
  t1 = t1
  t2 = t2
  t3 = t3
  k1 = k1
  k2 = k2
  Threads = {t1, t2, t3}
  Keys = {k1, k2}
  MaxDeletes = 2
  MaxSets = 4
SYMMETRY Symmetry
INVARIANTS TypeOK NoUpdateForgotten
PROPERTIES DeleteTakesEffect ImplementsAtomicMap
