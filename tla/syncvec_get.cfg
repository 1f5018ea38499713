\* One thread gets while another pushes to a chunk that is full.
SPECIFICATION Spec
CONSTANTS
  t1 = t1
  t2 = t2
  Threads = {t1, t2}
  N = 2
  U16 = 65536
  MaxChunks = 3
  MaxPushes = 6
SYMMETRY Symmetry
INVARIANTS GetsItsIndex
