\* Two threads, chunks of two cells, four chunks deep, under fair scheduling; no symmetry.
\* The counters are as narrow as ConstAssumption allows.
SPECIFICATION FairSpec
CONSTANTS
  t1 = t1
  t2 = t2
  Threads = {t1, t2}
  N = 2
  U16 = 5
  MaxChunks = 4
  MaxPushes = 7
INVARIANTS NoWrap SlotExclusive HolesOwned DropExact StableGet SlotInv
PROPERTIES ImplementsTickets CallsReturn
