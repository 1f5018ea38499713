\* Five ids, two values; a prime above 6 disables hashing.
SPECIFICATION Spec
CONSTANTS
  Ids = {1, 4, 5, 30, 90}
  Vals = {1, 2}
  MAX_HASH = 6
  PrimeLimit = 14
INVARIANTS TypeOK CountsAgree Covered Probeable DeleteFinds
PROPERTIES StopCauses ImplementsIdMap
\* A call that panics or does not return ends the program.
CHECK_DEADLOCK FALSE
