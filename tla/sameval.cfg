\* Up to three vectors of three ids, any number of rounds; no symmetry.
SPECIFICATION FairSpec
CONSTANTS
  v1 = v1
  v2 = v2
  v3 = v3
  Vecs = {v1, v2, v3}
  Ids = {1, 3, 5}
INVARIANTS TypeOK YieldedSoFar RoundComplete
PROPERTIES RoundEnds
