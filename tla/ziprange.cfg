\* Two vectors of up to three chunks that grow meanwhile; no symmetry.
SPECIFICATION FairSpec
CONSTANTS
  v1 = v1
  v2 = v2
  Vecs = {v1, v2}
  N = 2
  MaxLen = 5
INVARIANTS TypeOK Aligned WalkedSoFar
PROPERTIES WalkEnds
