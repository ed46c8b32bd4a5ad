\* All twelve parameter sets, with their real values; up to two constraints.
SPECIFICATION HashSpec
CONSTANT MaxConstraints = 2
INVARIANTS
  PartsTile
  VoleHashAsMeant
  ProofChecksClaims
CHECK_DEADLOCK FALSE
