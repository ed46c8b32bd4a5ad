\* Every oracle on three counters: 6^3 runs of the grinding loop, among them
\* those without a good counter, which wrap the counter for ever.
CONSTANTS
  Deltas    <- MCDeltas
  ZeroDelta <- MCZero
  Openable  <- MCOpenable
  CtrMod    = 3
  Rho       <- MCRho
SPECIFICATION FairSpec
INVARIANTS
  SignatureConsistent
  IntactAccepted
  OnlySignedAccepted
  HeapBalanced
PROPERTIES
  Completes
CHECK_DEADLOCK FALSE
