\* Blocks of 2 and 3 bytes, so that messages and digests reach the third one.
SPECIFICATION Spec
CONSTANTS
  Rate128 = 3
  Rate256 = 2
  MaxMessage = 4
  MaxSqueezes = 2
INVARIANTS
  StreamAsMeant
  OraclesSeparate
CHECK_DEADLOCK FALSE
