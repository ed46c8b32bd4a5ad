\* All six kinds of instances with their real numbers; every third nibble altered, which
\* meets both halves of every byte position of a word and of every round.
CONSTANTS
  Altered = 3
SPECIFICATION Spec
INVARIANTS
  HonestSatisfies
  AlteredCaught
CHECK_DEADLOCK FALSE
