\* Words of 3 bits, blocks of 2 bytes, two nodes, two vectors; the iv's words are
\* small or about to wrap.  4 lambda fills all counters at level 256.
CONSTANTS
  Half = 4
  B = 2
  L = 3
  Tau = 2
  IvWords = {0, 6}
  MaxLen = 5
SPECIFICATION Spec
INVARIANTS
  StreamIsCounter
  TweaksSeparate
CHECK_DEADLOCK FALSE
