\* One tail, two inputs, three calls: a key, its replacement or an unpacked copy,
\* and a use of it.
CONSTANTS
  Tails = {0}
  Inputs = {0, 1}
  MaxCalls = 3
SPECIFICATION Spec
INVARIANTS
  KeygenValid
  RefusedAtOnce
  SignedVerifies
  NoNullFollowed
PROPERTIES
  EveryCallReturns
CHECK_DEADLOCK FALSE
