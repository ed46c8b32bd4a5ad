\* Requests of up to 8 bytes: every way of splitting them into reads.
CONSTANTS
  MaxLen = 8
SPECIFICATION Spec
INVARIANTS
  NoGapInBuffer
  DescriptorClosed
PROPERTIES
  PromiseSpec
CHECK_DEADLOCK FALSE
