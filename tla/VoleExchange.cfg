\* Bytes of 4 bits, lambda = 12: the grinding bits start inside the second of
\* three bytes.  Three vectors: one of 8 leaves, two of 4; 7 columns and 5 of
\* padding.  Every challenge.
CONSTANTS
  Lambda   = 12
  WGrind   = 5
  Tau      = 3
  Tau1     = 1
  K        = 3
  ByteBits = 4
SPECIFICATION ExchangeSpec
INVARIANTS
  GrindExact
  ColumnBitsAgree
  Correlation
CHECK_DEADLOCK FALSE
