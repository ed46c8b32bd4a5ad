\* Three vectors, one long: L = 4 + 2 + 2 = 8 leaves.  TOpen = 3 of a cover of
\* 2 to 4 keys: some openings leave a slot unused, some are refused, and for
\* some challenges the opening of another one has too few keys.
CONSTANTS
  Tau   = 3
  Tau1  = 1
  Width = 2
  TOpen = 3
  UINT  = 65536
  Prg      <- MCPrg
  LeafSeed <- MCLeafSeed
  LeafCom  <- MCLeafCom
  Zero     <- MCZero
  Junk     <- MCJunk
  RootKey  <- MCRoot
SPECIFICATION ExchangeSpec
INVARIANTS
  TypeOK
  FitsBuffer
  GuardIsExact
  OpensAllButHidden
  HonestAccepted
  SeedsInPlace
  OnlyCanonicalAccepted
PROPERTIES
  PromiseSpec
CHECK_DEADLOCK FALSE
