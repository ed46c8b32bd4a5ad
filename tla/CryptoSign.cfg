\* Messages of up to 3 cells and every way of placing two buffers in 5 cells.
CONSTANTS
  Cells = 5
  Size  = 2
SPECIFICATION Spec
INVARIANTS
  OpensToMessage
  IntactOpens
  OtherCellsUntouched
CHECK_DEADLOCK FALSE
