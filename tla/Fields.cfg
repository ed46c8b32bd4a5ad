\* All fields at their real widths, all builds.
SPECIFICATION Spec
INVARIANTS
  ResultCorrect
  PaddingStaysOut
  EmbedsBytes
  ByteMapsAgree
CHECK_DEADLOCK FALSE
