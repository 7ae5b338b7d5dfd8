\* Every small image; a copy or the array may be too slow at any tile.
SPECIFICATION Spec
CONSTANTS
  Images <- MCImages
  Slow = TRUE
  MaxInputBytes = 6
  MaxWeightBytes = 3
  MaxOutputBytes = 4
\* The driver returns, once.
CHECK_DEADLOCK FALSE
INVARIANT OutputRight
PROPERTY Finishes
