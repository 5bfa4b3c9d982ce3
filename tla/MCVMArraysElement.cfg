SPECIFICATION Spec
CONSTANTS
  Vars <- MCVars
  Addr <- MCAddr
  Type <- MCType
  Rows <- MCRows
  Cols <- MCCols
  InitMem <- MCInitMem
  Vals <- MCVals
  Numbers = {7}
  Lists <- MCLists
  Indices <- MCIndices
  HalfRange = 4
  MaxCount = 2
  MaxWrites = 1
INVARIANT ElementRead
\* the program ends
CHECK_DEADLOCK FALSE
