SPECIFICATION FairSpec
CONSTANTS
  Vars <- MCVars
  Addr <- MCAddr
  Type <- MCType
  Rows <- MCRows
  Cols <- MCCols
  InitMem <- MCInitMem
  Vals <- MCVals
  Numbers = {7}
  Lists <- MCLists
  Indices <- MCIndices
  HalfRange = 4
  MaxCount = 2
  MaxWrites = 1
INVARIANTS TypeOK SlotsKept PrefixWritten
PROPERTIES StoreAbstracted Finishes
\* the program ends
CHECK_DEADLOCK FALSE
