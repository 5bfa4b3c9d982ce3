SPECIFICATION Spec
CONSTANTS
  MemSize = 39
  CodeEnd = 27
  Padding = 2
  DataTypes = {"INT", "STR", "MAT"}
  Vals <- MCVals
  Consts <- MCConsts
  Size <- MCSize
  Funcs = {"start", "g"}
  Boot = "boot"
  Code <- MCCode
  Entry <- MCEntry
  Targets <- MCTargets
  FrameSize <- MCFrameSize
  NumArgs <- MCNumArgs
  ArgType <- MCArgType
  ArgOff <- MCArgOff
  Locals <- MCLocals
  Isrs = {}
  ZeroPopped = TRUE
INVARIANTS TypeOK FrameChain OperandsTiled CodeIntact ReturnExact PoppedZeroed
PROPERTIES CallerIsolation CallsAbstracted
CHECK_DEADLOCK FALSE
