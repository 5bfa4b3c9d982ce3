SPECIFICATION SpecIrq
CONSTANTS
  MemSize = 38
  CodeEnd = 27
  Padding = 2
  DataTypes = {"INT", "STR", "MAT"}
  Vals <- MCVals
  Consts <- MCConsts
  Size <- MCSize
  Funcs = {"start", "g"}
  Boot = "boot"
  Code <- MCCode
  Entry <- MCEntry
  Targets <- MCTargets
  FrameSize <- MCFrameSize
  NumArgs <- MCNumArgs
  ArgType <- MCArgType
  ArgOff <- MCArgOff
  Locals <- MCLocals
  Isrs = {"start"}
  ZeroPopped = FALSE
INVARIANTS InterruptTransparent
CHECK_DEADLOCK FALSE
