\* Arithmetic, the routines of GBS files, and the code made of VGM files.
SPECIFICATION MCSpec
CONSTANTS
  Programs = {"alu", "gbs", "vgm"}
  Operands = {1, 102, 255}
  LoadAddr = 1024
  Code <- MCCode
  InitAddr = 1024
  PlayAddr = 1025
  Stack = 57344
  Handlers <- MCHandlers
  MaxWords = 3
  Recordings <- MCRecordings
  BankSize = 16
  MaxUnits = 1000
  VgmStack = 65534
INVARIANTS
  ArithmeticIsExact
  IdleIsReady
  PlayInTurn
  WritesInOrder
PROPERTIES
  ReturnsToCaller
  WritesOnTime
