\* The cartridge that gbs_add_rom_replayer makes of a file.
SPECIFICATION MCSpec
CONSTANTS
  Programs = {"gbs"}
  Operands = {1, 102, 255}
  LoadAddr = 1024
  Code <- MCCode
  InitAddr = 1024
  PlayAddr = 1025
  Stack = 57344
  Handlers <- MCCartridges
  MaxWords = 3
  Recordings <- MCRecordings
  BankSize = 16
  MaxUnits = 1000
  VgmStack = 65534
INVARIANTS
  CartridgeIsReady
