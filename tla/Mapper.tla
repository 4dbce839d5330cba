-------------------------------- MODULE Mapper --------------------------------
(***************************************************************************)
(* What the CPU sees below 0xc000: the two ROM windows and the cartridge   *)
(* RAM that mapper.c switches, and the boot ROM that gbhw.c lays over the  *)
(* first page.  gbs_init leaves most of it to the next subsong as it is.   *)
(***************************************************************************)
EXTENDS Integers

CONSTANTS
  Files,        \* the files a user may open
  BankSize,     \* MAPPER_ROMBANK_SIZE, and MAPPER_RAMBANK_SIZE
  Shift,        \* 32: what the two bank registers of the MBC1 count in
  Wrap,         \* range of size_t
  Values,       \* what the program writes to ROM
  EnableValue   \* 0x0a

\* A file: its kind, which decides on who handles writes to the ROM, the sizes
\* of ROM and cartridge RAM, the banks that the windows show at first,
\* gbs->defaultbank, and whether gbhw_enable_bootrom has been called.
File == [kind: {"gbs", "gbr", "mbc1", "mbc3"}, rom: Nat \ {0}, ram: Nat,
         lower: Nat, upper: Nat, default: Nat, bootrom: BOOLEAN]

ASSUME MapperAssumption ==
  /\ Files \subseteq File
  /\ BankSize \in Nat \ {0} /\ Shift \in Nat \ {0, 1}
  /\ Wrap \in Nat /\ \A f \in Files : Wrap > f.rom /\ Wrap > f.ram
  /\ Values \subseteq Nat /\ EnableValue \in Nat \ {0}
\* Only the header of a GBS file sets the default bank, and only that of a GBR
\* file the two banks.
ASSUME HeaderAssumption ==
  \A f \in Files : /\ f.kind # "gbs" => f.default = 1
                   /\ f.kind # "gbr" => f.lower = 0 /\ f.upper = 1
\* The sizes of RAM that mapper_gb knows: up to a bank, or as many as can be
\* selected.
ASSUME RamAssumption ==
  \A f \in Files : f.ram <= BankSize \/ f.ram >= 4 * BankSize

VARIABLES
  file,
  reg,          \* mbc1.reg
  rom_lower, rom_upper, extram,   \* what the banks show: its offset and size
  enable,       \* extram.enable
  ram,          \* the offsets of the RAM banks that have been written
  rom_lockout   \* the boot ROM is not mapped

mapVars == <<reg, rom_lower, rom_upper, extram, enable>>
mapperVars == <<file, mapVars, ram, rom_lockout>>

-----------------------------------------------------------------------------
\* mapper_map: a bank out of range is warned about, if it begins just where the
\* ROM ends, and mapped all the same.  The size is unsigned.
Map(size, bank) ==
  [ofs |-> bank * BankSize, size |-> (size - bank * BankSize) % Wrap]
MapRom(bank) == Map(file.rom, bank)
MapRam(bank) == Map(file.ram, bank)

\* bank_get and bank_put reach data[maddr]
Reaches(b, maddr) == ~(maddr > b.size)

\* A register value of 0 selects bank 1.
OrOne(bank) == IF bank = 0 THEN 1 ELSE bank

\* gbs_rom_put: one register, 0x2000 to 0x3fff.
GbsRomPut(area, val) ==
  /\ rom_upper' = IF area = 1 THEN MapRom(OrOne(val)) ELSE rom_upper
  /\ UNCHANGED <<reg, rom_lower, extram, enable>>

\* Slip: the bank is made 1 only if both registers are 0.
Mbc1RomPut_OrOneLate(area, val) ==
  LET r == [reg EXCEPT ![area] = val]
      rambank == r[2] % 4
      both == OrOne((r[1] % Shift) + rambank * Shift)
  IN  /\ reg' = r
      /\ enable' = (r[0] = EnableValue)
      /\ rom_lower' = MapRom(IF r[3] = 1 THEN rambank * Shift ELSE 0)
      /\ rom_upper' = MapRom(both)
      /\ extram' = MapRam(0)

\* mbc1_rom_put: four registers of 0x2000 bytes each; the last one chooses what
\* the third one selects.
Mbc1RomPut(area, val) ==
  LET r == [reg EXCEPT ![area] = val]
      rombank == OrOne(r[1] % Shift)
      rambank == r[2] % 4
      both == rombank + rambank * Shift
  IN  /\ reg' = r
      /\ enable' = (r[0] = EnableValue)
      /\ IF r[3] = 1 /\ file.ram > BankSize
         THEN rom_lower' = MapRom(0) /\ rom_upper' = MapRom(rombank)
                                     /\ extram' = MapRam(rambank)
         ELSE /\ rom_lower' = MapRom(IF r[3] = 1 THEN rambank * Shift ELSE 0)
              /\ rom_upper' = MapRom(both)
              /\ extram' = MapRam(0)

\* mbc3_rom_put
Mbc3RomPut(area, val) ==
  LET r == [reg EXCEPT ![area] = val]
  IN  /\ reg' = r
      /\ enable' = (r[0] = EnableValue)
      /\ rom_lower' = MapRom(0)
      /\ rom_upper' = MapRom(OrOne(r[1] % (4 * Shift)))
      /\ extram' = MapRam(r[2] % 4)

RomPut(area, val) ==
  \/ file.kind \in {"gbs", "gbr"} /\ GbsRomPut(area, val)
  \/ file.kind = "mbc1" /\ Mbc1RomPut(area, val)
  \/ file.kind = "mbc3" /\ Mbc3RomPut(area, val)

-----------------------------------------------------------------------------
WriteRom(area, val) == RomPut(area, val) /\ UNCHANGED <<file, ram, rom_lockout>>

\* bank_put, for cartridge RAM; the address is in the bank or above the RAM.
WriteRam(maddr) ==
  /\ file.ram > 0 /\ enable /\ Reaches(extram, maddr)
  /\ ram' = ram \cup {extram.ofs}
  /\ UNCHANGED <<file, mapVars, rom_lockout>>

\* io_put of 1 to a register of the list that ends in 0xff50: that one, P1,
\* NR50 and the wave pattern.
Lockout == {"P1", "NR50", "wave", "BOOT"}
WriteLockout(where) ==
  /\ where \in Lockout
  /\ rom_lockout' = TRUE
  /\ UNCHANGED <<file, mapVars, ram>>

\* Slip: the cartridge RAM is kept.
MapperSubsong_KeepRam ==
  /\ IF file.default # 1 THEN RomPut(1, file.default) ELSE UNCHANGED mapVars
  /\ UNCHANGED <<file, ram, rom_lockout>>

\* gbs_init: mapper_init and the file's default bank; gbhw_init writes no 1.
MapperSubsong ==
  /\ ram' = {}
  /\ IF file.default # 1 THEN RomPut(1, file.default) ELSE UNCHANGED mapVars
  /\ UNCHANGED <<file, rom_lockout>>

\* mapper_gbs, mapper_gbr or mapper_gb, and gbhw_enable_bootrom.
MapperInit ==
  /\ file \in Files
  /\ reg = [i \in 0 .. 3 |-> 0]
  /\ rom_lower = MapRom(file.lower)
  /\ rom_upper = MapRom(file.upper)
  /\ extram = MapRam(0)
  /\ enable = (file.kind = "gbs")
  /\ ram = {}
  /\ rom_lockout = ~file.bootrom

MapperNext ==
  \/ \E area \in 0 .. 3, val \in Values : WriteRom(area, val)
  \/ \E maddr \in 0 .. BankSize - 1 : WriteRam(maddr)
  \/ \E where \in Lockout : WriteLockout(where)
  \/ MapperSubsong

MapperSpec == MapperInit /\ [][MapperNext]_mapperVars

-----------------------------------------------------------------------------
View == [ofs: Nat, size: Nat]
MapperTypeOK ==
  /\ file \in Files
  /\ reg \in [0 .. 3 -> Values \cup {0}]
  /\ {rom_lower, rom_upper, extram} \subseteq View
  /\ {enable, rom_lockout} \subseteq BOOLEAN
  /\ ram \subseteq Nat

\* The two ROM windows never show the same bank, whichever registers have been
\* written in which order: the upper one avoids bank 0 of each group of banks
\* ("rombank += rombank == 0").  A GBR file is free to name a bank twice.
WindowsDiffer == file.kind # "gbr" => rom_upper.ofs # rom_lower.ofs

\* The RAM that a program writes lies in the cartridge's RAM, in every banking
\* mode: mbc1_rom_put does not bank the RAM of a cartridge with a single bank.
\* (mbc3_rom_put does not look at the size.)
RamInCartridge == file.kind # "mbc3" => \A ofs \in ram : ofs < file.ram

\* gbs_init, of a file whose default bank is not 1: a subsong begins with the
\* memory as it was when the file had been opened, whatever the subsongs before
\* have written.
BankedStartsFresh ==
  [][ MapperSubsong /\ file.default # 1 =>
        /\ ram' = {}
        /\ rom_lower' = MapRom(0)
        /\ rom_upper' = MapRom(OrOne(file.default)) ]_mapperVars
=============================================================================
