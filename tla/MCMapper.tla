------------------------------- MODULE MCMapper -------------------------------
(***************************************************************************)
(* Files for TLC: GBS files, a GBR file, and cartridges with one, four and *)
(* no bank of RAM.                                                         *)
(***************************************************************************)
EXTENDS Mapper

Opened(kind, romsize, ramsize, bank, boot) ==
  [kind |-> kind, rom |-> romsize, ram |-> ramsize, lower |-> 0, upper |-> 1,
   default |-> bank, bootrom |-> boot]

MCGbs == {Opened("gbs", 24, 2, 1, FALSE), Opened("gbs", 24, 2, 2, FALSE)}
MCGbr == {[Opened("gbr", 24, 2, 1, FALSE) EXCEPT !.lower = 1, !.upper = 2]}
MCFiles ==
  MCGbs \cup MCGbr
  \cup {Opened("mbc1", 16, 8, 1, FALSE), Opened("mbc1", 64, 2, 1, FALSE),
        Opened("mbc3", 64, 8, 1, TRUE), Opened("mbc3", 64, 0, 1, FALSE)}
=============================================================================
