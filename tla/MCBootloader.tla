---------------------------- MODULE MCBootloader ----------------------------
(* Two executables, a sector as large as the header: the longer one ends     *)
(* where its second sector does, the shorter one in the middle of a sector.  *)
EXTENDS Bootloader, Bitwise

MCCleared(v, w) == v & w

Long  == [base |-> 1, data |-> <<18211, 40377, 0, 51666>>]
Short == [base |-> 1, data |-> <<10343, 62522>>]
MCImages  == {Long, Short}
Holding(im) ==
  [a \in 0..FLASH_WORDS - 1 |->
     IF a + 1 \in DOMAIN FileOf(im) THEN FileOf(im)[a + 1] ELSE ERASED]
MCFactory == [twi |-> Holding(Short), spi |-> Holding(Long)]
=============================================================================
