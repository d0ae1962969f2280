----------------------------- MODULE WordTypes -----------------------------
(* Bits and bus words.  A word is a function from its bytes to their values, *)
(* so that byte enables mean what they mean in the hardware.                 *)
EXTENDS Integers

CONSTANTS
  WORD_BYTES,  \* bytes in a bus word (4 in the hardware)
  Byte         \* the values a byte can take

ASSUME WordAssumption == WORD_BYTES \in Nat \ {0}
ASSUME ByteAssumption == 0 \in Byte

Bit      == {0, 1}                    \* std_ulogic as driven by this design
ByteSel  == 0..WORD_BYTES - 1
Word     == [ByteSel -> Byte]
WordBE   == SUBSET ByteSel            \* byte enables of one word
ZeroWord == [b \in ByteSel |-> 0]

\* The bytes a write with these byte enables leaves in a word.
MergeWord(old, new, be) == [b \in ByteSel |-> IF b \in be THEN new[b] ELSE old[b]]

\* A condition as the bit a signal carries.
BitOf(p) == IF p THEN 1 ELSE 0
=============================================================================
