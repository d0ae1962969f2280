------------------------------- MODULE MCDma -------------------------------
(* Sixteen bytes of memory and three transfers: unaligned bytes and words    *)
(* with swapped byte order, and one byte that is copied until the copies run *)
(* out of memory at the second.                                              *)
EXTENDS DmaDriver

Conf(num, bswap, src, dst) == [num |-> num, bswap |-> bswap, src |-> src, dst |-> dst]
Desc(src, dst, conf)       == [src |-> src, dst |-> dst, conf |-> conf]

Bytes   == Desc(1, 9, Conf(2, TRUE, "INC_BYTE", "INC_BYTE"))
Words   == Desc(0, 8, Conf(2, TRUE, "INC_WORD", "INC_WORD"))
RunsOut == Desc(6, 15, Conf(2, FALSE, "CONST_BYTE", "INC_BYTE"))

MCDescriptors == {Bytes, Words, RunsOut}
MCUnwritten   == NoWord
=============================================================================
