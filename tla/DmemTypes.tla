----------------------------- MODULE DmemTypes -----------------------------
(* Shapes shared by the modules of the data-memory subsystem: the CPU's      *)
(* 32-bit port, the accelerator's 256-bit port and the memory row they both  *)
(* address.  A 256-bit vector is a function from its 32-bit lanes to words,  *)
(* a word a function from its bytes; an address is its bit fields: the row   *)
(* index (bits 16..5) and, on the CPU port, the lane (bits 4..2).            *)
EXTENDS WordTypes

CONSTANTS
  LANES,       \* 32-bit lanes in a memory row (8 in the hardware)
  INDEX_ROWS,  \* rows the address field can name (bits 16..5: 4096)
  NUM_WORDS    \* rows the memory array has (MEM_SIZE_BYTES / 32)

ASSUME LanesAssumption == LANES \in Nat \ {0}
ASSUME RowsAssumption  == INDEX_ROWS \in Nat \ {0} /\ NUM_WORDS \in 1..INDEX_ROWS

Lane     == 0..LANES - 1
RowIndex == 0..INDEX_ROWS - 1
Row      == [Lane -> Word]
RowBE    == [Lane -> WordBE]

ZeroRow  == [l \in Lane |-> ZeroWord]
NoBE     == [l \in Lane |-> {}]

\* A request on the 32-bit CPU port and one on a 256-bit port.
CpuReq == [row : RowIndex, lane : Lane, wdata : Word, be : WordBE, rw : Bit, stb : Bit]
MemReq == [row : RowIndex, wdata : Row, be : RowBE, rw : Bit, stb : Bit]

CpuReqIdle == [row |-> 0, lane |-> 0, wdata |-> ZeroWord, be |-> {}, rw |-> 0, stb |-> 0]
MemReqIdle == [row |-> 0, wdata |-> ZeroRow, be |-> NoBE, rw |-> 0, stb |-> 0]

\* The bytes a write with these byte enables leaves in a row.
MergeRow(old, new, be) == [l \in Lane |-> MergeWord(old[l], new[l], be[l])]
=============================================================================
