----------------------------- MODULE MCGemmSoc -----------------------------
(* Small instances of GemmSoc: 2 x 2 tiles, two-byte accumulators, matrices  *)
(* of one to three rows and columns in a memory of sixteen four-byte rows.   *)
EXTENDS GemmSoc

MCByte      == 0..BYTE_MOD - 1
MCPerfValue == {0}

\* A memory full of different bytes, so that padding is garbage.
ImageByte(seed, a) == (a * seed + a \div 3 + 1) % BYTE_MOD
Image(seed) ==
  [r \in MemIndex |-> [l \in Lane |-> [b \in ByteSel |->
     ImageByte(seed, r * RowBytes + l * WORD_BYTES + b)]]]

RoundUp(x) == ((x + LANES - 1) \div LANES) * LANES

\* Strides are multiples of the tile; C is aligned to a memory row.
Job(rows, inner, cols, offset, pad, seed) ==
  [A |-> [data |-> offset, rows |-> rows, cols |-> inner, stride |-> RoundUp(inner) + pad],
   B |-> [data |-> 16 + offset, rows |-> inner, cols |-> cols, stride |-> RoundUp(cols) + pad],
   C |-> [data |-> 32, rows |-> rows, cols |-> cols, stride |-> RoundUp(cols)],
   image |-> Image(seed)]

MCJobs ==
  {Job(rows, inner, cols, offset, 0, seed) :
     rows \in 1..3, inner \in 1..3, cols \in 1..3, offset \in {0, 2}, seed \in {3, 5}}

\* The inputs as vectors: B a column, A a column, both with stride 1.
MCVectorJobs ==
  {[j EXCEPT !.B.stride = 1, !.B.data = @ + 1] :
     j \in {Job(rows, inner, 1, 0, 0, seed) : rows \in 1..3, inner \in 1..3, seed \in {3, 5}}}
    \cup
  {[j EXCEPT !.A.stride = 1, !.A.data = @ + 1] :
     j \in {Job(rows, 1, cols, 0, 0, seed) : rows \in 1..3, cols \in 1..3, seed \in {3, 5}}}

MCAllJobs == MCJobs \cup MCVectorJobs

\* C a column vector with stride 1.
MCVectorC == {[Job(3, 2, 1, 0, 0, 5) EXCEPT !.C.stride = 1]}

\* The header's words about strides and what the engine asks of the places of
\* the matrices hold for the calls of the first run; C as a column vector is
\* told apart.
ASSUME MCWellFormed ==
  /\ \A j \in MCAllJobs : WellFormed(j) /\ Placed(j)
  /\ \A j \in MCVectorC : ~WellFormed(j)

\* One call with several tiles in every direction, disturbed by reads of C
\* and writes of a row of its own by other masters, and by a system reset.
MCOneJob == {Job(2, 3, 1, 2, 0, 5)}
MCOtherReqs ==
  {[row |-> 8, lane |-> 1, wdata |-> ZeroWord, be |-> {}, rw |-> 0, stb |-> 1],
   [row |-> 15, lane |-> 0, wdata |-> ZeroWord, be |-> ByteSel, rw |-> 1, stb |-> 1]}
MCNoReqs == {}
=============================================================================
