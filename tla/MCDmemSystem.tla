---------------------------- MODULE MCDmemSystem ----------------------------
(* Small instances of DmemSystem: two lanes of one byte, a few requests of   *)
(* each kind, a short timeout.                                               *)
EXTENDS DmemSystem

BothLanes == [l \in Lane |-> ByteSel]
OneLane   == [l \in Lane |-> IF l = 1 THEN ByteSel ELSE {}]
OneWord   == [b \in ByteSel |-> 1]

MCPorts     == {Dmem}
MCPortTmo   == [p \in {Dmem} |-> 2]
MCHostPorts == {Dmem, NoPort}

\* Reads of every lane, writes of one lane of each row.
MCCpuReqs ==
  [row : RowIndex, lane : Lane, wdata : {ZeroWord}, be : {ByteSel}, rw : {0}, stb : {1}]
    \cup [row : MemIndex, lane : {1}, wdata : {OneWord}, be : {ByteSel}, rw : {1}, stb : {1}]

\* Reads, and writes of a whole row and of a part of it.
MCDmaReqs ==
  {r \in {[row |-> 0, wdata |-> ZeroRow, be |-> BothLanes, rw |-> 1, stb |-> 1],
          [row |-> 1, wdata |-> ZeroRow, be |-> OneLane, rw |-> 1, stb |-> 1]} :
     r.row \in MemIndex}
    \cup [row : MemIndex, wdata : {ZeroRow}, be : {BothLanes}, rw : {0}, stb : {1}]
=============================================================================
