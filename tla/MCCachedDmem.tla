---------------------------- MODULE MCCachedDmem ----------------------------
(* Small instances of CachedDmem: rows of two lanes; two cache blocks; the   *)
(* accelerator reads one row.                                                *)
EXTENDS CachedDmem

One == [b \in ByteSel |-> 1]
MCPorts   == {Dmem}
MCPortTmo == [p \in {Dmem} |-> 4]

Access(addrs, rws) ==
  [addr : addrs, data : {One}, ben : {ByteSel}, rw : rws, amo : {0}, stb : {1}]

\* Neighbouring words differ.
MCImage == [r \in MemIndex |-> [l \in Lane |-> [b \in ByteSel |-> l]]]

MCSingle == {[READ_ONLY |-> FALSE, BURSTS_EN |-> FALSE]}
MCBurst  == {[READ_ONLY |-> FALSE, BURSTS_EN |-> TRUE]}

\* Two words of index 0 with different tags; the second evicts the first.
MCHostReqs == [g \in MCSingle |-> Access({AddrOf(0, 0, 0)}, {1}) \cup Access({AddrOf(1, 0, 1)}, {0})]

\* The two words of a block's second row.
MCBurstReqs == [g \in MCBurst |-> Access({AddrOf(0, 0, 2), AddrOf(0, 0, 3)}, {0, 1})]

MCDmaReqs ==
  [row : {1}, wdata : {ZeroRow}, be : {[l \in Lane |-> ByteSel]}, rw : {0}, stb : {1}]
=============================================================================
