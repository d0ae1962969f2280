---------------------------- MODULE MCCacheSystem ----------------------------
(* Small instances of CacheSystem: two blocks of two words, one byte each,   *)
(* two cached tags that collide in an index, and an uncached one.            *)
EXTENDS CacheSystem

One == [b \in ByteSel |-> 1]
Access(addrs, rws, amos) ==
  [addr : addrs, data : {One}, ben : {ByteSel}, rw : rws, amo : amos, stb : {1}]
A(tag, idx, ofs) == AddrOf(tag, idx, ofs)

\* A data cache that moves blocks by bursts, one that moves them word by word
\* on a bus that answers with errors, and an instruction cache.
DataCache  == [READ_ONLY |-> FALSE, BURSTS_EN |-> TRUE]
ErrorCache == [READ_ONLY |-> FALSE, BURSTS_EN |-> FALSE]
InstrCache == [READ_ONLY |-> TRUE, BURSTS_EN |-> TRUE]
MCGenerics == {DataCache, ErrorCache, InstrCache}

Swap == [addr : {A(0, 0, 0)}, data : {ZeroWord}, ben : {ByteSel}, rw : {0}, amo : {1}, stb : {1}]
MCHostReqs == [g \in MCGenerics |->
  CASE g = DataCache ->
         Access({A(0, 0, 0), A(0, 1, 0)}, {0}, {0}) \cup Access({A(0, 0, 0), A(1, 0, 1)}, {1}, {0})
           \cup Swap \cup Access({A(2, 0, 0)}, {1}, {0})
    [] g = ErrorCache ->
         Access({A(0, 0, 0)}, {0, 1}, {0}) \cup Access({A(0, 0, 0)}, {0}, {1})
           \cup Access({A(1, 0, 1)}, {0}, {0})
    [] g = InstrCache -> Access({A(0, 0, 0), A(1, 0, 0), A(0, 1, 1)}, {0}, {0})]

\* The other master writes where the data cache has no dirty block, and code.
MCOtherAddrs == [g \in MCGenerics |->
  CASE g = DataCache -> {A(0, 1, 0)} [] g = ErrorCache -> {A(1, 0, 1)} [] g = InstrCache -> {A(0, 0, 0)}]
MCErrAddrs == [g \in MCGenerics |-> IF g = ErrorCache THEN {A(0, 0, 0), A(1, 0, 0)} ELSE {}]
MCWords == {ZeroWord, One}
=============================================================================
