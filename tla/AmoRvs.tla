------------------------------- MODULE AmoRvs -------------------------------
(* neorv32_bus_amo_rvs: the reservation station behind LR and SC.  There is  *)
(* one reservation for all harts; a turn bit decides who may take it away.   *)
EXTENDS BusSwitch

CONSTANTS
  Addr,     \* addresses
  Granule   \* Granule[a]: the 64-byte granule of an address

VARIABLE rvs   \* the reservation, the turn and the pending SC

rvs_t == [set : Bit, id : Bit, addr : {Granule[a] : a \in Addr}, turn : Bit,
          sc_pend_pass : Bit, sc_pend_fail : Bit]

RvsTypeOK == rvs \in rvs_t

\* Out of reset the address is that of granule 0.
RvsInit ==
  rvs = [set |-> 0, id |-> 0, addr |-> CHOOSE g \in {Granule[a] : a \in Addr} : TRUE,
         turn |-> 0, sc_pend_pass |-> 0, sc_pend_fail |-> 0]

\* id is the low bit of the hart number; the DMA carries hart 0's.
lr_allow(core) == rvs.set = 0 \/ rvs.id = core.id \/ rvs.turn = core.id
sc_valid(core) == rvs.set = 1 /\ rvs.id = core.id /\ rvs.addr = Granule[core.addr]

\* An SC that fails goes on as a read, to find access faults.
rvs_req(core) ==
  IF core.op = "SC" /\ ~sc_valid(core) THEN [core EXCEPT !.rw = 0, !.op = "none"] ELSE core

rvs_rsp(sys) ==
  [sys EXCEPT !.data = IF rvs.sc_pend_fail = 1 THEN 1 ELSE IF rvs.sc_pend_pass = 1 THEN 0 ELSE @]

\* Mutants: other writes leave the reservation alone; the turn counts on.
ReservationKept(core) ==
  CASE core.stb = 0 -> rvs
    [] core.stb = 1 /\ core.op = "LR" ->
         IF lr_allow(core)
         THEN [rvs EXCEPT !.set = 1, !.id = core.id, !.addr = Granule[core.addr]] ELSE rvs
    [] core.stb = 1 /\ core.op = "SC" ->
         IF sc_valid(core) THEN [rvs EXCEPT !.set = 0, !.turn = 1 - @]
         ELSE IF rvs.id = core.id THEN [rvs EXCEPT !.set = 0] ELSE rvs
    [] OTHER -> rvs

ReservationCounts(core) ==
  IF core.stb = 1 /\ core.op = "SC" /\ sc_valid(core)
  THEN [rvs EXCEPT !.set = 0, !.turn = @ + 1]
  ELSE IF core.stb = 1 /\ core.op = "LR" /\ lr_allow(core)
  THEN [rvs EXCEPT !.set = 1, !.id = core.id, !.addr = Granule[core.addr]] ELSE rvs

\* The reservation after a request.
Reservation(core) ==
  CASE core.stb = 0 -> rvs
    [] core.stb = 1 /\ core.op = "LR" ->
         IF lr_allow(core)
         THEN [rvs EXCEPT !.set = 1, !.id = core.id, !.addr = Granule[core.addr]] ELSE rvs
    [] core.stb = 1 /\ core.op = "SC" ->
         IF sc_valid(core) THEN [rvs EXCEPT !.set = 0, !.turn = 1 - @]
         ELSE IF rvs.id = core.id THEN [rvs EXCEPT !.set = 0] ELSE rvs
    [] OTHER ->
         IF core.rw = 1 /\ Granule[core.addr] = rvs.addr THEN [rvs EXCEPT !.set = 0] ELSE rvs

RvsTick(core, sys) ==
  LET sc == core.stb = 1 /\ core.op = "SC"
      r  == Reservation(core)
  IN rvs' = [r EXCEPT
       !.sc_pend_pass = IF sc /\ sc_valid(core) THEN 1 ELSE IF ~sc /\ sys.ack = 1 THEN 0 ELSE @,
       !.sc_pend_fail = IF sc /\ ~sc_valid(core) THEN 1 ELSE IF ~sc /\ sys.ack = 1 THEN 0 ELSE @]
=============================================================================
