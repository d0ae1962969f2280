------------------------------- MODULE BusReg -------------------------------
(* neorv32_bus_reg: the register stage in front of the IO devices, one clock *)
(* for the request and one for the response.                                 *)
EXTENDS Integers

VARIABLES
  dev_req,     \* device_req_o: adr, data, rw, stb
  dev_rsp      \* host_rsp_o: ack, data

busRegVars == <<dev_req, dev_rsp>>

BusRegInit ==
  /\ dev_req = [adr |-> 0, data |-> 0, rw |-> 0, stb |-> 0]
  /\ dev_rsp = [ack |-> 0, data |-> 0]

\* A new request replaces the old one; otherwise only the strobe passes.
BusRegTick(host_req, device_rsp) ==
  /\ dev_req' = IF host_req.stb = 1 THEN host_req ELSE [dev_req EXCEPT !.stb = 0]
  /\ dev_rsp' = device_rsp
=============================================================================
