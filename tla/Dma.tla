---------------------------------- MODULE Dma ----------------------------------
(* The DMA controller, one clock edge at a time: control register, descriptor *)
(* FIFO, bus access engine and the alignment of its data.  A FIFO word is the *)
(* address or the configuration it carries; a data word is its four bytes.    *)
EXTENDS Integers

CONSTANTS
  FIFO_DEPTH,   \* entries of the descriptor FIFO
  NUM_MOD,      \* values of the element counter
  Unwritten     \* what a FIFO entry holds before it is written

VARIABLES ctrl, fifo, engine, data_buf
dmaVars == <<ctrl, fifo, engine, data_buf>>

ASSUME DmaAssumption == FIFO_DEPTH \in Nat \ {0} /\ NUM_MOD \in Nat \ {0}

Lane   == 0..3
InByte == {"CONST_BYTE", "INC_BYTE"}      \* transferred as bytes
Type   == InByte \cup {"CONST_WORD", "INC_WORD"}
Increment(type) == CASE type = "INC_BYTE" -> 1 [] type = "INC_WORD" -> 4 [] OTHER -> 0

\* Mutant: the FIFO keeps the last word of a descriptor.
FetchShort == {"S_GET_0", "S_GET_1"}

\* The states in which the FIFO is read.
Fetch   == {"S_GET_0", "S_GET_1", "S_GET_2"}
Waiting == {"S_READ_RSP", "S_WRITE_RSP"}

\* Accesses of the CPU to the two registers.
NoReq      == [op |-> "none"]
ReadCtrl   == [op |-> "read"]
WriteCtrl(en, start, ack) == [op |-> "write", en |-> en, start |-> start, ack |-> ack]
PushDesc(word) == [op |-> "desc", word |-> word]

DmaInit ==
  /\ ctrl = [enable |-> FALSE, start |-> FALSE, err |-> FALSE, done |-> FALSE]
  /\ \E a \in BOOLEAN :
       fifo = [mem |-> [i \in 0..FIFO_DEPTH - 1 |-> Unwritten], w_pnt |-> 0, r_pnt |-> 0,
               avail |-> a, rdata |-> Unwritten]
  /\ engine = [state |-> "S_CHECK", run |-> FALSE, done |-> FALSE, err |-> FALSE,
               src_addr |-> 0, dst_addr |-> 0, num |-> 0, num_or |-> FALSE,
               bswap |-> FALSE, src_type |-> "CONST_BYTE", dst_type |-> "CONST_BYTE"]
  /\ data_buf = [l \in Lane |-> 0]

-----------------------------------------------------------------------------
(* Control register. *)

\* Mutant: DONE is a pulse.
ctrl_writePulse(req) ==
  LET w      == req.op = "write"
      clears == w /\ (req.start \/ req.ack)
      keep   == ctrl.enable /\ ~clears
  IN ctrl' = [enable |-> IF w THEN req.en ELSE ctrl.enable,
              start  |-> w /\ req.start,
              err    |-> keep /\ (ctrl.err \/ engine.err),
              done   |-> keep /\ engine.done]

ctrl_write(req) ==
  LET w      == req.op = "write"
      clears == w /\ (req.start \/ req.ack)
      keep   == ctrl.enable /\ ~clears
  IN ctrl' = [enable |-> IF w THEN req.en ELSE ctrl.enable,
              start  |-> w /\ req.start,
              err    |-> keep /\ (ctrl.err \/ engine.err),
              done   |-> keep /\ (ctrl.done \/ engine.done)]

(* Descriptor FIFO: synchronous read, `avail` a cycle behind the pointers. *)

Slot(pnt) == pnt % FIFO_DEPTH
Empty == fifo.w_pnt = fifo.r_pnt
Full  == fifo.w_pnt # fifo.r_pnt /\ Slot(fifo.w_pnt) = Slot(fifo.r_pnt)

descriptor_buffer(req) ==
  LET Ahead(pnt, moves) ==
        IF ~ctrl.enable THEN 0
        ELSE IF moves THEN (pnt + 1) % (2 * FIFO_DEPTH) ELSE pnt
      we == req.op = "desc" /\ ~Full
      re == engine.state \in Fetch /\ ~Empty
  IN fifo' = [mem   |-> IF we THEN [fifo.mem EXCEPT ![Slot(fifo.w_pnt)] = req.word] ELSE fifo.mem,
              w_pnt |-> Ahead(fifo.w_pnt, we),
              r_pnt |-> Ahead(fifo.r_pnt, re),
              avail |-> ~Empty,
              rdata |-> fifo.mem[Slot(fifo.r_pnt)]]

\* What a read of the control register shows.
CtrlValue == [enable |-> ctrl.enable, full |-> Full, err |-> ctrl.err,
              done |-> ctrl.done, busy |-> engine.run]

-----------------------------------------------------------------------------
(* Bus access engine. *)

Idle ==
  /\ engine.state = "S_CHECK" /\ ~engine.run
  /\ LET go == fifo.avail /\ ctrl.start /\ ~ctrl.err
     IN engine' = [engine EXCEPT !.done = FALSE, !.err = FALSE, !.num_or = FALSE, !.run = go,
                                 !.state = IF go THEN "S_GET_0" ELSE "S_CHECK"]

NextDescriptor ==
  /\ engine.state = "S_CHECK" /\ engine.run
  /\ LET go == fifo.avail /\ ~engine.err /\ ~ctrl.err
     IN engine' = [engine EXCEPT !.done = ~go, !.err = FALSE, !.num_or = FALSE, !.run = go,
                                 !.state = IF go THEN "S_GET_0" ELSE "S_CHECK"]

\* The synchronous read takes a cycle.
Get0 == engine.state = "S_GET_0" /\ engine' = [engine EXCEPT !.state = "S_GET_1"]
Get1 ==
  /\ engine.state = "S_GET_1"
  /\ engine' = [engine EXCEPT !.src_addr = fifo.rdata.addr,
                              !.state = IF fifo.avail THEN "S_GET_2" ELSE @]
Get2 ==
  /\ engine.state = "S_GET_2"
  /\ engine' = [engine EXCEPT !.dst_addr = fifo.rdata.addr,
                              !.state = IF fifo.avail THEN "S_GET_3" ELSE @]
Get3 ==
  /\ engine.state = "S_GET_3"
  /\ LET conf == fifo.rdata.conf
     IN engine' = [engine EXCEPT !.num = conf.num, !.bswap = conf.bswap, !.src_type = conf.src,
                                 !.dst_type = conf.dst, !.state = "S_READ_REQ"]

\* The destination advances from the second element on.
ReadReq ==
  /\ engine.state = "S_READ_REQ"
  /\ engine' = [engine EXCEPT !.dst_addr = IF engine.num_or THEN @ + Increment(engine.dst_type) ELSE @,
                              !.num = (@ - 1) % NUM_MOD, !.state = "S_READ_RSP"]
ReadRsp(rsp) ==
  /\ engine.state = "S_READ_RSP"
  /\ engine' = IF ~rsp.ack THEN engine
               ELSE [engine EXCEPT !.err = rsp.err,
                                   !.state = IF rsp.err THEN "S_CHECK" ELSE "S_WRITE_REQ"]
WriteReq ==
  /\ engine.state = "S_WRITE_REQ"
  /\ engine' = [engine EXCEPT !.src_addr = @ + Increment(engine.src_type),
                              !.num_or = engine.num # 0, !.state = "S_WRITE_RSP"]

\* Mutant: the transfer goes on after the DMA was disabled.
WriteRspDeaf(rsp) ==
  /\ engine.state = "S_WRITE_RSP"
  /\ engine' = IF ~rsp.ack THEN engine
               ELSE [engine EXCEPT !.err = rsp.err,
                                   !.state = IF ~engine.num_or \/ rsp.err
                                             THEN "S_CHECK" ELSE "S_READ_REQ"]

WriteRsp(rsp) ==
  /\ engine.state = "S_WRITE_RSP"
  /\ engine' = IF ~rsp.ack THEN engine
               ELSE [engine EXCEPT !.err = rsp.err,
                                   !.state = IF ~engine.num_or \/ ~ctrl.enable \/ rsp.err
                                             THEN "S_CHECK" ELSE "S_READ_REQ"]

bus_engine(rsp) ==
  \/ Idle \/ NextDescriptor \/ Get0 \/ Get1 \/ Get2 \/ Get3
  \/ ReadReq \/ ReadRsp(rsp) \/ WriteReq \/ WriteRsp(rsp)

-----------------------------------------------------------------------------
(* Data path. *)

\* A byte is repeated on all lanes.
src_align(rsp) ==
  data_buf' = IF ~(engine.state = "S_READ_RSP" /\ rsp.ack) THEN data_buf
              ELSE IF engine.src_type \in InByte
                   THEN [l \in Lane |-> rsp.data[engine.src_addr % 4]]
                   ELSE rsp.data

\* Mutant: the byte order is swapped in the data only.
LaneOfUnmirrored(addr) == addr % 4

\* The lane of a byte write.
LaneOf(addr) == IF engine.bswap THEN 3 - (addr % 4) ELSE addr % 4

\* The request of the engine; `data` and `ben` are a write's.
bus_control ==
  LET reads == engine.state \in {"S_READ_REQ", "S_READ_RSP"}
  IN [rw   |-> ~reads,
      addr |-> (IF reads THEN engine.src_addr ELSE engine.dst_addr) \div 4,
      ben  |-> IF engine.dst_type \in InByte THEN {LaneOf(engine.dst_addr)} ELSE Lane,
      data |-> [l \in Lane |-> IF engine.bswap THEN data_buf[3 - l] ELSE data_buf[l]]]

\* The clock edge, with the CPU's request and the response to the engine.
DmaEdge(req, rsp) ==
  ctrl_write(req) /\ descriptor_buffer(req) /\ bus_engine(rsp) /\ src_align(rsp)

EngineFetches == engine.state = "S_READ_REQ" /\ ~engine.num_or
=============================================================================
