---------------------------- MODULE SharedMemory ----------------------------
(* What the data-memory subsystem promises its two masters, without clocks,  *)
(* arbiter or bus: a store of rows on which each master has at most one      *)
(* operation, performed at one instant between its issue and its answer.     *)
(* The CPU's operation may fail instead; a failed operation was never        *)
(* performed.  The accelerator's operation never fails.                      *)
EXTENDS DmemTypes

CONSTANTS CpuOps, DmaOps    \* operations the masters may issue

VARIABLES
  store,                           \* row index -> row
  cpu_phase, cpu_op, cpu_val,      \* the CPU's operation and its read result
  dma_phase, dma_op, dma_val       \* the accelerator's

absVars == <<store, cpu_phase, cpu_op, cpu_val, dma_phase, dma_op, dma_val>>

Rows == 0..NUM_WORDS - 1

Init ==
  /\ store \in [Rows -> Row]
  /\ cpu_phase = "idle" /\ cpu_op = CpuReqIdle /\ cpu_val = ZeroWord
  /\ dma_phase = "idle" /\ dma_op = MemReqIdle /\ dma_val = ZeroRow

cpuVars == <<cpu_phase, cpu_op, cpu_val>>
dmaVars == <<dma_phase, dma_op, dma_val>>

RowAt(r) == IF r < NUM_WORDS THEN store[r] ELSE ZeroRow

-----------------------------------------------------------------------------
(* Steps of one master that leave the store alone. *)

CpuIssue ==
  /\ cpu_phase \in {"idle", "done", "failed"}
  /\ cpu_phase' = "pending"
  /\ cpu_op' \in CpuOps
  /\ cpu_val' = ZeroWord

CpuRest ==
  /\ cpu_phase \in {"done", "failed"}
  /\ cpu_phase' = "idle" /\ cpu_op' = CpuReqIdle /\ cpu_val' = ZeroWord

CpuFail ==
  /\ cpu_phase = "pending"
  /\ cpu_phase' = "failed"
  /\ UNCHANGED <<cpu_op, cpu_val>>

CpuStep == CpuIssue \/ CpuRest \/ CpuFail \/ UNCHANGED cpuVars

DmaIssue ==
  /\ dma_phase = "idle"
  /\ dma_phase' = "pending"
  /\ dma_op' \in DmaOps
  /\ dma_val' = ZeroRow

DmaRest ==
  /\ dma_phase = "done"
  /\ dma_phase' = "idle" /\ dma_op' = MemReqIdle /\ dma_val' = ZeroRow

DmaStep == DmaIssue \/ DmaRest \/ UNCHANGED dmaVars

-----------------------------------------------------------------------------
(* The instant at which an operation takes effect. *)

CpuPerform ==
  /\ cpu_phase = "pending" /\ cpu_phase' = "done"
  /\ UNCHANGED cpu_op
  /\ IF cpu_op.rw = 1
     THEN /\ store' = [r \in Rows |-> IF r = cpu_op.row
                         THEN [store[r] EXCEPT ![cpu_op.lane] = MergeWord(@, cpu_op.wdata, cpu_op.be)]
                         ELSE store[r]]
          /\ UNCHANGED cpu_val
     ELSE /\ cpu_val' = RowAt(cpu_op.row)[cpu_op.lane]
          /\ UNCHANGED store

DmaPerform ==
  /\ dma_phase = "pending" /\ dma_phase' = "done"
  /\ UNCHANGED dma_op
  /\ IF dma_op.rw = 1
     THEN /\ store' = [r \in Rows |-> IF r = dma_op.row
                         THEN MergeRow(store[r], dma_op.wdata, dma_op.be)
                         ELSE store[r]]
          /\ UNCHANGED dma_val
     ELSE /\ dma_val' = RowAt(dma_op.row)
          /\ UNCHANGED store

Reset ==
  /\ cpu_phase' = "idle" /\ cpu_op' = CpuReqIdle /\ cpu_val' = ZeroWord
  /\ dma_phase' = "idle" /\ dma_op' = MemReqIdle /\ dma_val' = ZeroRow
  /\ UNCHANGED store

Next ==
  \/ CpuStep /\ DmaStep /\ UNCHANGED store
  \/ CpuPerform /\ DmaStep
  \/ DmaPerform /\ CpuStep
  \/ Reset

Spec == Init /\ [][Next]_absVars
=============================================================================
