------------------------------ MODULE AxilSlave ------------------------------
(***************************************************************************)
(* The handshakes of sisAxiLiteSlave around its memory: independent read   *)
(* and write machines whose channels stall at random.  AW and W arrive     *)
(* together or in either order; the write happens in WR_EXEC.              *)
(***************************************************************************)
EXTENDS CoreBus

VARIABLES
  mem,
  rd_state, rd_addr, rd_rsp,
  wr_state, wr_addr, wr_data, wr_rsp

slaveVars == << mem, rd_state, rd_addr, rd_rsp, wr_state, wr_addr, wr_data,
                wr_rsp >>

SlaveTypeOK ==
  /\ mem \in [Addr -> Val]
  /\ rd_state \in {"RD_IDLE", "RD_WAIT", "RD_RESP"}
  /\ rd_addr \in Addr
  /\ rd_rsp \in RspSet
  /\ wr_state \in {"WR_IDLE", "WR_GOT_AW", "WR_GOT_W", "WR_EXEC", "WR_WAIT",
                   "WR_RESP"}
  /\ wr_addr \in Addr
  /\ wr_data \in Val
  /\ wr_rsp \in RspSet

SlaveInit ==
  /\ mem \in [Addr -> Val]
  /\ rd_state = "RD_IDLE"
  /\ rd_addr = ResetAddr
  /\ rd_rsp = Rsp(Zero, FALSE)
  /\ wr_state = "WR_IDLE"
  /\ wr_addr = ResetAddr
  /\ wr_data = Zero
  /\ wr_rsp = Rsp(Zero, FALSE)

(* What the slave can accept when the channel does not stall.              *)
ArOpen == rd_state = "RD_IDLE"
AwOpen == wr_state \in {"WR_IDLE", "WR_GOT_W"}
WOpen  == wr_state \in {"WR_IDLE", "WR_GOT_AW"}
RValid == rd_state = "RD_RESP"
BValid == wr_state = "WR_RESP"

(* The read is performed as its address arrives, or after a stall.         *)
ReadAt(ar, araddr) == IF ar THEN araddr ELSE rd_addr
Performs(ar, stall) == ~stall /\ (ar \/ rd_state = "RD_WAIT")

ReadEdge(ar, araddr, stall, r) ==
  /\ rd_state' = IF Performs(ar, stall) THEN "RD_RESP"
                 ELSE IF ar THEN "RD_WAIT"
                 ELSE IF r THEN "RD_IDLE"
                 ELSE rd_state
  /\ rd_addr' = ReadAt(ar, araddr)
  /\ rd_rsp' = IF Performs(ar, stall)
                 THEN Loaded(mem, ReadAt(ar, araddr)) ELSE rd_rsp

WrStateNext(aw, w, stall, b) ==
  IF (aw \/ wr_state = "WR_GOT_AW") /\ (w \/ wr_state = "WR_GOT_W")
    THEN "WR_EXEC"
  ELSE IF aw THEN "WR_GOT_AW"
  ELSE IF w THEN "WR_GOT_W"
  ELSE IF wr_state = "WR_EXEC" THEN IF stall THEN "WR_WAIT" ELSE "WR_RESP"
  ELSE IF wr_state = "WR_WAIT" /\ ~stall THEN "WR_RESP"
  ELSE IF b THEN "WR_IDLE"
  ELSE wr_state

WriteEdge(aw, awaddr, w, wdata, stall, b) ==
  /\ wr_state' = WrStateNext(aw, w, stall, b)
  /\ wr_addr' = IF aw THEN awaddr ELSE wr_addr
  /\ wr_data' = IF w THEN wdata ELSE wr_data
  /\ mem' = IF wr_state = "WR_EXEC" THEN Stored(mem, wr_addr, wr_data)
                                    ELSE mem
  /\ wr_rsp' = IF wr_state = "WR_EXEC" THEN Written(wr_addr) ELSE wr_rsp
=============================================================================
