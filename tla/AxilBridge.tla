----------------------------- MODULE AxilBridge -----------------------------
(***************************************************************************)
(* sisAxiLiteM: one corebus request becomes one AXI4-Lite transaction.     *)
(* The channel signals of the other side are parameters: a handshake       *)
(* happens in a cycle in which VALID and READY are both high.              *)
(***************************************************************************)
EXTENDS CoreBus

VARIABLES
  state,
  req,       \* addr_reg, wdata_reg and we_reg
  rsp,       \* rdata_reg and err_reg
  aw_done, w_done

bridgeVars == << state, req, rsp, aw_done, w_done >>

BridgeStates ==
  {"S_IDLE", "S_RD_ADDR", "S_RD_DATA", "S_WR_ADDR", "S_WR_RESP", "S_RSP"}

BridgeTypeOK ==
  /\ state \in BridgeStates
  /\ req \in ReqSet
  /\ rsp \in RspSet
  /\ aw_done \in BOOLEAN
  /\ w_done \in BOOLEAN

BridgeInit ==
  /\ state = "S_IDLE"
  /\ req = Read(ResetAddr)
  /\ rsp = Rsp(Zero, FALSE)
  /\ aw_done = FALSE
  /\ w_done = FALSE

ReqReady == state = "S_IDLE"
RspValid == state = "S_RSP"
ArValid  == state = "S_RD_ADDR"
RReady   == state = "S_RD_DATA"
AwValid  == state = "S_WR_ADDR" /\ ~aw_done
WValid   == state = "S_WR_ADDR" /\ ~w_done
BReady   == state = "S_WR_RESP"

(* Variant: one of the two write handshakes is enough.                     *)
StateNextEither(accept, new, ar, r, aw, w, b, done) ==
  IF accept THEN IF new.we THEN "S_WR_ADDR" ELSE "S_RD_ADDR"
  ELSE IF ar THEN "S_RD_DATA"
  ELSE IF r \/ b THEN "S_RSP"
  ELSE IF aw \/ w THEN "S_WR_RESP"
  ELSE IF done THEN "S_IDLE"
  ELSE state

(* accept, ar, r, aw, w, b, done: the handshakes of the cycle on the       *)
(* corebus request, the five AXI channels and the corebus response.        *)
StateNext(accept, new, ar, r, aw, w, b, done) ==
  IF accept THEN IF new.we THEN "S_WR_ADDR" ELSE "S_RD_ADDR"
  ELSE IF ar THEN "S_RD_DATA"
  ELSE IF r \/ b THEN "S_RSP"
  ELSE IF state = "S_WR_ADDR" /\ (aw_done \/ aw) /\ (w_done \/ w)
    THEN "S_WR_RESP"
  ELSE IF done THEN "S_IDLE"
  ELSE state

(* Variant: the flags of the last write are kept.                          *)
DoneNextKept(done, accept, handshake) == done \/ handshake

DoneNext(done, accept, handshake) ==
  IF accept THEN FALSE ELSE done \/ handshake

(* Variant: only a failed read changes the error bit.                      *)
RspNextSticky(r, rdata, b, bresp) ==
  IF r THEN Rsp(rdata.data, rsp.err \/ rdata.err)
  ELSE IF b THEN bresp
  ELSE rsp

RspNext(r, rdata, b, bresp) ==
  IF r THEN rdata
  ELSE IF b THEN bresp
  ELSE rsp

BridgeEdge(accept, new, ar, r, rdata, aw, w, b, bresp, done) ==
  /\ state' = StateNext(accept, new, ar, r, aw, w, b, done)
  /\ req' = IF accept THEN new ELSE req
  /\ rsp' = RspNext(r, rdata, b, bresp)
  /\ aw_done' = DoneNext(aw_done, accept /\ new.we, aw)
  /\ w_done' = DoneNext(w_done, accept /\ new.we, w)
=============================================================================
