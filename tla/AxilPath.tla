------------------------------ MODULE AxilPath ------------------------------
(***************************************************************************)
(* The memory path of the AXI build: the arbiter of sisPlatformTop merges  *)
(* the instruction and the data port of the core onto the bridge, data     *)
(* first, and remembers whose transaction is in flight; the bridge talks   *)
(* to the AXI4-Lite slave.  One step is one clock with the inputs c:       *)
(*   c.i, c.d           the requests the ports present, or NoReq           *)
(*   c.listen           the ports whose rsp_ready is high                  *)
(*   c.ar, c.aw, c.w    the slave's address and data channels do not stall *)
(*   c.stall            its responses do                                   *)
(* A port may withdraw or change a request that was not taken; it presents *)
(* none while it waits for a response.                                     *)
(***************************************************************************)
EXTENDS AxilBridge, AxilSlave

VARIABLES
  axi_arb_owner, axi_arb_pending,
  asked,     \* history: the request each port waits for
  heard      \* history: what each port received since the last acceptance

arbVars == << axi_arb_owner, axi_arb_pending, asked, heard >>
vars == << bridgeVars, slaveVars, arbVars >>

(* The inputs of a cycle; one that nothing samples has a single value.     *)
Offers(p) ==
  {NoReq} \cup (IF asked[p].valid THEN {} ELSE Requests(p))

Sampled(when) == IF when THEN BOOLEAN ELSE {FALSE}

Inputs ==
  [i : Offers("I"), d : Offers("D"),
   listen : IF RspValid THEN SUBSET Port ELSE {{}},
   ar : Sampled(ArValid), aw : Sampled(AwValid), w : Sampled(WValid),
   stall : Sampled(\/ ArValid
                   \/ rd_state = "RD_WAIT"
                   \/ wr_state \in {"WR_EXEC", "WR_WAIT"})]

TypeOK ==
  /\ BridgeTypeOK
  /\ SlaveTypeOK
  /\ axi_arb_owner \in {"none"} \cup Port
  /\ axi_arb_pending \in BOOLEAN
  /\ asked \in [Port -> {NoReq} \cup ReqSet]
  /\ heard \in [Port -> {NoRsp} \cup RspSet]

Init ==
  /\ BridgeInit
  /\ SlaveInit
  /\ axi_arb_owner = "none"
  /\ axi_arb_pending = FALSE
  /\ asked = [p \in Port |-> NoReq]
  /\ heard = [p \in Port |-> NoRsp]

(* The arbiter: D before I, nothing while a transaction is in flight.      *)
CoreReqValid(c) == ~axi_arb_pending /\ (c.d.valid \/ c.i.valid)
CoreReq(c)      == IF c.d.valid THEN c.d ELSE c.i
Accept(c)       == CoreReqValid(c) /\ ReqReady

(* Variant: a request of both ports is booked for I.                       *)
OwnerInstrFirst(c) == IF c.i.valid THEN "I" ELSE "D"
Owner(c)           == IF c.d.valid THEN "D" ELSE "I"

Done(c) == RspValid /\ axi_arb_owner \in c.listen

OwnerNext(c) ==
  IF Accept(c) THEN Owner(c) ELSE IF Done(c) THEN "none" ELSE axi_arb_owner

PendingNext(c) ==
  IF Accept(c) THEN TRUE ELSE IF Done(c) THEN FALSE ELSE axi_arb_pending

(* The ready signal each port sees.                                        *)
Granted(p, c) ==
  /\ ~axi_arb_pending /\ ReqReady
  /\ IF p = "D" THEN c.d.valid ELSE c.i.valid /\ ~c.d.valid

AskedNext(p, c) ==
  IF Granted(p, c) THEN IF p = "D" THEN c.d ELSE c.i
  ELSE IF Done(c) /\ axi_arb_owner = p THEN NoReq
  ELSE asked[p]

HeardNext(p, c) ==
  IF Accept(c) THEN NoRsp
  ELSE IF Done(c) /\ axi_arb_owner = p THEN rsp
  ELSE heard[p]

(* Handshakes of the AXI channels.                                         *)
ArFire(c) == ArValid /\ ArOpen /\ c.ar
AwFire(c) == AwValid /\ AwOpen /\ c.aw
WFire(c)  == WValid /\ WOpen /\ c.w
RFire     == RValid /\ RReady
BFire     == BValid /\ BReady

Cycle(c) ==
  /\ BridgeEdge(Accept(c), CoreReq(c), ArFire(c), RFire, rd_rsp, AwFire(c),
                WFire(c), BFire, wr_rsp, Done(c))
  /\ ReadEdge(ArFire(c), req.addr, c.stall, RFire)
  /\ WriteEdge(AwFire(c), req.addr, WFire(c), req.data, c.stall, BFire)
  /\ axi_arb_owner' = OwnerNext(c)
  /\ axi_arb_pending' = PendingNext(c)
  /\ asked' = [p \in Port |-> AskedNext(p, c)]
  /\ heard' = [p \in Port |-> HeardNext(p, c)]

Next == \E c \in Inputs : Cycle(c)

Spec == Init /\ [][Next]_vars

(***************************************************************************)
(* Fairness: the clock runs, no AXI channel stalls for ever and a port     *)
(* that waits for a response takes it in the end (FetchUnit and BackEnd    *)
(* raise rsp_ready while they wait).  Nothing forces a port to ask.        *)
(***************************************************************************)
Moving ==
  /\ state # "S_IDLE"
  /\ Next
  /\ << bridgeVars, slaveVars >>' # << bridgeVars, slaveVars >>

FairSpec == Spec /\ WF_vars(Moving)

-----------------------------------------------------------------------------
(* Properties.                                                             *)

(* The bridge, the slave and the arbiter agree how far the transaction in  *)
(* flight has come.                                                        *)
Phase ==
  /\ axi_arb_pending <=> state # "S_IDLE"
  /\ axi_arb_pending <=> axi_arb_owner # "none"
  /\ state = "S_RD_DATA" <=> rd_state # "RD_IDLE"
  /\ state = "S_WR_RESP" <=> wr_state \in {"WR_EXEC", "WR_WAIT", "WR_RESP"}
  /\ state = "S_WR_ADDR" =>
       wr_state = IF aw_done THEN "WR_GOT_AW"
                  ELSE IF w_done THEN "WR_GOT_W" ELSE "WR_IDLE"
  /\ state = "S_WR_ADDR" => ~(aw_done /\ w_done)
  /\ wr_state # "WR_IDLE" => state \in {"S_WR_ADDR", "S_WR_RESP"}

(* What travels is what the owner asked for, at every station.             *)
Carried ==
  /\ \A p \in Port : asked[p].valid <=> axi_arb_owner = p
  /\ \A p \in Port : axi_arb_owner = p => asked[p] = req
  /\ state \in {"S_RD_ADDR", "S_RD_DATA"} => ~req.we
  /\ state \in {"S_WR_ADDR", "S_WR_RESP"} => req.we
  /\ state = "S_RD_DATA" => rd_addr = req.addr
  /\ wr_state \notin {"WR_IDLE", "WR_GOT_W"} => wr_addr = req.addr
  /\ wr_state \notin {"WR_IDLE", "WR_GOT_AW"} => wr_data = req.data

IInv == TypeOK /\ Phase /\ Carried

(***************************************************************************)
(* The path implements an atomic memory with two ports: each request is    *)
(* performed exactly once, between its acceptance and its response, and    *)
(* the answer, with its error, reaches the port that asked.                *)
(***************************************************************************)
AnswerNow ==
  IF state = "S_RSP" THEN rsp
  ELSE IF rd_state = "RD_RESP" THEN rd_rsp
  ELSE IF wr_state \in {"WR_WAIT", "WR_RESP"} THEN wr_rsp
  ELSE NoRsp

Memory == INSTANCE PortMemory WITH answer <- AnswerNow

ImplementsPortMemory == Memory!Spec

(* VALID and its payload stay until the handshake, on every channel and on *)
(* the corebus response: it falls only in a step in which the other side   *)
(* has taken what it announced.                                            *)
ValidStable ==
  [][/\ ArValid => IF ArValid' THEN UNCHANGED req ELSE rd_addr' = req.addr
     /\ AwValid => IF AwValid' THEN UNCHANGED req
                   ELSE /\ wr_addr' = req.addr
                        /\ wr_state' \in {"WR_GOT_AW", "WR_EXEC"}
     /\ WValid => IF WValid' THEN UNCHANGED req
                  ELSE /\ wr_data' = req.data
                       /\ wr_state' \in {"WR_GOT_W", "WR_EXEC"}
     /\ RValid => IF RValid' THEN UNCHANGED rd_rsp ELSE rsp' = rd_rsp
     /\ BValid => IF BValid' THEN UNCHANGED wr_rsp ELSE rsp' = wr_rsp
     /\ RspValid => IF RspValid' THEN UNCHANGED rsp
                    ELSE heard'[axi_arb_owner] = rsp]_vars

(* Every accepted request is answered, whatever the channels do.           *)
Answered == \A p \in Port : asked[p].valid ~> ~asked[p].valid
=============================================================================
