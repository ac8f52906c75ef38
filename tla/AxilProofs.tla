----------------------------- MODULE AxilProofs -----------------------------
(***************************************************************************)
(* Theorems about AxilPath, for every memory map, every number of words    *)
(* and every behaviour of ports and channels.  IInv says of each phase of  *)
(* a transaction where bridge, slave and arbiter stand and what the        *)
(* registers on its way carry; it is inductive, and it determines for      *)
(* each phase which action of PortMemory a clock edge is.                  *)
(***************************************************************************)
EXTENDS AxilPath, TLAPS

(* A request of a port is a valid request of the bus.                      *)
LEMMA RequestType ==
  ASSUME NEW p \in Port, NEW r \in Requests(p)
  PROVE  r \in ReqSet /\ r.valid
<1>1. \A a \in Addr : Read(a) \in ReqSet /\ Read(a).valid
  BY CoreBusAssumption DEF Read, ReqSet
<1>2. \A a \in Addr, v \in Val : Write(a, v) \in ReqSet /\ Write(a, v).valid
  BY DEF Write, ReqSet
<1>3. QED BY <1>1, <1>2 DEF Requests

(* What a memory answers is a response, whatever it is asked.              *)
LEMMA ResponseType ==
  ASSUME NEW m \in [Addr -> Val], NEW a \in Addr
  PROVE  Loaded(m, a) \in RspSet /\ Written(a) \in RspSet
BY CoreBusAssumption DEF Loaded, Written, Rsp, RspSet

(* A write keeps the memory a memory.                                      *)
LEMMA StoredType ==
  ASSUME NEW m \in [Addr -> Val], NEW a \in Addr, NEW v \in Val
  PROVE  Stored(m, a, v) \in [Addr -> Val]
BY DEF Stored

(* The records that stand for nothing are told apart by their valid line.  *)
LEMMA ValidFields ==
  /\ \A r \in ReqSet : r.valid /\ r.addr \in Addr /\ r.data \in Val
                       /\ r.we \in BOOLEAN
  /\ \A r \in RspSet : r.valid
  /\ ~NoReq.valid /\ ~NoRsp.valid
BY DEF ReqSet, RspSet, NoReq, NoRsp

LEMMA InputType ==
  ASSUME NEW c \in Inputs
  PROVE  /\ c.i \in {NoReq} \cup Requests("I")
         /\ c.d \in {NoReq} \cup Requests("D")
         /\ c.listen \subseteq Port
         /\ c.ar \in BOOLEAN /\ c.aw \in BOOLEAN /\ c.w \in BOOLEAN
         /\ c.stall \in BOOLEAN
BY DEF Inputs, Offers, Sampled

(* The arbiter hands on a request of the port it books.                    *)
LEMMA AcceptedRequest ==
  ASSUME NEW c \in Inputs, Accept(c)
  PROVE  /\ Owner(c) \in Port
         /\ CoreReq(c) \in Requests(Owner(c))
         /\ \A p \in Port : Granted(p, c) <=> p = Owner(c)
         /\ \A p \in Port : AskedNext(p, c) = IF p = Owner(c) THEN CoreReq(c)
                            ELSE IF Done(c) /\ axi_arb_owner = p THEN NoReq
                            ELSE asked[p]
<1>1. c.i.valid => c.i \in Requests("I")
  BY InputType, ValidFields
<1>2. c.d.valid => c.d \in Requests("D")
  BY InputType, ValidFields
<1>3. QED
  BY <1>1, <1>2 DEF Accept, CoreReqValid, CoreReq, Owner, Granted, AskedNext,
                    Port

-----------------------------------------------------------------------------
(* IInv is inductive: one step per phase of the transaction.               *)

LEMMA TypeStep ==
  ASSUME IInv, NEW c \in Inputs, Cycle(c)
  PROVE  TypeOK'
<1>1. /\ ReadAt(ArFire(c), req.addr) \in Addr
      /\ req \in ReqSet /\ req.addr \in Addr /\ req.data \in Val
      /\ wr_addr \in Addr /\ wr_data \in Val /\ mem \in [Addr -> Val]
  BY ValidFields DEF IInv, TypeOK, BridgeTypeOK, SlaveTypeOK, ReadAt
<1>2. Accept(c) => CoreReq(c) \in ReqSet
  BY AcceptedRequest, RequestType
<1>3. BridgeTypeOK'
  <2>1. state' \in BridgeStates
    BY DEF IInv, TypeOK, BridgeTypeOK, Cycle, BridgeEdge, StateNext,
           BridgeStates
  <2>2. req' \in ReqSet
    BY <1>1, <1>2 DEF Cycle, BridgeEdge
  <2>3. rsp' \in RspSet
    BY DEF IInv, TypeOK, BridgeTypeOK, SlaveTypeOK, Cycle, BridgeEdge, RspNext
  <2>4. aw_done' \in BOOLEAN /\ w_done' \in BOOLEAN
    BY DEF IInv, TypeOK, BridgeTypeOK, Cycle, BridgeEdge, DoneNext, AwFire,
           WFire, AwValid, WValid
  <2>5. QED BY <2>1, <2>2, <2>3, <2>4 DEF BridgeTypeOK
<1>4. SlaveTypeOK'
  <2>1. /\ rd_state' \in {"RD_IDLE", "RD_WAIT", "RD_RESP"}
        /\ rd_addr' \in Addr
    BY <1>1 DEF IInv, TypeOK, SlaveTypeOK, Cycle, ReadEdge
  <2>2. rd_rsp' \in RspSet
    BY <1>1, ResponseType DEF IInv, TypeOK, SlaveTypeOK, Cycle, ReadEdge
  <2>3. wr_state' \in {"WR_IDLE", "WR_GOT_AW", "WR_GOT_W", "WR_EXEC",
                       "WR_WAIT", "WR_RESP"}
    BY DEF IInv, TypeOK, SlaveTypeOK, Cycle, WriteEdge, WrStateNext
  <2>4. wr_addr' \in Addr /\ wr_data' \in Val
    BY <1>1 DEF Cycle, WriteEdge
  <2>5. mem' \in [Addr -> Val] /\ wr_rsp' \in RspSet
    BY <1>1, ResponseType, StoredType DEF IInv, TypeOK, SlaveTypeOK, Cycle,
       WriteEdge
  <2>6. QED BY <2>1, <2>2, <2>3, <2>4, <2>5 DEF SlaveTypeOK
<1>5. axi_arb_owner' \in {"none"} \cup Port /\ axi_arb_pending' \in BOOLEAN
  BY AcceptedRequest DEF IInv, TypeOK, Cycle, OwnerNext, PendingNext
<1>6. asked' \in [Port -> {NoReq} \cup ReqSet]
  <2>1. \A p \in Port : AskedNext(p, c) \in {NoReq} \cup ReqSet
    BY InputType, RequestType DEF IInv, TypeOK, AskedNext, Port
  <2>2. QED BY <2>1 DEF Cycle
<1>7. heard' \in [Port -> {NoRsp} \cup RspSet]
  BY DEF IInv, TypeOK, BridgeTypeOK, Cycle, HeardNext
<1>8. QED BY <1>3, <1>4, <1>5, <1>6, <1>7 DEF TypeOK

(* What a clock edge does to a transaction, phase by phase.                *)
LEMMA PhaseStep ==
  ASSUME IInv, NEW c \in Inputs, Cycle(c)
  PROVE  Phase' /\ Carried'
<1> USE DEF ReqReady, RspValid, ArValid, RReady, AwValid, WValid, BReady,
            ArOpen, AwOpen, WOpen, RValid, BValid
<1> DEFINE acc == Accept(c)
           own == Owner(c)
           new == CoreReq(c)
           done == Done(c)
<1>1. /\ state' = StateNext(acc, new, ArFire(c), RFire, AwFire(c), WFire(c),
                            BFire, done)
      /\ req' = IF acc THEN new ELSE req
      /\ aw_done' = DoneNext(aw_done, acc /\ new.we, AwFire(c))
      /\ w_done' = DoneNext(w_done, acc /\ new.we, WFire(c))
      /\ rd_state' = IF Performs(ArFire(c), c.stall) THEN "RD_RESP"
                     ELSE IF ArFire(c) THEN "RD_WAIT"
                     ELSE IF RFire THEN "RD_IDLE" ELSE rd_state
      /\ rd_addr' = ReadAt(ArFire(c), req.addr)
      /\ wr_state' = WrStateNext(AwFire(c), WFire(c), c.stall, BFire)
      /\ wr_addr' = IF AwFire(c) THEN req.addr ELSE wr_addr
      /\ wr_data' = IF WFire(c) THEN req.data ELSE wr_data
      /\ axi_arb_owner' = OwnerNext(c)
      /\ axi_arb_pending' = PendingNext(c)
      /\ asked' = [p \in Port |-> AskedNext(p, c)]
  BY DEF Cycle, BridgeEdge, ReadEdge, WriteEdge
<1>2. acc => /\ own \in Port /\ new \in ReqSet /\ new.valid
             /\ new.we \in BOOLEAN
             /\ \A p \in Port : Granted(p, c) <=> p = own
             /\ \A p \in Port : AskedNext(p, c) = IF p = own THEN new
                                ELSE IF Done(c) /\ axi_arb_owner = p THEN NoReq
                                ELSE asked[p]
  BY AcceptedRequest, RequestType, ValidFields
<1>3. /\ state = "S_IDLE" => ~done
      /\ acc => state = "S_IDLE"
      /\ done => state = "S_RSP"
  BY DEF Done, Accept
<1>4. \A p \in Port : ~acc => AskedNext(p, c) = IF done /\ axi_arb_owner = p
                                               THEN NoReq ELSE asked[p]
  BY DEF AskedNext, Granted, Accept, CoreReqValid, Port
<1>5. /\ c.ar \in BOOLEAN /\ c.aw \in BOOLEAN /\ c.w \in BOOLEAN
      /\ c.stall \in BOOLEAN /\ c.listen \subseteq Port
  BY InputType
<1>6. /\ state \in BridgeStates
      /\ aw_done \in BOOLEAN /\ w_done \in BOOLEAN
      /\ rd_state \in {"RD_IDLE", "RD_WAIT", "RD_RESP"}
      /\ wr_state \in {"WR_IDLE", "WR_GOT_AW", "WR_GOT_W", "WR_EXEC",
                       "WR_WAIT", "WR_RESP"}
      /\ axi_arb_owner \in {"none"} \cup Port
      /\ axi_arb_pending \in BOOLEAN
      /\ Phase /\ Carried
  BY DEF IInv, TypeOK, BridgeTypeOK, SlaveTypeOK
<1>7. ~NoReq.valid
  BY ValidFields
<1> HIDE DEF acc, own, new, done
<1>10. Phase'
  <2>1. CASE state = "S_IDLE"
    BY <1>1, <1>2, <1>3, <1>5, <1>6, <2>1 DEF Phase, StateNext, DoneNext,
       OwnerNext, PendingNext, WrStateNext, Performs, ArFire, RFire, AwFire,
       WFire, BFire, acc, own, done, Port
  <2>2. CASE state = "S_RD_ADDR"
    BY <1>1, <1>3, <1>5, <1>6, <2>2 DEF Phase, StateNext, DoneNext,
       OwnerNext, PendingNext, WrStateNext, Performs, ArFire, RFire, AwFire,
       WFire, BFire, acc, done
  <2>3. CASE state = "S_RD_DATA"
    BY <1>1, <1>3, <1>5, <1>6, <2>3 DEF Phase, StateNext, DoneNext,
       OwnerNext, PendingNext, WrStateNext, Performs, ArFire, RFire, AwFire,
       WFire, BFire, acc, done
  <2>4. CASE state = "S_WR_ADDR"
    BY <1>1, <1>3, <1>5, <1>6, <2>4 DEF Phase, StateNext, DoneNext,
       OwnerNext, PendingNext, WrStateNext, Performs, ArFire, RFire, AwFire,
       WFire, BFire, acc, done
  <2>5. CASE state = "S_WR_RESP"
    BY <1>1, <1>3, <1>5, <1>6, <2>5 DEF Phase, StateNext, DoneNext,
       OwnerNext, PendingNext, WrStateNext, Performs, ArFire, RFire, AwFire,
       WFire, BFire, acc, done
  <2>6. CASE state = "S_RSP"
    BY <1>1, <1>3, <1>5, <1>6, <2>6 DEF Phase, StateNext, DoneNext,
       OwnerNext, PendingNext, WrStateNext, Performs, ArFire, RFire, AwFire,
       WFire, BFire, acc, done
  <2>7. QED BY <1>6, <2>1, <2>2, <2>3, <2>4, <2>5, <2>6 DEF BridgeStates
<1>11. Carried'
  <2>1. CASE state = "S_IDLE"
    BY <1>1, <1>2, <1>3, <1>4, <1>5, <1>6, <1>7, <2>1 DEF Phase, Carried,
       StateNext, OwnerNext, WrStateNext, ReadAt, ArFire, RFire, AwFire,
       WFire, BFire, acc, own, done, Port
  <2>2. CASE state # "S_IDLE"
    <3>1. ~acc /\ req' = req
      BY <1>1, <1>3, <2>2
    <3>2. /\ \A p \in Port : asked'[p].valid <=> axi_arb_owner' = p
          /\ \A p \in Port : axi_arb_owner' = p => asked'[p] = req'
      BY <1>1, <1>4, <1>6, <1>7, <3>1 DEF Carried, OwnerNext, acc, done, Port
    <3>3. /\ state' \in {"S_RD_ADDR", "S_RD_DATA"} => ~req'.we
          /\ state' = "S_RD_DATA" => rd_addr' = req'.addr
      BY <1>1, <1>6, <2>2, <3>1 DEF Phase, Carried, StateNext, ReadAt, ArFire,
         RFire, AwFire, WFire, BFire
    <3>4. state' \in {"S_WR_ADDR", "S_WR_RESP"} => req'.we
      BY <1>1, <1>6, <2>2, <3>1 DEF Phase, Carried, StateNext, ArFire, RFire,
         AwFire, WFire, BFire
    <3>5. /\ wr_state' \notin {"WR_IDLE", "WR_GOT_W"} => wr_addr' = req'.addr
          /\ wr_state' \notin {"WR_IDLE", "WR_GOT_AW"} => wr_data' = req'.data
      BY <1>1, <1>6, <2>2, <3>1 DEF Phase, Carried, WrStateNext, AwFire,
         WFire, BFire
    <3>6. QED BY <3>2, <3>3, <3>4, <3>5 DEF Carried
  <2>3. QED BY <2>1, <2>2
<1>12. QED BY <1>10, <1>11

(***************************************************************************)
(* IInv, the conjunction of the type invariant and the agreement of the    *)
(* parts, holds in every reachable state.                                  *)
(***************************************************************************)
THEOREM Inductive == Spec => []IInv
<1>1. Init => IInv
  <2>1. ASSUME Init
        PROVE  TypeOK
    BY <2>1, CoreBusAssumption DEF Init, BridgeInit, SlaveInit, TypeOK,
       BridgeTypeOK, SlaveTypeOK, BridgeStates, Read, Rsp, ReqSet, RspSet
  <2>2. ASSUME Init
        PROVE  Phase /\ Carried
    BY <2>2, ValidFields DEF Init, BridgeInit, SlaveInit, Phase, Carried, Port
  <2>3. QED BY <2>1, <2>2 DEF IInv
<1>2. IInv /\ [Next]_vars => IInv'
  <2>1. ASSUME IInv, Next
        PROVE  IInv'
    BY <2>1, TypeStep, PhaseStep DEF Next, IInv
  <2>2. ASSUME IInv, UNCHANGED vars
        PROVE  IInv'
    BY <2>2 DEF IInv, TypeOK, BridgeTypeOK, SlaveTypeOK, Phase, Carried, vars,
       bridgeVars, slaveVars, arbVars, ReqReady, RspValid
  <2>3. QED BY <2>1, <2>2
<1>3. QED BY <1>1, <1>2, PTL DEF Spec

(* Every register keeps to its type.                                       *)
THEOREM TypeCorrect == Spec => []TypeOK
<1>1. IInv => TypeOK
  BY DEF IInv
<1>2. QED BY <1>1, Inductive, PTL

(* Bridge, slave and arbiter agree how far the transaction is, and every   *)
(* register on its way carries what the owner asked for.                   *)
THEOREM Agreement == Spec => [](Phase /\ Carried)
<1>1. IInv => Phase /\ Carried
  BY DEF IInv
<1>2. QED BY <1>1, Inductive, PTL

-----------------------------------------------------------------------------
(* The path implements the atomic memory.                                  *)

(* What stands between the request registers and the answer, per phase.    *)
ByPhase ==
  /\ state \in BridgeStates
  /\ state \in {"S_IDLE", "S_RD_ADDR", "S_WR_ADDR"} => AnswerNow = NoRsp
  /\ state = "S_RD_DATA" => AnswerNow = IF rd_state = "RD_RESP"
                                        THEN rd_rsp ELSE NoRsp
  /\ state = "S_WR_RESP" =>
       AnswerNow = IF wr_state = "WR_EXEC" THEN NoRsp ELSE wr_rsp
  /\ state = "S_RSP" => AnswerNow = rsp

LEMMA AnswerByPhase == IInv => ByPhase
<1> SUFFICES ASSUME IInv PROVE ByPhase
  OBVIOUS
<1>1. /\ state \in BridgeStates
      /\ aw_done \in BOOLEAN /\ w_done \in BOOLEAN
      /\ Phase
  BY DEF IInv, TypeOK, BridgeTypeOK
<1>2. QED BY <1>1 DEF ByPhase, AnswerNow, Phase, BridgeStates

LEMMA Instances ==
  /\ Memory!Port = Port
  /\ Memory!NoReq = NoReq /\ Memory!NoRsp = NoRsp
  /\ \A p \in Port : Memory!Requests(p) = Requests(p)
  /\ \A m, a : Memory!Loaded(m, a) = Loaded(m, a)
  /\ \A a : Memory!Written(a) = Written(a)
  /\ \A m, a, v : Memory!Stored(m, a, v) = Stored(m, a, v)
<1>1. \A p \in Port : Memory!Requests(p) = Requests(p)
  BY DEF Memory!Requests, Requests, Memory!Read, Read, Memory!Write, Write
<1>2. QED
  BY <1>1 DEF Memory!Port, Port, Memory!NoReq, NoReq, Memory!NoRsp, NoRsp,
     Memory!Loaded, Loaded, Memory!Written, Written, Memory!Stored, Stored,
     Memory!Rsp, Rsp

(* The registers a step leaves alone unless the bridge is in its phase.    *)
LEMMA StepFacts ==
  ASSUME IInv, NEW c \in Inputs, Cycle(c)
  PROVE  /\ IInv'
         /\ Accept(c) => state = "S_IDLE"
         /\ Done(c) => state = "S_RSP" /\ axi_arb_owner \in Port
         /\ ~Accept(c) => \A p \in Port :
              AskedNext(p, c) = IF Done(c) /\ axi_arb_owner = p THEN NoReq
                                                               ELSE asked[p]
         /\ wr_state # "WR_EXEC" => mem' = mem
         /\ ~Accept(c) /\ ~Done(c) => asked' = asked /\ heard' = heard
<1>1. IInv'
  BY TypeStep, PhaseStep DEF IInv
<1>2. /\ Accept(c) => state = "S_IDLE"
      /\ Done(c) => state = "S_RSP" /\ axi_arb_owner \in Port
  BY InputType DEF Accept, Done, ReqReady, RspValid
<1>3. ~Accept(c) => \A p \in Port :
        AskedNext(p, c) = IF Done(c) /\ axi_arb_owner = p THEN NoReq
                                                         ELSE asked[p]
  BY DEF AskedNext, Granted, Accept, CoreReqValid, Port
<1>4. wr_state # "WR_EXEC" => mem' = mem
  BY DEF Cycle, WriteEdge
<1>5. ASSUME ~Accept(c), ~Done(c)
      PROVE  asked' = asked /\ heard' = heard
  <2>1. /\ asked' = [p \in Port |-> AskedNext(p, c)]
        /\ heard' = [p \in Port |-> HeardNext(p, c)]
    BY DEF Cycle
  <2>2. \A p \in Port : AskedNext(p, c) = asked[p] /\ HeardNext(p, c) = heard[p]
    BY <1>3, <1>5 DEF HeardNext
  <2>3. asked \in [Port -> {NoReq} \cup ReqSet]
        /\ heard \in [Port -> {NoRsp} \cup RspSet]
    BY DEF IInv, TypeOK
  <2>4. QED BY <2>1, <2>2, <2>3
<1>6. QED BY <1>1, <1>2, <1>3, <1>4, <1>5

LEMMA MemoryStep ==
  ASSUME IInv, NEW c \in Inputs, Cycle(c)
  PROVE  Memory!Next \/ UNCHANGED Memory!vars
<1> USE DEF ReqReady, RspValid, ArValid, RReady, AwValid, WValid, BReady,
            ArOpen, AwOpen, WOpen, RValid, BValid
<1>1. ByPhase /\ ByPhase' /\ Phase /\ Carried /\ Phase' /\ Carried'
  <2>1. IInv' => ByPhase'
    BY AnswerByPhase, PTL
  <2>2. QED BY <2>1, AnswerByPhase, StepFacts DEF IInv
<1>2. /\ state' = StateNext(Accept(c), CoreReq(c), ArFire(c), RFire, AwFire(c),
                            WFire(c), BFire, Done(c))
      /\ rsp' = RspNext(RFire, rd_rsp, BFire, wr_rsp)
      /\ rd_state' = IF Performs(ArFire(c), c.stall) THEN "RD_RESP"
                     ELSE IF ArFire(c) THEN "RD_WAIT"
                     ELSE IF RFire THEN "RD_IDLE" ELSE rd_state
      /\ rd_rsp' = IF Performs(ArFire(c), c.stall)
                     THEN Loaded(mem, ReadAt(ArFire(c), req.addr)) ELSE rd_rsp
      /\ wr_state' = WrStateNext(AwFire(c), WFire(c), c.stall, BFire)
      /\ mem' = IF wr_state = "WR_EXEC" THEN Stored(mem, wr_addr, wr_data)
                                        ELSE mem
      /\ wr_rsp' = IF wr_state = "WR_EXEC" THEN Written(wr_addr) ELSE wr_rsp
  BY DEF Cycle, BridgeEdge, ReadEdge, WriteEdge
<1>3. /\ aw_done \in BOOLEAN /\ w_done \in BOOLEAN
      /\ rd_state \in {"RD_IDLE", "RD_WAIT", "RD_RESP"}
      /\ wr_state \in {"WR_IDLE", "WR_GOT_AW", "WR_GOT_W", "WR_EXEC",
                       "WR_WAIT", "WR_RESP"}
      /\ req.we \in BOOLEAN
      /\ rsp.valid
      /\ asked \in [Port -> {NoReq} \cup ReqSet]
      /\ axi_arb_owner \in {"none"} \cup Port
      /\ ~NoRsp.valid
  BY ValidFields DEF IInv, TypeOK, BridgeTypeOK, SlaveTypeOK
<1>4. c.stall \in BOOLEAN /\ c.ar \in BOOLEAN
  BY InputType
<1>5. ASSUME state # "S_IDLE"
      PROVE  /\ axi_arb_owner \in Port
             /\ asked[axi_arb_owner].valid
             /\ asked[axi_arb_owner] = req
  BY <1>1, <1>3, <1>5 DEF Phase, Carried
(* The edges on which the slave reads or writes its memory.                *)
<1>6. ASSUME state # "S_IDLE", ~Done(c), AnswerNow = NoRsp,
             \/ /\ req.we /\ mem' = Stored(mem, req.addr, req.data)
                /\ AnswerNow' = Written(req.addr)
             \/ /\ ~req.we /\ mem' = mem
                /\ AnswerNow' = Loaded(mem, req.addr)
      PROVE  Memory!Next
  <2>1. asked' = asked /\ heard' = heard
    BY <1>6, StepFacts
  <2>2. Memory!Perform(axi_arb_owner)
    BY <1>3, <1>5, <1>6, <2>1, Instances DEF Memory!Perform
  <2>3. QED BY <1>5, <1>6, <2>2, Instances DEF Memory!Next
(* The others, as long as the port has no answer.                          *)
<1>7. ASSUME ~Accept(c), ~Done(c), mem' = mem, AnswerNow' = AnswerNow
      PROVE  UNCHANGED Memory!vars
  BY <1>7, StepFacts DEF Memory!vars
<1>10. CASE state = "S_IDLE" /\ Accept(c)
  <2> DEFINE p == Owner(c)
  <2>1. /\ p \in Port
        /\ CoreReq(c) \in Requests(p)
        /\ \A q \in Port : AskedNext(q, c) = IF q = p THEN CoreReq(c)
                                              ELSE asked[q]
    BY <1>10, AcceptedRequest, StepFacts
  <2>2. \A q \in Port : ~asked[q].valid
    BY <1>1, <1>10 DEF Phase, Carried, Port
  <2>3. asked' = [asked EXCEPT ![p] = CoreReq(c)]
    BY <1>3, <2>1 DEF Cycle
  <2>4. heard' = [q \in Port |-> NoRsp]
    BY <1>10 DEF Cycle, HeardNext
  <2>5. mem' = mem /\ AnswerNow = NoRsp
    BY <1>1, <1>2, <1>10 DEF ByPhase, Phase
  <2>6. AnswerNow' = NoRsp
    BY <1>1, <1>2, <1>10 DEF ByPhase, StateNext
  <2>7. Memory!Ask(p)
    BY <2>1, <2>2, <2>3, <2>4, <2>5, <2>6, Instances DEF Memory!Ask
  <2>8. QED BY <2>1, <2>7, Instances DEF Memory!Next
<1>11. CASE state = "S_IDLE" /\ ~Accept(c)
  <2>1. ~Done(c)
    BY <1>11, StepFacts
  <2>2. mem' = mem /\ state' = "S_IDLE"
    BY <1>1, <1>2, <1>11, <2>1 DEF Phase, StateNext, ArFire, RFire, BFire
  <2>3. QED BY <1>1, <1>7, <1>11, <2>1, <2>2 DEF ByPhase
<1>12. CASE state = "S_RD_ADDR"
  <2>1. ~Accept(c) /\ ~Done(c) /\ mem' = mem /\ ~req.we /\ rd_state = "RD_IDLE"
    BY <1>1, <1>2, <1>3, <1>12, StepFacts DEF Phase, Carried
  <2>2. CASE ArFire(c) /\ ~c.stall
    <3>1. /\ state' = "S_RD_DATA" /\ rd_state' = "RD_RESP"
          /\ rd_rsp' = Loaded(mem, req.addr)
      BY <1>2, <1>12, <2>1, <2>2 DEF StateNext, Performs, ReadAt
    <3>2. QED BY <1>1, <1>6, <1>12, <2>1, <3>1 DEF ByPhase
  <2>3. CASE ~(ArFire(c) /\ ~c.stall)
    <3>1. /\ state' \in {"S_RD_ADDR", "S_RD_DATA"} /\ rd_state' # "RD_RESP"
      BY <1>2, <1>4, <1>12, <2>1, <2>3 DEF StateNext, Performs, RFire, BFire,
         ArFire
    <3>2. QED BY <1>1, <1>7, <1>12, <2>1, <3>1 DEF ByPhase
  <2>4. QED BY <2>2, <2>3
<1>13. CASE state = "S_RD_DATA"
  <2>1. /\ ~Accept(c) /\ ~Done(c) /\ mem' = mem /\ ~req.we
        /\ rd_addr = req.addr /\ ~ArFire(c)
        /\ rd_state \in {"RD_WAIT", "RD_RESP"}
    BY <1>1, <1>2, <1>3, <1>13, StepFacts DEF Phase, Carried, ArFire
  <2>2. CASE rd_state = "RD_WAIT" /\ ~c.stall
    <3>1. /\ state' = "S_RD_DATA" /\ rd_state' = "RD_RESP"
          /\ rd_rsp' = Loaded(mem, req.addr)
      BY <1>2, <1>13, <2>1, <2>2 DEF StateNext, Performs, ReadAt, RFire, BFire
    <3>2. QED BY <1>1, <1>6, <1>13, <2>1, <2>2, <3>1 DEF ByPhase
  <2>3. CASE rd_state = "RD_WAIT" /\ c.stall
    <3>1. state' = "S_RD_DATA" /\ rd_state' = "RD_WAIT"
      BY <1>2, <1>13, <2>1, <2>3 DEF StateNext, Performs, RFire, BFire
    <3>2. QED BY <1>1, <1>7, <1>13, <2>1, <2>3, <3>1 DEF ByPhase
  <2>4. CASE rd_state = "RD_RESP"
    <3>1. state' = "S_RSP" /\ rsp' = rd_rsp
      BY <1>2, <1>13, <2>1, <2>4 DEF StateNext, RspNext, RFire
    <3>2. QED BY <1>1, <1>7, <1>13, <2>1, <2>4, <3>1 DEF ByPhase
  <2>5. QED BY <1>4, <2>1, <2>2, <2>3, <2>4
<1>14. CASE state = "S_WR_ADDR"
  <2>1. ~Accept(c) /\ ~Done(c) /\ mem' = mem
    BY <1>1, <1>2, <1>3, <1>14, StepFacts DEF Phase
  <2>2. state' \in {"S_WR_ADDR", "S_WR_RESP"}
    BY <1>2, <1>14, <2>1 DEF StateNext, ArFire, RFire, BFire
  <2>3. state' = "S_WR_RESP" => wr_state' = "WR_EXEC"
    BY <1>1, <1>2, <1>3, <1>14, <2>1 DEF StateNext, WrStateNext, Phase, ArFire,
       RFire, BFire, AwFire, WFire
  <2>4. QED BY <1>1, <1>7, <1>14, <2>1, <2>2, <2>3 DEF ByPhase
<1>15. CASE state = "S_WR_RESP"
  <2>1. /\ ~Accept(c) /\ ~Done(c) /\ req.we
        /\ wr_state \in {"WR_EXEC", "WR_WAIT", "WR_RESP"}
        /\ wr_addr = req.addr /\ wr_data = req.data
        /\ ~ArFire(c) /\ ~RFire /\ ~AwFire(c) /\ ~WFire(c)
    BY <1>1, <1>3, <1>15, StepFacts DEF Phase, Carried, ArFire, RFire, AwFire,
       WFire
  <2>2. CASE wr_state = "WR_EXEC"
    <3>1. /\ state' = "S_WR_RESP" /\ wr_state' \in {"WR_WAIT", "WR_RESP"}
          /\ wr_rsp' = Written(req.addr)
          /\ mem' = Stored(mem, req.addr, req.data)
      BY <1>2, <1>15, <2>1, <2>2 DEF StateNext, WrStateNext, BFire
    <3>2. QED BY <1>1, <1>6, <1>15, <2>1, <2>2, <3>1 DEF ByPhase
  <2>3. CASE wr_state = "WR_WAIT"
    <3>1. /\ state' = "S_WR_RESP" /\ wr_state' \in {"WR_WAIT", "WR_RESP"}
          /\ wr_rsp' = wr_rsp /\ mem' = mem
      BY <1>2, <1>15, <2>1, <2>3 DEF StateNext, WrStateNext, BFire
    <3>2. QED BY <1>1, <1>7, <1>15, <2>1, <2>3, <3>1 DEF ByPhase
  <2>4. CASE wr_state = "WR_RESP"
    <3>1. state' = "S_RSP" /\ rsp' = wr_rsp /\ mem' = mem
      BY <1>2, <1>15, <2>1, <2>4 DEF StateNext, RspNext, BFire
    <3>2. QED BY <1>1, <1>7, <1>15, <2>1, <2>4, <3>1 DEF ByPhase
  <2>5. QED BY <2>1, <2>2, <2>3, <2>4
<1>16. CASE state = "S_RSP"
  <2>1. /\ ~Accept(c) /\ mem' = mem /\ AnswerNow = rsp /\ rsp' = rsp
        /\ ~ArFire(c) /\ ~RFire /\ ~BFire
    BY <1>1, <1>2, <1>3, <1>16, StepFacts DEF Phase, ByPhase, RspNext, ArFire,
       RFire, BFire
  <2>2. CASE Done(c)
    <3> DEFINE p == axi_arb_owner
    <3>1. p \in Port /\ asked[p].valid
      BY <1>5, <1>16
    <3>2. state' = "S_IDLE"
      BY <1>2, <1>16, <2>1, <2>2 DEF StateNext
    <3>3. AnswerNow' = NoRsp
      BY <1>1, <3>2 DEF ByPhase
    <3>4. asked' = [asked EXCEPT ![p] = NoReq]
      BY <1>3, <2>1, <2>2, StepFacts DEF Cycle
    <3>5. heard' = [heard EXCEPT ![p] = AnswerNow]
      <4>1. heard \in [Port -> {NoRsp} \cup RspSet]
        BY DEF IInv, TypeOK
      <4>2. QED BY <2>1, <2>2, <4>1 DEF Cycle, HeardNext
    <3>6. Memory!Tell(p)
      BY <1>3, <2>1, <3>1, <3>3, <3>4, <3>5, Instances DEF Memory!Tell
    <3>7. QED BY <3>1, <3>6, Instances DEF Memory!Next
  <2>3. CASE ~Done(c)
    <3>1. state' = "S_RSP"
      BY <1>2, <1>16, <2>1, <2>3 DEF StateNext
    <3>2. QED BY <1>1, <1>7, <1>16, <2>1, <2>3, <3>1 DEF ByPhase
  <2>4. QED BY <2>2, <2>3
<1>17. QED BY <1>1, <1>10, <1>11, <1>12, <1>13, <1>14, <1>15, <1>16
           DEF ByPhase, BridgeStates

(***************************************************************************)
(* Each request a port gets accepted is performed exactly once on the      *)
(* memory, between acceptance and response, and its answer, error included,*)
(* reaches that port: the AXI build's memory path implements PortMemory.   *)
(***************************************************************************)
THEOREM Refinement == Spec => ImplementsPortMemory
<1>1. Init => Memory!Init
  <2> SUFFICES ASSUME Init PROVE Memory!Init
    OBVIOUS
  <2>1. AnswerNow = NoRsp
    BY DEF Init, BridgeInit, SlaveInit, AnswerNow
  <2>2. QED BY <2>1, Instances DEF Init, SlaveInit, Memory!Init
<1>2. IInv /\ [Next]_vars => [Memory!Next]_(Memory!vars)
  <2>1. ASSUME IInv, Next
        PROVE  Memory!Next \/ UNCHANGED Memory!vars
    BY <2>1, MemoryStep DEF Next
  <2>2. UNCHANGED vars => UNCHANGED Memory!vars
    BY DEF vars, bridgeVars, slaveVars, arbVars, Memory!vars, AnswerNow
  <2>3. QED BY <2>1, <2>2
<1>3. QED BY <1>1, <1>2, Inductive, PTL
          DEF Spec, ImplementsPortMemory, Memory!Spec

(***************************************************************************)
(* VALID and payload are stable on every channel: what one side announced  *)
(* is there until the other side has taken it.                             *)
(***************************************************************************)
THEOREM Stability == Spec => ValidStable
<1> DEFINE Stable ==
      /\ ArValid => IF ArValid' THEN UNCHANGED req ELSE rd_addr' = req.addr
      /\ AwValid => IF AwValid' THEN UNCHANGED req
                    ELSE /\ wr_addr' = req.addr
                         /\ wr_state' \in {"WR_GOT_AW", "WR_EXEC"}
      /\ WValid => IF WValid' THEN UNCHANGED req
                   ELSE /\ wr_data' = req.data
                        /\ wr_state' \in {"WR_GOT_W", "WR_EXEC"}
      /\ RValid => IF RValid' THEN UNCHANGED rd_rsp ELSE rsp' = rd_rsp
      /\ BValid => IF BValid' THEN UNCHANGED wr_rsp ELSE rsp' = wr_rsp
      /\ RspValid => IF RspValid' THEN UNCHANGED rsp
                     ELSE heard'[axi_arb_owner] = rsp
<1>1. ASSUME IInv, NEW c \in Inputs, Cycle(c)
      PROVE  Stable
  <2>1. /\ state \in BridgeStates
        /\ aw_done \in BOOLEAN /\ w_done \in BOOLEAN
        /\ rd_state \in {"RD_IDLE", "RD_WAIT", "RD_RESP"}
        /\ wr_state \in {"WR_IDLE", "WR_GOT_AW", "WR_GOT_W", "WR_EXEC",
                         "WR_WAIT", "WR_RESP"}
        /\ Phase
    BY <1>1 DEF IInv, TypeOK, BridgeTypeOK, SlaveTypeOK
  <2>2. /\ Accept(c) => state = "S_IDLE"
        /\ Done(c) => state = "S_RSP" /\ axi_arb_owner \in Port
    BY <1>1, StepFacts
  <2>3. /\ ArValid => IF ArValid' THEN UNCHANGED req ELSE rd_addr' = req.addr
        /\ RValid => IF RValid' THEN UNCHANGED rd_rsp ELSE rsp' = rd_rsp
    BY <1>1, <2>1, <2>2 DEF Phase, Cycle, BridgeEdge, ReadEdge, StateNext,
       RspNext, Performs, ReadAt, ArFire, RFire, BFire, ArValid, ArOpen,
       RValid, RReady, BReady, BValid
  <2>4. /\ AwValid => IF AwValid' THEN UNCHANGED req
                      ELSE /\ wr_addr' = req.addr
                           /\ wr_state' \in {"WR_GOT_AW", "WR_EXEC"}
        /\ WValid => IF WValid' THEN UNCHANGED req
                     ELSE /\ wr_data' = req.data
                          /\ wr_state' \in {"WR_GOT_W", "WR_EXEC"}
    BY <1>1, <2>1, <2>2 DEF Phase, Cycle, BridgeEdge, WriteEdge, StateNext,
       DoneNext, WrStateNext, ArFire, RFire, BFire, AwFire, WFire, AwValid,
       WValid, AwOpen, WOpen, ArValid, RReady, BReady, BValid, BridgeStates
  <2>5. BValid => IF BValid' THEN UNCHANGED wr_rsp ELSE rsp' = wr_rsp
    BY <1>1, <2>1 DEF Phase, Cycle, BridgeEdge, WriteEdge, RspNext,
       WrStateNext, RFire, BFire, AwFire, WFire, AwValid, WValid, RReady,
       RValid, BReady, BValid
  <2>6. RspValid => IF RspValid' THEN UNCHANGED rsp
                    ELSE heard'[axi_arb_owner] = rsp
    BY <1>1, <2>1, <2>2 DEF Phase, Cycle, BridgeEdge, StateNext, RspNext,
       HeardNext, ArFire, RFire, BFire, ArValid, RReady, BReady, RspValid
  <2>7. QED BY <2>3, <2>4, <2>5, <2>6
<1>2. UNCHANGED vars => Stable
  BY DEF vars, bridgeVars, slaveVars, arbVars, ArValid, AwValid, WValid,
     RValid, BValid, RspValid
<1>3. IInv /\ [Next]_vars => [Stable]_vars
  BY <1>1, <1>2 DEF Next
<1>4. QED BY <1>3, Inductive, PTL DEF Spec, ValidStable
=============================================================================
