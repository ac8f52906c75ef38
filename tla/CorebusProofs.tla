--------------------------- MODULE CorebusProofs ---------------------------
(***************************************************************************)
(* Theorems about CorebusPath, for every address map and all programs.     *)
(* That fabric, router and devices agree about the access in flight is     *)
(* inductive as it stands, and so is the account of the instruction port;  *)
(* together they tell which action of PortMemory a clock edge is for each  *)
(* of the two ports.                                                       *)
(***************************************************************************)
EXTENDS CorebusPath, TLAPS

(* A request of a port is a valid request of the bus.                      *)
LEMMA RequestType ==
  ASSUME NEW p \in Port, NEW r \in Requests(p)
  PROVE  r \in ReqSet /\ r.valid
<1>1. \A a \in Addr : Read(a) \in ReqSet /\ Read(a).valid
  BY CoreBusAssumption DEF Read, ReqSet
<1>2. \A a \in Addr, v \in Val : Write(a, v) \in ReqSet /\ Write(a, v).valid
  BY DEF Write, ReqSet
<1>3. QED BY <1>1, <1>2 DEF Requests

(* What a memory answers is a response, whatever it is asked.              *)
LEMMA ResponseType ==
  ASSUME NEW m \in [Addr -> Val], NEW a \in Addr
  PROVE  Loaded(m, a) \in RspSet /\ Written(a) \in RspSet
BY CoreBusAssumption DEF Loaded, Written, Rsp, RspSet

(* A write keeps the memory a memory.                                      *)
LEMMA StoredType ==
  ASSUME NEW m \in [Addr -> Val], NEW a \in Addr, NEW v \in Val
  PROVE  Stored(m, a, v) \in [Addr -> Val]
BY DEF Stored

(* The records that stand for nothing are told apart by their valid line.  *)
LEMMA ValidFields ==
  /\ \A r \in ReqSet : r.valid /\ r.addr \in Addr /\ r.data \in Val
                       /\ r.we \in BOOLEAN
  /\ \A r \in RspSet : r.valid
  /\ ~NoReq.valid /\ ~NoRsp.valid
BY DEF ReqSet, RspSet, NoReq, NoRsp

IInv == TypeOK /\ Agreed /\ OneAnswerOwed

(* What the ports can ask.                                                 *)
LEMMA InputType ==
  ASSUME NEW c \in Inputs
  PROVE  /\ c.i \in {NoReq} \cup Requests("I")
         /\ c.d \in {NoReq} \cup Requests("D")
         /\ c.d.valid => ~asked["D"].valid
         /\ c.listen \in BOOLEAN
         /\ c.listen => asked["D"].valid
<1>1. CASE asked["D"].valid
  BY <1>1, CorebusAssumption, ValidFields DEF Inputs
<1>2. CASE ~asked["D"].valid
  BY <1>2, CorebusAssumption DEF Inputs
<1>3. QED BY <1>1, <1>2

(* A request that is accepted is one of its port, with an address the      *)
(* decoder knows.                                                          *)
LEMMA AcceptedType ==
  ASSUME NEW c \in Inputs
  PROVE  /\ DAccept(c) => /\ c.d \in Requests("D") /\ c.d \in ReqSet
                          /\ c.d.valid /\ c.d.addr \in Addr
                          /\ c.d.data \in Val /\ c.d.we \in BOOLEAN
                          /\ Decode[c.d.addr] \in Devices \cup {"none"}
                          /\ ~asked["D"].valid
         /\ IAccept(c) => /\ c.i \in Requests("I") /\ c.i \in ReqSet
                          /\ c.i.valid /\ c.i.addr \in Addr /\ ~c.i.we
<1>1. \A r \in Requests("I") : r \in ReqSet /\ ~r.we
  BY RequestType DEF Requests, Read, Port
<1>2. \A r \in Requests("D") : r \in ReqSet
  BY RequestType DEF Port
<1>3. DAccept(c) => c.d \in Requests("D") /\ ~asked["D"].valid
  BY InputType, ValidFields DEF DAccept
<1>4. IAccept(c) => c.i \in Requests("I")
  BY InputType, ValidFields DEF IAccept
<1>5. QED BY <1>1, <1>2, <1>3, <1>4, ValidFields, CorebusAssumption

-----------------------------------------------------------------------------
(* IInv is inductive.                                                      *)

LEMMA TypeStep ==
  ASSUME IInv, NEW c \in Inputs, Cycle(c)
  PROVE  TypeOK'
<1>1. /\ active_slave' \in Slaves
      /\ mmio_sel_r' \in Mmio
      /\ pending' \subseteq Devices
  BY AcceptedType DEF IInv, TypeOK, Cycle, ActiveSlaveNext, SlaveOf,
     MmioSelNext, PendingNext, Slaves, Devices, Mmio
<1>2. has_pending' \in BOOLEAN
  BY DEF IInv, TypeOK, Cycle, HasPendingNext, DDone, DRspValid
<1>3. mem' \in [Addr -> Val]
  BY AcceptedType, StoredType DEF IInv, TypeOK, Cycle, MemNext
<1>4. rdata_reg' \in [Devices -> Val]
  BY AcceptedType DEF IInv, TypeOK, Cycle, RdataNext
<1>5. irom_pending' \in BOOLEAN /\ irom_bad_pending' \in BOOLEAN
  BY ValidFields DEF IInv, TypeOK, Cycle, IromPendingNext, IromBadNext, IDone,
     IListens, IRspValid
<1>6. irom_rdata' \in Val
  BY AcceptedType DEF IInv, TypeOK, Cycle, IromRdataNext
<1>7. asked' \in [Port -> {NoReq} \cup ReqSet]
  BY AcceptedType DEF IInv, TypeOK, Cycle, AskedNext, Port
<1>8. heard' \in [Port -> {NoRsp} \cup RspSet]
  <2>1. IRsp \in RspSet
    BY CoreBusAssumption DEF IInv, TypeOK, IRsp, Rsp, RspSet
  <2>2. DRspValid => DRsp \in RspSet
    <3>1. Routed \in Devices \cup {"none"}
      BY DEF IInv, TypeOK, Routed, Slaves, Devices, Mmio
    <3>2. QED BY <3>1, CoreBusAssumption
              DEF IInv, TypeOK, DRsp, Rsp, RspSet
  <2>3. QED BY <2>1, <2>2 DEF IInv, TypeOK, Cycle, HeardNext, DDone, Port
<1>9. QED BY <1>1, <1>2, <1>3, <1>4, <1>5, <1>6, <1>7, <1>8 DEF TypeOK

(* The data port after a clock edge.                                       *)
LEMMA DataPortStep ==
  ASSUME IInv, NEW c \in Inputs, Cycle(c)
  PROVE  /\ asked'["D"] = IF DAccept(c) THEN c.d
                          ELSE IF DDone(c) THEN NoReq ELSE asked["D"]
         /\ heard'["D"] = IF DDone(c) THEN DRsp
                          ELSE IF DAccept(c) THEN NoRsp ELSE heard["D"]
         /\ DAccept(c) => ~has_pending /\ ~DDone(c) /\ pending = {}
         /\ DDone(c) => asked["D"].valid
BY AcceptedType, InputType
   DEF IInv, Agreed, Cycle, AskedNext, HeardNext, DDone, Port

LEMMA AgreedStep ==
  ASSUME IInv, NEW c \in Inputs, Cycle(c)
  PROVE  Agreed'
<1> DEFINE dev == Decode[c.d.addr]
<1>1. CASE DAccept(c)
  <2>1. asked'["D"] = c.d /\ c.d.valid /\ dev \in Devices \cup {"none"}
    BY <1>1, DataPortStep, AcceptedType
  <2>2. has_pending'
    BY <1>1, DataPortStep DEF Cycle, HasPendingNext
  <2>3. pending' = IF dev # "none" /\ Answers(dev, c.d.we)
                   THEN {dev} ELSE {}
    BY <1>1, <2>1, DataPortStep DEF Cycle, PendingNext, Devices, Mmio
  <2>4. Routed' = dev
    BY <1>1, <2>1, DataPortStep
       DEF Cycle, ActiveSlaveNext, MmioSelNext, SlaveOf, Routed, Devices, Mmio
  <2>5. QED BY <2>1, <2>2, <2>3, <2>4 DEF Agreed
<1>2. CASE ~DAccept(c) /\ DDone(c)
  <2>1. asked'["D"] = NoReq
    BY <1>2, DataPortStep
  <2>2. ~has_pending'
    BY <1>2 DEF Cycle, HasPendingNext
  <2>3. pending' = {}
    BY <1>2, DataPortStep
       DEF IInv, Agreed, Cycle, PendingNext, DDone, Released
  <2>4. QED BY <2>1, <2>2, <2>3, ValidFields DEF Agreed
<1>3. CASE ~DAccept(c) /\ ~DDone(c)
  <2>1. asked'["D"] = asked["D"]
    BY <1>3, DataPortStep
  <2>2. has_pending' = has_pending /\ Routed' = Routed
    BY <1>3 DEF IInv, TypeOK, Cycle, HasPendingNext, ActiveSlaveNext,
       MmioSelNext, Routed
  <2>3. pending' = pending
    <3>1. \A d \in pending : ~Released(d, c)
      BY <1>3 DEF IInv, TypeOK, Agreed, DDone, DRspValid, Released
    <3>2. QED BY <1>3, <3>1 DEF IInv, TypeOK, Cycle, PendingNext
  <2>4. QED BY <2>1, <2>2, <2>3 DEF IInv, Agreed
<1>4. QED BY <1>1, <1>2, <1>3

(* The instruction port after a clock edge.                                *)
LEMMA InstrPortStep ==
  ASSUME IInv, NEW c \in Inputs, Cycle(c)
  PROVE  /\ asked'["I"] = IF IAccept(c) THEN c.i
                          ELSE IF IDone THEN NoReq ELSE asked["I"]
         /\ heard'["I"] = IF IDone THEN IRsp
                          ELSE IF IAccept(c) THEN NoRsp ELSE heard["I"]
         /\ IDone <=> asked["I"].valid
         /\ irom_pending' <=> IAccept(c) /\ InRom(c)
         /\ irom_bad_pending' <=> IAccept(c) /\ ~InRom(c)
BY DEF IInv, TypeOK, OneAnswerOwed, Cycle, AskedNext, HeardNext,
   IromPendingNext, IromBadNext, IDone, IListens, IRspValid, Port

LEMMA OneAnswerStep ==
  ASSUME IInv, NEW c \in Inputs, Cycle(c)
  PROVE  OneAnswerOwed'
<1>1. CASE IAccept(c)
  BY <1>1, InstrPortStep, AcceptedType DEF OneAnswerOwed, IRspValid, InRom
<1>2. CASE ~IAccept(c)
  BY <1>2, InstrPortStep, ValidFields DEF OneAnswerOwed, IRspValid
<1>3. QED BY <1>1, <1>2

LEMMA InitIInv == Init => IInv
<1> SUFFICES ASSUME Init PROVE IInv
  OBVIOUS
<1>1. TypeOK
  BY CoreBusAssumption DEF Init, TypeOK, Slaves, Devices, Mmio
<1>2. Agreed /\ OneAnswerOwed
  BY ValidFields DEF Init, Agreed, OneAnswerOwed, IRspValid, Port
<1>3. QED BY <1>1, <1>2 DEF IInv

LEMMA IInvStep == IInv /\ [Next]_vars => IInv'
<1>1. ASSUME IInv, NEW c \in Inputs, Cycle(c)
      PROVE  IInv'
  BY <1>1, TypeStep, AgreedStep, OneAnswerStep DEF IInv
<1>2. ASSUME IInv, UNCHANGED vars
      PROVE  IInv'
  BY <1>2 DEF IInv, TypeOK, Agreed, OneAnswerOwed, Routed, IRspValid, vars,
     dataVars, instrVars
<1>3. QED BY <1>1, <1>2 DEF Next

(***************************************************************************)
(* IInv holds in every reachable state.                                    *)
(***************************************************************************)
THEOREM Inductive == Spec => []IInv
BY InitIInv, IInvStep, PTL DEF Spec

(***************************************************************************)
(* Every register of fabric, router, devices and instruction ROM path      *)
(* keeps a value it can hold.                                              *)
(***************************************************************************)
THEOREM TypeCorrect == Spec => []TypeOK
<1>1. IInv => TypeOK
  BY DEF IInv
<1>2. QED BY <1>1, Inductive, PTL

(***************************************************************************)
(* Fabric, router and devices agree about the access in flight: the        *)
(* response passed on is that of the device the request went to, and no    *)
(* other device is busy.                                                   *)
(***************************************************************************)
THEOREM Agreement == Spec => []Agreed
<1>1. IInv => Agreed
  BY DEF IInv
<1>2. QED BY <1>1, Inductive, PTL

(***************************************************************************)
(* The instruction port waits for one answer at a time, from the ROM or    *)
(* from the error path and never from both.                                *)
(***************************************************************************)
THEOREM OneAnswer == Spec => []OneAnswerOwed
<1>1. IInv => OneAnswerOwed
  BY DEF IInv
<1>2. QED BY <1>1, Inductive, PTL

-----------------------------------------------------------------------------
(* Refinement.                                                             *)

DAnswer == IF DRspValid THEN DRsp ELSE NoRsp
IAnswer == IF IRspValid THEN IRsp ELSE NoRsp
RomView == [a \in Addr |-> IF a \in RomAddr THEN mem[a] ELSE Zero]
DAsked == Only("D", asked, NoReq)
DHeard == Only("D", heard, NoRsp)
IAsked == Only("I", asked, NoReq)
IHeard == Only("I", heard, NoRsp)

(* Before a request is accepted nothing is answered; an access in flight   *)
(* keeps its answer until the port takes it.                               *)
LEMMA AnswerKept ==
  ASSUME IInv, NEW c \in Inputs, Cycle(c)
  PROVE  /\ ~asked["D"].valid => DAnswer = NoRsp
         /\ ~DAccept(c) /\ ~DDone(c) => DAnswer' = DAnswer
         /\ ~DAccept(c) /\ DDone(c) => DAnswer' = NoRsp
<1>1. ~asked["D"].valid => DAnswer = NoRsp
  BY DEF IInv, TypeOK, Agreed, DAnswer, DRspValid
<1>2. ASSUME ~DAccept(c), ~DDone(c)
      PROVE  DAnswer' = DAnswer
  <2>1. /\ asked'["D"] = asked["D"]
        /\ has_pending' = has_pending /\ Routed' = Routed
        /\ rdata_reg' = rdata_reg
    BY <1>2, DataPortStep DEF IInv, TypeOK, Cycle, HasPendingNext,
       ActiveSlaveNext, MmioSelNext, RdataNext, Routed
  <2>2. pending' = pending
    <3>1. \A d \in pending : ~Released(d, c)
      BY <1>2 DEF IInv, TypeOK, Agreed, DDone, DRspValid, Released
    <3>2. QED BY <1>2, <3>1 DEF IInv, TypeOK, Cycle, PendingNext
  <2>3. QED BY <2>1, <2>2 DEF DAnswer, DRspValid, DRsp
<1>3. ASSUME ~DAccept(c), DDone(c)
      PROVE  DAnswer' = NoRsp
  <2>1. ~asked'["D"].valid /\ Agreed' /\ TypeOK'
    BY <1>3, DataPortStep, AgreedStep, TypeStep, ValidFields
  <2>2. QED BY <2>1 DEF TypeOK, Agreed, DAnswer, DRspValid
<1>4. QED BY <1>1, <1>2, <1>3

LEMMA DataInstances ==
  /\ DataMemory!Port = Port
  /\ DataMemory!NoReq = NoReq /\ DataMemory!NoRsp = NoRsp
  /\ \A p \in Port : DataMemory!Requests(p) = Requests(p)
  /\ \A m, a : DataMemory!Loaded(m, a) = Loaded(m, a)
  /\ \A a : DataMemory!Written(a) = Written(a)
  /\ \A m, a, v : DataMemory!Stored(m, a, v) = Stored(m, a, v)
<1>1. \A p \in Port : DataMemory!Requests(p) = Requests(p)
  BY DEF DataMemory!Requests, Requests, DataMemory!Read, Read,
     DataMemory!Write, Write
<1>2. QED
  BY <1>1 DEF DataMemory!Port, Port, DataMemory!NoReq, NoReq,
     DataMemory!NoRsp, NoRsp, DataMemory!Loaded, Loaded, DataMemory!Written,
     Written, DataMemory!Stored, Stored, DataMemory!Rsp, Rsp

LEMMA InstrInstances ==
  /\ InstrMemory!Port = Port
  /\ InstrMemory!NoReq = NoReq /\ InstrMemory!NoRsp = NoRsp
  /\ InstrMemory!Requests("I") = Requests("I")
  /\ \A m, a : InstrMemory!Loaded(m, a)
                = IF a \in Addr \ RomAddr THEN Rsp(Poison, TRUE)
                                          ELSE Rsp(m[a], FALSE)
<1>1. InstrMemory!Requests("I") = Requests("I")
  BY DEF InstrMemory!Requests, Requests, InstrMemory!Read, Read
<1>2. QED
  BY <1>1 DEF InstrMemory!Port, Port, InstrMemory!NoReq, NoReq,
     InstrMemory!NoRsp, NoRsp, InstrMemory!Loaded, InstrMemory!Rsp, Rsp

(* A clock edge, seen from the data port: a request is accepted and served *)
(* at once, or accepted only (a store to the ROM), or answered, or nothing *)
(* happens.                                                                *)
LEMMA DataStep ==
  ASSUME IInv, NEW c \in Inputs, Cycle(c)
  PROVE  DataMemory!Next \/ UNCHANGED DataMemory!vars
<1>1. /\ IInv' /\ "D" \in Port
      /\ mem' = MemNext(c)
  BY TypeStep, AgreedStep, OneAnswerStep DEF IInv, Cycle, Port
<1>2. /\ DAsked = [q \in Port |-> IF q = "D" THEN asked["D"] ELSE NoReq]
      /\ DHeard = [q \in Port |-> IF q = "D" THEN heard["D"] ELSE NoRsp]
      /\ DAsked' = [q \in Port |-> IF q = "D" THEN asked'["D"] ELSE NoReq]
      /\ DHeard' = [q \in Port |-> IF q = "D" THEN heard'["D"] ELSE NoRsp]
  BY DEF DAsked, DHeard, Only
<1>3. CASE DAccept(c)
  <2> DEFINE r == c.d
             dev == Decode[r.addr]
  <2>1. /\ r \in Requests("D") /\ r.addr \in Addr /\ r.we \in BOOLEAN
        /\ r.valid /\ dev \in Devices \cup {"none"}
        /\ asked'["D"] = r /\ ~asked["D"].valid
        /\ ~DDone(c)
        /\ heard'["D"] = NoRsp
    BY <1>3, AcceptedType, DataPortStep
  <2>2. /\ \A q \in Port : ~DAsked[q].valid
        /\ DAsked' = [DAsked EXCEPT !["D"] = r]
        /\ DHeard' = [q \in Port |-> NoRsp]
    BY <1>2, <2>1, ValidFields
  <2>3. CASE dev = "rom" /\ r.we
    <3>1. DAnswer = NoRsp /\ DAnswer' = NoRsp
      <4>1. DAnswer = NoRsp
        BY <2>1, AnswerKept
      <4>2. ~DRspValid'
        BY <1>1, <2>1, <2>3 DEF IInv, Agreed, Answers, DRspValid
      <4>3. QED BY <4>1, <4>2 DEF DAnswer
    <3>2. mem' = mem
      BY <1>1, <1>3, <2>1, <2>3, CorebusAssumption DEF MemNext, Stored
    <3>3. DataMemory!Ask("D")
      BY <1>1, <2>1, <2>2, <3>1, <3>2, DataInstances
         DEF DataMemory!Ask, DAsked, DHeard, DAnswer
    <3>4. QED BY <1>1, <3>3, DataInstances DEF DataMemory!Next
  <2>4. CASE ~(dev = "rom" /\ r.we)
    <3>1. Routed' = dev /\ DRspValid'
      BY <1>1, <2>1, <2>4 DEF IInv, Agreed, Answers, DRspValid
    <3>2. mem' = IF r.we THEN Stored(mem, r.addr, r.data) ELSE mem
      BY <1>1, <1>3 DEF MemNext
    <3>3. DAnswer' = IF r.we THEN Written(r.addr) ELSE Loaded(mem, r.addr)
      <4>1. r.addr \in BadAddr <=> dev = "none"
        BY <2>1, CorebusAssumption
      <4>2. ~r.we /\ dev # "none" => rdata_reg'[dev] = mem[r.addr]
        BY <1>3, <2>1 DEF IInv, TypeOK, Cycle, RdataNext
      <4>3. DAnswer' = IF r.we THEN Rsp(Zero, dev = "none")
                       ELSE IF dev = "none" THEN Rsp(Poison, TRUE)
                       ELSE Rsp(rdata_reg'[dev], FALSE)
        BY <2>1, <3>1 DEF DAnswer, DRsp
      <4>4. r.we => DAnswer' = Written(r.addr)
        <5>1. (r.addr \in BadAddr) = (dev = "none")
          BY <4>1
        <5>2. QED BY <5>1, <4>3 DEF Written
      <4>5. ~r.we => DAnswer' = Loaded(mem, r.addr)
        BY <4>1, <4>2, <4>3 DEF Loaded
      <4>6. QED BY <4>4, <4>5, <2>1
    <3>4. \A q \in Port : (IF DAsked[q].valid THEN DAnswer ELSE NoRsp) = NoRsp
      BY <2>2
    <3>5. DataMemory!Serve("D")
      BY <1>1, <2>1, <2>2, <3>2, <3>3, <3>4, DataInstances
         DEF DataMemory!Serve, DAsked, DHeard, DAnswer
    <3>6. QED BY <1>1, <3>5, DataInstances DEF DataMemory!Next
  <2>5. QED BY <2>3, <2>4
<1>4. CASE ~DAccept(c) /\ DDone(c)
  <2>1. /\ asked["D"].valid /\ asked'["D"] = NoReq
        /\ heard'["D"] = DRsp /\ DAnswer = DRsp
        /\ DAnswer' = NoRsp
    BY <1>4, DataPortStep, AnswerKept DEF DAnswer, DDone
  <2>2. DAnswer.valid
    BY <2>1 DEF DRsp, Rsp
  <2>3. mem' = mem
    BY <1>1, <1>4 DEF MemNext
  <2>4. /\ DAsked["D"].valid
        /\ DAsked' = [DAsked EXCEPT !["D"] = NoReq]
        /\ DHeard' = [DHeard EXCEPT !["D"] = DAnswer]
    BY <1>1, <1>2, <2>1
  <2>5. DataMemory!Tell("D")
    BY <2>1, <2>2, <2>3, <2>4, DataInstances
       DEF DataMemory!Tell, DAsked, DHeard, DAnswer
  <2>6. QED BY <1>1, <2>5, DataInstances DEF DataMemory!Next
<1>5. CASE ~DAccept(c) /\ ~DDone(c)
  <2>1. /\ asked'["D"] = asked["D"] /\ heard'["D"] = heard["D"]
        /\ DAnswer' = DAnswer
    BY <1>5, DataPortStep, AnswerKept
  <2>2. mem' = mem
    BY <1>1, <1>5 DEF MemNext
  <2>3. DAsked' = DAsked /\ DHeard' = DHeard
    BY <1>2, <2>1
  <2>4. QED BY <2>1, <2>2, <2>3 DEF DataMemory!vars, DAsked, DHeard, DAnswer
<1>6. QED BY <1>3, <1>4, <1>5

(* A clock edge, seen from the instruction port: a request is accepted and *)
(* served, also in the cycle of the last answer, or answered, or nothing   *)
(* happens.                                                                *)
LEMMA InstrStep ==
  ASSUME IInv, NEW c \in Inputs, Cycle(c)
  PROVE  InstrMemory!Next \/ UNCHANGED InstrMemory!vars
<1>1. IInv' /\ "I" \in Port
  BY TypeStep, AgreedStep, OneAnswerStep DEF IInv, Port
<1>2. /\ IAsked = [q \in Port |-> IF q = "I" THEN asked["I"] ELSE NoReq]
      /\ IHeard = [q \in Port |-> IF q = "I" THEN heard["I"] ELSE NoRsp]
      /\ IAsked' = [q \in Port |-> IF q = "I" THEN asked'["I"] ELSE NoReq]
      /\ IHeard' = [q \in Port |-> IF q = "I" THEN heard'["I"] ELSE NoRsp]
  BY DEF IAsked, IHeard, Only
<1>3. RomView' = RomView
  <2>1. \A a \in RomAddr : mem'[a] = mem[a]
    BY CoreBusAssumption, AcceptedType
       DEF IInv, TypeOK, Cycle, MemNext, Stored
  <2>2. QED BY <2>1 DEF RomView
<1>4. /\ IDone <=> asked["I"].valid
      /\ IAnswer = IF asked["I"].valid THEN IRsp ELSE NoRsp
      /\ IAnswer' = IF asked'["I"].valid THEN IRsp' ELSE NoRsp
      /\ IRsp.valid
  BY <1>1, InstrPortStep DEF IInv, OneAnswerOwed, IAnswer, IRsp, Rsp
<1>5. CASE IAccept(c)
  <2> DEFINE r == c.i
  <2>1. /\ r \in Requests("I") /\ r.addr \in Addr /\ r.valid /\ ~r.we
        /\ asked'["I"] = r
        /\ heard'["I"] = IF asked["I"].valid THEN IAnswer ELSE NoRsp
    BY <1>4, <1>5, AcceptedType, InstrPortStep
  <2>2. /\ \A q \in Port : IAsked[q].valid => q = "I" /\ IAnswer.valid
        /\ IAsked' = [IAsked EXCEPT !["I"] = r]
        /\ IHeard' = [q \in Port |-> IF IAsked[q].valid THEN IAnswer ELSE NoRsp]
    BY <1>2, <1>4, <2>1, ValidFields
  <2>3. IAnswer' = IF r.addr \in Addr \ RomAddr THEN Rsp(Poison, TRUE)
                                               ELSE Rsp(RomView[r.addr], FALSE)
    <3>1. irom_bad_pending' <=> r.addr \notin RomAddr
      BY <1>5, InstrPortStep DEF InRom
    <3>2. r.addr \in RomAddr => irom_rdata' = RomView[r.addr]
      BY <1>5, <2>1 DEF Cycle, IromRdataNext, InRom, RomView
    <3>3. QED BY <1>4, <2>1, <3>1, <3>2 DEF IRsp
  <2>4. InstrMemory!Serve("I")
    BY <1>1, <1>3, <2>1, <2>2, <2>3, InstrInstances
       DEF InstrMemory!Serve, IAsked, IHeard, IAnswer, RomView
  <2>5. QED BY <1>1, <2>4, InstrInstances DEF InstrMemory!Next
<1>6. CASE ~IAccept(c) /\ asked["I"].valid
  <2>1. /\ asked'["I"] = NoReq /\ heard'["I"] = IAnswer
        /\ IAnswer.valid /\ IAnswer' = NoRsp
    BY <1>4, <1>6, InstrPortStep, ValidFields
  <2>2. /\ IAsked["I"].valid
        /\ IAsked' = [IAsked EXCEPT !["I"] = NoReq]
        /\ IHeard' = [IHeard EXCEPT !["I"] = IAnswer]
    BY <1>1, <1>2, <1>6, <2>1
  <2>3. InstrMemory!Tell("I")
    BY <1>3, <2>1, <2>2, InstrInstances
       DEF InstrMemory!Tell, IAsked, IHeard, IAnswer, RomView
  <2>4. QED BY <1>1, <2>3, InstrInstances DEF InstrMemory!Next
<1>7. CASE ~IAccept(c) /\ ~asked["I"].valid
  <2>1. /\ asked'["I"] = asked["I"] /\ heard'["I"] = heard["I"]
        /\ IAnswer' = IAnswer
    BY <1>4, <1>7, InstrPortStep
  <2>2. IAsked' = IAsked /\ IHeard' = IHeard
    BY <1>2, <2>1
  <2>3. QED BY <1>3, <2>1, <2>2
            DEF InstrMemory!vars, IAsked, IHeard, IAnswer, RomView
<1>8. QED BY <1>5, <1>6, <1>7

(***************************************************************************)
(* For every address map the data port sees an atomic memory through       *)
(* fabric, router and devices: each accepted request is performed once and *)
(* its own answer comes back.                                              *)
(***************************************************************************)
THEOREM DataRefinement == Spec => ImplementsDataMemory
<1>1. Init => DataMemory!Init
  <2> SUFFICES ASSUME Init PROVE DataMemory!Init
    OBVIOUS
  <2>1. IInv
    BY InitIInv
  <2>2. DAnswer = NoRsp
    BY <2>1, ValidFields DEF Init, IInv, TypeOK, Agreed, DAnswer, DRspValid,
       Port
  <2>3. DAsked = [q \in Port |-> NoReq] /\ DHeard = [q \in Port |-> NoRsp]
    BY DEF Init, DAsked, DHeard, Only
  <2>4. QED BY <2>1, <2>2, <2>3, DataInstances
            DEF IInv, TypeOK, DataMemory!Init, DAsked, DHeard, DAnswer
<1>2. IInv /\ [Next]_vars => [DataMemory!Next]_(DataMemory!vars)
  <2>1. ASSUME IInv, Next
        PROVE  DataMemory!Next \/ UNCHANGED DataMemory!vars
    BY <2>1, DataStep DEF Next
  <2>2. UNCHANGED vars => UNCHANGED DataMemory!vars
    BY DEF vars, dataVars, DataMemory!vars, Only, DRspValid, DRsp, Routed
  <2>3. QED BY <2>1, <2>2
<1>3. QED BY <1>1, <1>2, Inductive, PTL
          DEF Spec, ImplementsDataMemory, DataMemory!Spec

(***************************************************************************)
(* The instruction port sees the ROM as an atomic memory in which every    *)
(* other address is refused, whatever the data port does meanwhile.        *)
(***************************************************************************)
THEOREM InstrRefinement == Spec => ImplementsInstrMemory
<1>1. Init => InstrMemory!Init
  <2> SUFFICES ASSUME Init PROVE InstrMemory!Init
    OBVIOUS
  <2>1. IInv
    BY InitIInv
  <2>2. IAnswer = NoRsp
    BY DEF Init, IAnswer, IRspValid
  <2>3. IAsked = [q \in Port |-> NoReq] /\ IHeard = [q \in Port |-> NoRsp]
    BY DEF Init, IAsked, IHeard, Only
  <2>4. RomView \in [Addr -> Val]
    BY <2>1, CoreBusAssumption DEF IInv, TypeOK, RomView
  <2>5. QED BY <2>2, <2>3, <2>4, InstrInstances
            DEF InstrMemory!Init, IAsked, IHeard, IAnswer, RomView
<1>2. IInv /\ [Next]_vars => [InstrMemory!Next]_(InstrMemory!vars)
  <2>1. ASSUME IInv, Next
        PROVE  InstrMemory!Next \/ UNCHANGED InstrMemory!vars
    BY <2>1, InstrStep DEF Next
  <2>2. UNCHANGED vars => UNCHANGED InstrMemory!vars
    BY DEF vars, dataVars, instrVars, InstrMemory!vars, Only, IRspValid, IRsp
  <2>3. QED BY <2>1, <2>2
<1>3. QED BY <1>1, <1>2, Inductive, PTL
          DEF Spec, ImplementsInstrMemory, InstrMemory!Spec
=============================================================================
