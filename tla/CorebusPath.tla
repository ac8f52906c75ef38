---------------------------- MODULE CorebusPath ----------------------------
(***************************************************************************)
(* The memory path of the corebus build (USE_AXIL = 0).  The data port     *)
(* goes through sisMemFabric to ROM, RAM, CLINT, PLIC and the MMIO router  *)
(* of sisPlatformTop with tohost, GPIO and UART behind it; the instruction *)
(* port has a ROM of its own and an error answer for every other address.  *)
(* Each device answers in the cycle after it accepted a request.           *)
(*                                                                         *)
(* An address stands for a word of ROM or RAM or for a register of a       *)
(* device that reads back what was written.  The data in the answer to a   *)
(* write, which no port looks at, is left out.                             *)
(*                                                                         *)
(* One step is one clock with the inputs c:                                *)
(*   c.i, c.d   the requests the ports present, or NoReq                   *)
(*   c.listen   d_rsp_ready                                                *)
(* The instruction port may ask at any time and listens as long as it      *)
(* waits (FetchUnit!SingleOutstanding); the data port asks when it waits   *)
(* for nothing (BackEnd!DBusOwned).                                        *)
(***************************************************************************)
EXTENDS CoreBus, FiniteSets

CONSTANTS
  Decode,     \* the device an address selects, or "none"
  Fetches,    \* the requests programs cause: fetches, loads and stores
  Loads,
  Stores

Mmio    == {"tohost", "gpio", "uart"}
Devices == {"rom", "ram", "clint", "plic"} \cup Mmio
Slaves  == {"rom", "ram", "clint", "plic", "mmio", "none"}

ASSUME CorebusAssumption ==
  /\ Decode \in [Addr -> Devices \cup {"none"}]
  /\ RomAddr = {a \in Addr : Decode[a] = "rom"}
  /\ BadAddr = {a \in Addr : Decode[a] = "none"}
  /\ Fetches \subseteq Requests("I")
  /\ Loads \subseteq Requests("D")
  /\ Stores \subseteq Requests("D")

VARIABLES
  active_slave, has_pending,       \* sisMemFabric
  mmio_sel_r,                      \* the MMIO router
  mem,
  pending, rdata_reg,              \* of the devices
  irom_pending, irom_rdata, irom_bad_pending,
  asked,     \* history: the request each port waits for
  heard      \* history: what each port received since the last acceptance

dataVars  == << active_slave, has_pending, mmio_sel_r, mem, pending,
                rdata_reg >>
instrVars == << irom_pending, irom_rdata, irom_bad_pending >>
vars == << dataVars, instrVars, asked, heard >>

Inputs ==
  IF asked["D"].valid
  THEN [i : {NoReq} \cup Fetches, d : {NoReq}, listen : BOOLEAN]
  ELSE [i : {NoReq} \cup Fetches, d : {NoReq} \cup Loads \cup Stores,
        listen : {FALSE}]

TypeOK ==
  /\ active_slave \in Slaves
  /\ has_pending \in BOOLEAN
  /\ mmio_sel_r \in Mmio
  /\ mem \in [Addr -> Val]
  /\ pending \subseteq Devices
  /\ rdata_reg \in [Devices -> Val]
  /\ irom_pending \in BOOLEAN
  /\ irom_rdata \in Val
  /\ irom_bad_pending \in BOOLEAN
  /\ asked \in [Port -> {NoReq} \cup ReqSet]
  /\ heard \in [Port -> {NoRsp} \cup RspSet]

Init ==
  /\ active_slave = "rom"
  /\ has_pending = FALSE
  /\ mmio_sel_r = "tohost"
  /\ mem \in {f \in [Addr -> Val] :
                \A a \in Addr : Decode[a] \in {"rom", "ram"} \/ f[a] = Zero}
  /\ pending = {}
  /\ rdata_reg = [d \in Devices |-> Zero]
  /\ irom_pending = FALSE
  /\ irom_rdata = Zero
  /\ irom_bad_pending = FALSE
  /\ asked = [p \in Port |-> NoReq]
  /\ heard = [p \in Port |-> NoRsp]

-----------------------------------------------------------------------------
(* The data port: fabric, MMIO router and devices.                         *)

SlaveOf(device) == IF device \in Mmio THEN "mmio" ELSE device

(* The device whose response the fabric passes on.                         *)
Routed == IF active_slave = "mmio" THEN mmio_sel_r ELSE active_slave

(* rsp_ready of a device.                                                  *)
Released(device, c) == c.listen /\ Routed = device

DReady(c) ==
  LET device == Decode[c.d.addr]
  IN  \/ device = "none"
      \/ device \notin pending
      \/ Released(device, c)

DAccept(c) == c.d.valid /\ DReady(c)

DRspValid == IF Routed = "none" THEN has_pending ELSE Routed \in pending

(* What the port makes of the response.                                    *)
DRsp ==
  IF asked["D"].we THEN Rsp(Zero, Routed = "none")
  ELSE IF Routed = "none" THEN Rsp(Poison, TRUE)
  ELSE Rsp(rdata_reg[Routed], FALSE)

DDone(c) == DRspValid /\ c.listen

ActiveSlaveNext(c) ==
  IF DAccept(c) /\ ~has_pending THEN SlaveOf(Decode[c.d.addr])
                                ELSE active_slave

(* Variant: only requests that reach a slave are remembered.               *)
HasPendingNextDecoded(c) ==
  IF DAccept(c) /\ ~has_pending /\ Decode[c.d.addr] # "none"
  THEN TRUE ELSE has_pending /\ ~DDone(c)

HasPendingNext(c) ==
  IF DAccept(c) /\ ~has_pending THEN TRUE ELSE has_pending /\ ~DDone(c)

(* Variant: the router remembers where reads went only.                    *)
MmioSelNextReads(c) ==
  IF DAccept(c) /\ ~c.d.we /\ Decode[c.d.addr] \in Mmio
  THEN Decode[c.d.addr] ELSE mmio_sel_r

MmioSelNext(c) ==
  IF DAccept(c) /\ Decode[c.d.addr] \in Mmio THEN Decode[c.d.addr]
                                             ELSE mmio_sel_r

(* sisRom answers reads only.                                              *)
Answers(device, we) == device = "rom" => ~we

PendingNext(c) ==
  {device \in Devices :
     \/ DAccept(c) /\ Decode[c.d.addr] = device /\ Answers(device, c.d.we)
     \/ device \in pending /\ ~Released(device, c)}

RdataNext(c) ==
  IF DAccept(c) /\ ~c.d.we /\ Decode[c.d.addr] # "none"
  THEN [rdata_reg EXCEPT ![Decode[c.d.addr]] = mem[c.d.addr]]
  ELSE rdata_reg

MemNext(c) ==
  IF DAccept(c) /\ c.d.we THEN Stored(mem, c.d.addr, c.d.data) ELSE mem

-----------------------------------------------------------------------------
(* The instruction port: the ROM and the answer for addresses outside it.  *)

IListens == asked["I"].valid

InRom(c) == c.i.addr \in RomAddr

IReady(c) ==
  IF InRom(c) THEN ~irom_pending \/ (IListens /\ ~irom_bad_pending)
              ELSE ~irom_bad_pending

IAccept(c) == c.i.valid /\ IReady(c)

IRspValid == irom_bad_pending \/ irom_pending

(* Variant: the data says that the fetch failed, the error line does not.  *)
IRspSilent == Rsp(IF irom_bad_pending THEN Poison ELSE irom_rdata, FALSE)

IRsp == IF irom_bad_pending THEN Rsp(Poison, TRUE) ELSE Rsp(irom_rdata, FALSE)

IDone == IRspValid /\ IListens

IromBadNext(c) ==
  IF IAccept(c) /\ ~InRom(c) THEN TRUE ELSE irom_bad_pending /\ ~IDone

IromPendingNext(c) ==
  IF IAccept(c) /\ InRom(c) THEN TRUE
  ELSE irom_pending /\ ~(IListens /\ ~irom_bad_pending)

IromRdataNext(c) ==
  IF IAccept(c) /\ InRom(c) THEN mem[c.i.addr] ELSE irom_rdata

-----------------------------------------------------------------------------
AskedNext(p, accept, r, done) ==
  IF accept THEN r ELSE IF done THEN NoReq ELSE asked[p]

HeardNext(p, accept, done, answer) ==
  IF done THEN answer ELSE IF accept THEN NoRsp ELSE heard[p]

Cycle(c) ==
  /\ active_slave' = ActiveSlaveNext(c)
  /\ has_pending' = HasPendingNext(c)
  /\ mmio_sel_r' = MmioSelNext(c)
  /\ mem' = MemNext(c)
  /\ pending' = PendingNext(c)
  /\ rdata_reg' = RdataNext(c)
  /\ irom_pending' = IromPendingNext(c)
  /\ irom_rdata' = IromRdataNext(c)
  /\ irom_bad_pending' = IromBadNext(c)
  /\ asked' = [p \in Port |->
                 IF p = "D" THEN AskedNext(p, DAccept(c), c.d, DDone(c))
                            ELSE AskedNext(p, IAccept(c), c.i, IDone)]
  /\ heard' = [p \in Port |->
                 IF p = "D" THEN HeardNext(p, DAccept(c), DDone(c), DRsp)
                            ELSE HeardNext(p, IAccept(c), IDone, IRsp)]

Next == \E c \in Inputs : Cycle(c)

Spec == Init /\ [][Next]_vars

(* Fairness: the clock runs and the data port, waiting for a response,     *)
(* takes it in the end.                                                    *)
Listening ==
  /\ asked["D"].valid
  /\ \E i \in {NoReq} \cup Fetches :
       Cycle([i |-> i, d |-> NoReq, listen |-> TRUE])

FairSpec == Spec /\ WF_vars(Next) /\ WF_vars(Listening)

-----------------------------------------------------------------------------
(* Properties.                                                             *)

(* Fabric, router and devices agree about the access in flight: only the   *)
(* device it was sent to is busy with it, and that is the one whose        *)
(* response is passed on.                                                  *)
Agreed ==
  LET r == asked["D"]
  IN  /\ has_pending <=> r.valid
      /\ pending = IF r.valid /\ Decode[r.addr] # "none"
                        /\ Answers(Decode[r.addr], r.we)
                   THEN {Decode[r.addr]} ELSE {}
      /\ r.valid => Routed = Decode[r.addr]

(* The instruction port is owed one answer at most, by the ROM or by the   *)
(* error path, so neither can overtake the other.                          *)
OneAnswerOwed ==
  /\ asked["I"].valid <=> IRspValid
  /\ ~(irom_pending /\ irom_bad_pending)
  /\ irom_bad_pending => asked["I"].addr \notin RomAddr
  /\ irom_pending => asked["I"].addr \in RomAddr

(* Each port sees an atomic memory: every request is performed once, when  *)
(* it is accepted, and answered with what the memory held then.  The       *)
(* instruction port sees the ROM alone.                                    *)
Only(p, f, none) == [q \in Port |-> IF q = p THEN f[q] ELSE none]

DataMemory ==
  INSTANCE PortMemory
    WITH asked <- Only("D", asked, NoReq), heard <- Only("D", heard, NoRsp),
         answer <- IF DRspValid THEN DRsp ELSE NoRsp

InstrMemory ==
  INSTANCE PortMemory
    WITH BadAddr <- Addr \ RomAddr,
         mem <- [a \in Addr |-> IF a \in RomAddr THEN mem[a] ELSE Zero],
         asked <- Only("I", asked, NoReq), heard <- Only("I", heard, NoRsp),
         answer <- IF IRspValid THEN IRsp ELSE NoRsp

ImplementsDataMemory  == DataMemory!Spec
ImplementsInstrMemory == InstrMemory!Spec

(* Every request is answered but one: sisRom accepts a store like a load,  *)
(* never answers it, and the data port waits for ever, against             *)
(* docs/INTERFACES.md:25.  The instruction port is not held up by it.      *)
Unanswerable(r) == r.we /\ Decode[r.addr] = "rom"

Answered ==
  \A p \in Port : asked[p].valid /\ ~Unanswerable(asked[p]) ~> heard[p].valid
=============================================================================
