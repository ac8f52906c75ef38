------------------------------- MODULE BackEnd -------------------------------
(***************************************************************************)
(* ID, EX/MEM and WB of sisRvCore with the trap state of sisCsr, the LR/SC *)
(* reservation, the debug halt and step flags and the data bus.  One step  *)
(* is one clock; the inputs of the cycle are the record c:                 *)
(*   c.arrive  the instruction IF delivers to the IF/ID register, or     *)
(*             Nothing                                                     *)
(*   c.hazard  id_ex_hazard: ID waits for a register EX will write        *)
(*   c.line    an interrupt enabled in mie is pending                     *)
(*   c.bus     what the data bus does: nothing, accept a request, accept  *)
(*             one it will refuse, answer                                 *)
(*   c.debug   the debug requests asserted                                *)
(* Instructions come as FetchStream delivers them: in order from the last  *)
(* redirect target, at any time, but never in the cycle after a flush.     *)
(*                                                                         *)
(* An instruction is the behaviour the control logic tells apart: what     *)
(* only computes is "alu", what raises its own exception before any access *)
(* (illegal encoding, fetch error, trigger, misaligned or PMP denied       *)
(* address, misaligned target) is "bad", ECALL and EBREAK are "ecall".  A  *)
(* memory instruction that is not legal, or whose second half could not be *)
(* fetched, is a case of its own: EX accesses memory first and traps       *)
(* afterwards.                                                             *)
(***************************************************************************)
EXTENDS Naturals, Sequences

CONSTANTS
  PC, Seq4,      \* program counters; the next sequential one
  ResetVector,
  Base, IrqVec,  \* where mtvec sends exceptions and interrupts
  Addr,          \* data addresses
  Instrs,        \* the instructions programs are made of
  Refusable,     \* the <<op, "r" or "w">> accesses the bus may refuse
  Interrupts,    \* interrupts happen
  Debugger       \* debug requests made: subset of {"halt", "resume", "step"}

Priv   == {"M", "U"}
MemOps == {"load", "store", "lr", "sc", "amo"}

Plain(op)       == [op |-> op]
Jump(pc)        == [op |-> "jump", to |-> pc]
Mem(op, a)      == [op |-> op, addr |-> a, legal |-> TRUE]
IllMem(op, a)   == [op |-> op, addr |-> a, legal |-> FALSE]
MieWrite(b)     == [op |-> "csr", reg |-> "mie", mie |-> b]
MppWrite(p)     == [op |-> "csr", reg |-> "mpp", mpp |-> p]
MepcWrite(pc)   == [op |-> "csr", reg |-> "mepc", mepc |-> pc]

InstrSet ==
  [op : {"alu", "bad", "ecall", "mret"}]
    \cup [op : {"jump"}, to : PC]
    \cup [op : MemOps, addr : Addr, legal : BOOLEAN]
    \cup [op : {"csr"}, reg : {"mepc"}, mepc : PC]
    \cup [op : {"csr"}, reg : {"mie"}, mie : BOOLEAN]
    \cup [op : {"csr"}, reg : {"mpp"}, mpp : Priv]

ASSUME BackEndAssumption ==
  /\ Seq4 \in [PC -> PC]
  /\ {ResetVector, Base, IrqVec} \subseteq PC
  /\ Instrs \subseteq InstrSet
  /\ Refusable \subseteq MemOps \X {"r", "w"}
  /\ Interrupts \in BOOLEAN
  /\ Debugger \subseteq {"halt", "resume", "step"}

VARIABLES
  fetch_pc,     \* PC of the next instruction to arrive
  refill,       \* the last cycle flushed the front end
  if_id, ex, wb,
  csr,          \* mstatus.MIE, MPIE, MPP, the privilege, mepc
  reservation,  \* the address reserved by LR, as a set
  halted, step_active,
  dbus,         \* the data access accepted and not answered
  due,          \* history: PC that has to complete next
  accesses      \* history: accesses made by the instruction in EX

vars == << fetch_pc, refill, if_id, ex, wb, csr, reservation, halted,
           step_active, dbus, due, accesses >>

Nothing == [valid |-> FALSE]

ExStates == {"EX_EXEC", "EX_MEM_REQ", "EX_MEM_WAIT", "EX_AMO_STORE_REQ",
             "EX_AMO_STORE_WAIT"}

TypeOK ==
  /\ fetch_pc \in PC
  /\ refill \in BOOLEAN
  /\ if_id \in {Nothing} \cup [valid : {TRUE}, pc : PC, instr : Instrs]
  /\ ex \in {Nothing} \cup [valid : {TRUE}, state : ExStates, pc : PC,
                            instr : Instrs, priv : Priv]
  /\ wb \in {Nothing} \cup [valid : {TRUE}, pc : PC, instr : Instrs,
                            exc : BOOLEAN, irq : BOOLEAN, target : PC,
                            next : PC]
  /\ csr \in [mie : BOOLEAN, mpie : BOOLEAN, mpp : Priv, priv : Priv,
              mepc : PC]
  /\ reservation \in {{}} \cup {{a} : a \in Addr}
  /\ halted \in BOOLEAN
  /\ step_active \in BOOLEAN
  /\ dbus \in {Nothing} \cup [valid : {TRUE}, we : BOOLEAN, addr : Addr,
                              err : BOOLEAN]
  /\ due \in PC
  /\ accesses \in {<<>>, <<"r">>, <<"w">>, <<"r", "w">>}

Init ==
  /\ fetch_pc = ResetVector
  /\ refill = TRUE
  /\ if_id = Nothing
  /\ ex = Nothing
  /\ wb = Nothing
  /\ csr = [mie |-> FALSE, mpie |-> FALSE, mpp |-> "U", priv |-> "M",
            mepc |-> Base]
  /\ reservation = {}
  /\ halted = FALSE
  /\ step_active = FALSE
  /\ dbus = Nothing
  /\ due = ResetVector
  /\ accesses = <<>>

-----------------------------------------------------------------------------
(* WB: what the retiring instruction does to the trap state.               *)

Faulted == wb.valid /\ wb.exc
IsWb(op) == wb.valid /\ ~wb.exc /\ wb.instr.op = op

SyncTrap  == Faulted \/ IsWb("ecall")
IrqTrap   == /\ wb.valid /\ wb.irq /\ ~SyncTrap
             /\ ~IsWb("csr") /\ ~IsWb("mret")
TrapEnter == SyncTrap \/ IrqTrap

InstrRetire == /\ wb.valid /\ ~SyncTrap
               /\ wb.irq => IsWb("csr")

WritesCsr(reg) == IsWb("csr") /\ wb.instr.reg = reg

CsrNext ==
  IF TrapEnter
    THEN [mie |-> FALSE, mpie |-> csr.mie, mpp |-> csr.priv, priv |-> "M",
          mepc |-> IF SyncTrap THEN wb.pc ELSE wb.target]
  ELSE IF IsWb("mret")
    THEN [csr EXCEPT !.priv = csr.mpp, !.mpp = "U", !.mie = csr.mpie,
                     !.mpie = TRUE]
  ELSE IF WritesCsr("mie") THEN [csr EXCEPT !.mie = wb.instr.mie]
  ELSE IF WritesCsr("mpp") THEN [csr EXCEPT !.mpp = wb.instr.mpp]
  ELSE IF WritesCsr("mepc") THEN [csr EXCEPT !.mepc = wb.instr.mepc]
  ELSE csr

StepStop == step_active /\ InstrRetire

-----------------------------------------------------------------------------
(* EX.                                                                     *)

IsEx(op) == ex.valid /\ ex.instr.op = op
InState(s) == ex.valid /\ ex.state = s

PrivIllegal == ex.priv = "U" /\ ex.instr.op \in {"mret", "csr"}
IllegalEx   == ex.instr.op \in MemOps /\ ~ex.instr.legal

ScSucceeds == IsEx("sc") /\ ex.instr.addr \in reservation

MemAccess ==
  /\ InState("EX_EXEC")
  /\ ex.instr.op \in MemOps
  /\ ex.instr.op = "sc" => ScSucceeds

(* Variant: a request the bus does not take at once is withdrawn.          *)
MemRequestingOnce == MemAccess \/ InState("EX_AMO_STORE_REQ")

MemRequesting ==
  MemAccess \/ InState("EX_MEM_REQ") \/ InState("EX_AMO_STORE_REQ")

ReqWe == IsEx("store") \/ IsEx("sc") \/ InState("EX_AMO_STORE_REQ")

Access == IF ReqWe THEN "w" ELSE "r"

RspReady == InState("EX_MEM_WAIT") \/ InState("EX_AMO_STORE_WAIT")

ReqFire(c) == MemRequesting /\ c.bus \in {"accept", "refuse"}
RspFire(c) == RspReady /\ c.bus = "answer"

ExecToWb == InState("EX_EXEC") /\ ~MemAccess

(* Variant: the load half of an AMO completes the instruction.             *)
MemToWbAmo(c) == InState("EX_MEM_WAIT") /\ RspFire(c)

MemToWb(c)  == InState("EX_MEM_WAIT") /\ RspFire(c) /\ ~IsEx("amo")
AmoToWb(c)  == InState("EX_AMO_STORE_WAIT") /\ RspFire(c)
ToWb(c)     == ExecToWb \/ MemToWb(c) \/ AmoToWb(c)

ExFaults(c) ==
  \/ IsEx("bad") \/ PrivIllegal \/ IllegalEx
  \/ (MemToWb(c) \/ AmoToWb(c)) /\ dbus.err

TakesIrq(c) == csr.mie /\ c.line

(* ex_next_pc_target: where the instruction itself goes.                   *)
Target == IF IsEx("jump") THEN ex.instr.to ELSE Seq4[ex.pc]

(* Variant: a pending interrupt is looked at before the fault.             *)
PcNextIrqFirst(c) ==
  IF TakesIrq(c) /\ ~IsEx("csr") THEN IrqVec
  ELSE IF ExFaults(c) \/ IsEx("ecall") THEN Base
  ELSE IF IsEx("mret") THEN csr.mepc
  ELSE Target

(* ex_pc_next: where fetch is sent.                                        *)
PcNext(c) ==
  IF ExFaults(c) THEN Base
  ELSE IF TakesIrq(c) /\ ~IsEx("csr") THEN IrqVec
  ELSE IF IsEx("ecall") THEN Base
  ELSE IF IsEx("mret") THEN csr.mepc
  ELSE Target

(* Variant: a fault does not discard what was fetched.                     *)
RedirectNotFault(c) ==
  /\ ToWb(c)
  /\ ~StepStop
  /\ \/ ex.instr.op \in {"jump", "ecall", "mret"}
     \/ TakesIrq(c) /\ ~IsEx("csr")

Redirect(c) ==
  /\ ToWb(c)
  /\ ~StepStop
  /\ \/ ExFaults(c)
     \/ ex.instr.op \in {"jump", "ecall", "mret"}
     \/ TakesIrq(c) /\ ~IsEx("csr")

-----------------------------------------------------------------------------
(* ID.                                                                     *)

Halt(c)    == "halt" \in c.debug
Resume(c)  == "resume" \in c.debug
Step(c)    == "step" \in c.debug
Running(c) == ~halted /\ ~Halt(c) /\ (Step(c) => step_active)

IdToEx(c) ==
  /\ if_id.valid
  /\ ~ex.valid \/ ToWb(c)
  /\ ~Redirect(c)
  /\ ~c.hazard
  /\ ~StepStop
  /\ Running(c)

Flush(c) == Redirect(c) \/ StepStop

-----------------------------------------------------------------------------
(* Next values.  As in FetchStage, what the RTL assigns last comes first.  *)

FetchPcNext(c) ==
  IF StepStop THEN wb.next
  ELSE IF Redirect(c) THEN PcNext(c)
  ELSE IF c.arrive # Nothing THEN Seq4[fetch_pc]
  ELSE fetch_pc

(* Variant: the IF/ID register survives a flush.                           *)
IfIdNextKept(c) ==
  IF c.arrive # Nothing
    THEN [valid |-> TRUE, pc |-> fetch_pc, instr |-> c.arrive]
  ELSE IF IdToEx(c) THEN Nothing
  ELSE if_id

IfIdNext(c) ==
  IF Flush(c) THEN Nothing
  ELSE IF c.arrive # Nothing
    THEN [valid |-> TRUE, pc |-> fetch_pc, instr |-> c.arrive]
  ELSE IF IdToEx(c) THEN Nothing
  ELSE if_id

ExStateNext(c) ==
  IF MemAccess THEN IF ReqFire(c) THEN "EX_MEM_WAIT" ELSE "EX_MEM_REQ"
  ELSE IF InState("EX_MEM_REQ") /\ ReqFire(c) THEN "EX_MEM_WAIT"
  ELSE IF InState("EX_MEM_WAIT") /\ RspFire(c) THEN "EX_AMO_STORE_REQ"
  ELSE IF InState("EX_AMO_STORE_REQ") /\ ReqFire(c) THEN "EX_AMO_STORE_WAIT"
  ELSE ex.state

(* Variant: stores are posted, EX does not wait for their response.        *)
LeavesExPosted(c) ==
  \/ ToWb(c)
  \/ StepStop
  \/ IsEx("store") /\ ReqFire(c)

(* The instruction leaves EX: to WB, by a flush, or because the load half  *)
(* of an AMO was refused.                                                  *)
LeavesEx(c) ==
  \/ ToWb(c)
  \/ StepStop
  \/ IsEx("amo") /\ InState("EX_MEM_WAIT") /\ RspFire(c) /\ dbus.err

ExNext(c) ==
  IF IdToEx(c)
    THEN [valid |-> TRUE, state |-> "EX_EXEC", pc |-> if_id.pc,
          instr |-> if_id.instr, priv |-> csr.priv]
  ELSE IF LeavesEx(c) \/ ~ex.valid THEN Nothing
  ELSE [ex EXCEPT !.state = ExStateNext(c)]

WbNext(c) ==
  IF ToWb(c) /\ ~StepStop
  THEN [valid |-> TRUE, pc |-> ex.pc, instr |-> ex.instr,
        exc |-> ExFaults(c), irq |-> TakesIrq(c), target |-> Target,
        next |-> PcNext(c)]
  ELSE Nothing

(* Variant: LR reserves when its request is taken.                         *)
ReservationNextEarly(c) ==
  IF Redirect(c) THEN {}
  ELSE IF IsEx("lr") /\ ReqFire(c) THEN {ex.instr.addr}
  ELSE IF InState("EX_MEM_WAIT") /\ RspFire(c) /\ IsEx("sc") THEN {}
  ELSE reservation

ReservationNext(c) ==
  IF Redirect(c) THEN {}
  ELSE IF InState("EX_MEM_WAIT") /\ RspFire(c) /\ IsEx("lr") /\ ~dbus.err
    THEN {ex.instr.addr}
  ELSE IF InState("EX_MEM_WAIT") /\ RspFire(c) /\ IsEx("sc") THEN {}
  ELSE reservation

(* Variant: the end of a step does not halt.                               *)
HaltedNextRunsOn(c) ==
  IF Halt(c) THEN TRUE
  ELSE IF Resume(c) THEN FALSE
  ELSE halted

HaltedNext(c) ==
  IF Halt(c) THEN TRUE
  ELSE IF Resume(c) THEN FALSE
  ELSE halted \/ StepStop

StepActiveNext(c) ==
  IF Halt(c) THEN FALSE
  ELSE IF Resume(c) THEN halted /\ Step(c)
  ELSE step_active /\ ~StepStop

(* The data bus takes one access and answers it when EX listens.           *)
DbusNext(c) ==
  IF ReqFire(c)
    THEN [valid |-> TRUE, we |-> ReqWe, addr |-> ex.instr.addr,
          err |-> c.bus = "refuse"]
  ELSE IF RspFire(c) THEN Nothing
  ELSE dbus

-----------------------------------------------------------------------------
(* What the surroundings may do in a cycle.  Inputs nothing samples are    *)
(* left at rest: the interlock and the interrupt matter only when EX may   *)
(* hand over.  The debugger resumes a core it sees halted.                 *)
Sampled(when) == IF when THEN BOOLEAN ELSE {FALSE}

BusMay ==
  IF dbus.valid THEN {"answer"}
  ELSE IF ~MemRequesting THEN {}
  ELSE IF <<ex.instr.op, Access>> \in Refusable THEN {"accept", "refuse"}
  ELSE {"accept"}

MayLeave == ExecToWb \/ (RspReady /\ dbus.valid)

Hazards == Sampled(if_id.valid /\ MayLeave)

InputSet(hazards, bus, debug) ==
  [arrive : {Nothing} \cup
              (IF refill \/ (if_id.valid /\ ex.valid /\ ~MayLeave) THEN {} ELSE Instrs),
   hazard : hazards,
   line : Sampled(Interrupts /\ MayLeave /\ csr.mie),
   bus : bus,
   debug : debug]

Inputs == InputSet(Hazards, {"idle"} \cup BusMay,
                   SUBSET IF halted THEN Debugger ELSE Debugger \ {"resume"})

Possible(c) ==
  /\ c.arrive # Nothing => ~Flush(c) /\ (if_id.valid => IdToEx(c))
  /\ c.line => ToWb(c)

Cycle(c) ==
  /\ Possible(c)
  /\ fetch_pc' = FetchPcNext(c)
  /\ refill' = Flush(c)
  /\ if_id' = IfIdNext(c)
  /\ ex' = ExNext(c)
  /\ wb' = WbNext(c)
  /\ csr' = CsrNext
  /\ reservation' = ReservationNext(c)
  /\ halted' = HaltedNext(c)
  /\ step_active' = StepActiveNext(c)
  /\ dbus' = DbusNext(c)
  /\ due' = IF ToWb(c) /\ ~StepStop THEN PcNext(c) ELSE due
  /\ accesses' = IF LeavesEx(c) \/ ~ex.valid THEN <<>>
                 ELSE IF ReqFire(c)
                   THEN Append(accesses, Access)
                 ELSE accesses

Next == \E c \in Inputs : Cycle(c)

Spec == Init /\ [][Next]_vars

(***************************************************************************)
(* Fairness: the clock runs, the bus neither refuses nor delays an access  *)
(* for ever, IF delivers (FetchUnit!FetchProgress) and ID does not wait    *)
(* for a register that nobody will write.  Nothing is assumed of the       *)
(* debugger.                                                               *)
(***************************************************************************)
Responsive ==
  \E c \in InputSet({FALSE},
                    IF BusMay = {} THEN {"idle"} ELSE BusMay \ {"refuse"},
                    SUBSET (Debugger \cap {"step"})) :
    /\ c.arrive = Nothing => refill \/ Flush(c) \/ (if_id.valid /\ ~IdToEx(c))
    /\ Cycle(c)

FairSpec == Spec /\ WF_vars(Responsive)

-----------------------------------------------------------------------------
(* Properties.                                                             *)

(* The pipeline holds consecutive instructions of the one path execution   *)
(* takes: what is in EX is what has to complete next, IF/ID holds its      *)
(* sequel and fetch_pc the one after, across redirects, traps, interrupts  *)
(* and debug stops that discard instructions half way.                     *)
InOrder ==
  LET afterEx == IF ex.valid THEN Seq4[ex.pc] ELSE due
      afterId == IF if_id.valid THEN Seq4[if_id.pc] ELSE afterEx
  IN  /\ ex.valid => ex.pc = due
      /\ if_id.valid => if_id.pc = afterEx
      /\ fetch_pc = afterId

(* Traps are precise (README.md:15).  When WB enters one, whatever followed *)
(* the trapping instruction is gone from the pipeline and fetch stands at  *)
(* the handler: EX took that decision a cycle earlier, from conditions it  *)
(* latched separately.  When WB enters none, execution goes on where the   *)
(* instruction says, so an interrupt that finds a CSR instruction waits.   *)
(* ECALL and EBREAK that meet an interrupt are the subject of              *)
(* ExceptionsToBase; for MRET see README, section 4.                       *)
TrapPrecise ==
  /\ TrapEnter => refill /\ ~if_id.valid /\ ~ex.valid
  /\ SyncTrap /\ ~(IsWb("ecall") /\ wb.irq) => fetch_pc = Base
  /\ IrqTrap => fetch_pc = IrqVec
  /\ wb.valid /\ ~TrapEnter /\ ~IsWb("mret") => wb.next = wb.target

(* Exceptions always go to BASE: docs/status.md:273, and the comment at    *)
(* sisRvCore.sv:776 for ECALL and EBREAK.                                  *)
ExceptionsToBase == SyncTrap => wb.next = Base

(* The privilege latched with an instruction on its way to EX is still the *)
(* privilege when EX checks its legality and its accesses with it.         *)
PrivOfPath == ex.valid => ex.priv = csr.priv

(* The privilege changes only in the cycle after a flush, when IF/ID and   *)
(* EX are empty: docs/UMODE_PMP_PLAN.md:53, and what FetchUnit assumes of  *)
(* this part.                                                              *)
PrivChangesBehindFlush ==
  [][csr'.priv # csr.priv => refill /\ ~if_id.valid /\ ~ex.valid]_vars

(* The access on the data bus is the one EX waits for: no response reaches *)
(* an instruction that did not ask for it.                                 *)
DBusOwned ==
  dbus.valid <=> InState("EX_MEM_WAIT") \/ InState("EX_AMO_STORE_WAIT")

(* An instruction that reaches WB has made exactly the accesses its        *)
(* operation calls for, each once and in order, however long the bus made  *)
(* it wait; one that faults before its access made none.                   *)
AccessesOf(op, succeeds) ==
  IF op \in {"load", "lr"} THEN <<"r">>
  ELSE IF op = "store" \/ (op = "sc" /\ succeeds) THEN <<"w">>
  ELSE IF op = "amo" THEN <<"r", "w">>
  ELSE <<>>

AccessedOnce ==
  [][wb'.valid => accesses = AccessesOf(ex.instr.op, ScSucceeds)]_vars

(* No reservation survives a trap (docs/status.md:274).                    *)
ReservationDropped == TrapEnter => reservation = {}

(* Only a load-reserved of the address that WB then completes makes a      *)
(* reservation, so that a store-conditional succeeds only after one.       *)
ReservedByLr ==
  [][reservation' # reservation /\ reservation' # {} =>
       wb'.valid /\ ~wb'.irq /\ wb'.instr.op = "lr"
         /\ reservation' = {wb'.instr.addr}]_vars

(* A memory instruction that has reached EX completes, also in a core      *)
(* halted meanwhile: halting stops ID, not EX.  The bus refuses no load    *)
(* half of an AMO, which leaves EX without completing.                     *)
AccessCompletes ==
  (ex.valid /\ ex.instr.op \in MemOps) ~> (wb.valid /\ wb.instr.op \in MemOps)

(* A single step ends: the core halts again.                               *)
StepHalts == step_active ~> halted

=============================================================================
