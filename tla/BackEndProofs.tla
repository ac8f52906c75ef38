--------------------------- MODULE BackEndProofs ---------------------------
(***************************************************************************)
(* Theorems about the hart: BackEnd, for every program, every address      *)
(* space and every behaviour of bus, interrupts and debugger; the debug    *)
(* module in front of it; and the PMP, for every width and entry count.    *)
(***************************************************************************)
EXTENDS DebugModule, Pmp, SequenceTheorems, TLAPS

(* The accesses an instruction has made in each state of EX; a             *)
(* store-conditional on the bus still holds its reservation.               *)
AccessesMade ==
  /\ ~ex.valid \/ InState("EX_EXEC") \/ InState("EX_MEM_REQ")
       => accesses = <<>>
  /\ InState("EX_MEM_REQ") => ex.instr.op \in MemOps
  /\ InState("EX_MEM_WAIT")
       => /\ ex.instr.op \in MemOps
          /\ accesses = IF ex.instr.op \in {"store", "sc"} THEN <<"w">>
                                                           ELSE <<"r">>
  /\ InState("EX_AMO_STORE_REQ") => IsEx("amo") /\ accesses = <<"r">>
  /\ InState("EX_AMO_STORE_WAIT") => IsEx("amo") /\ accesses = <<"r", "w">>
  /\ IsEx("sc") /\ ~InState("EX_EXEC") => ex.instr.addr \in reservation

(* An instruction that changes the privilege stands alone in the pipeline. *)
AloneInWb ==
  TrapEnter \/ IsWb("mret") => refill /\ ~if_id.valid /\ ~ex.valid

IInv ==
  /\ TypeOK
  /\ AccessesMade
  /\ AloneInWb
  /\ TrapPrecise
  /\ PrivOfPath
  /\ ReservationDropped

-----------------------------------------------------------------------------
(* The fields of instructions, pipeline registers and inputs.              *)

LEMMA InstrFields ==
  ASSUME NEW i \in Instrs
  PROVE  /\ i.op \in MemOps => i.addr \in Addr
         /\ i.op = "jump" => i.to \in PC
         /\ i.op = "csr" /\ i.reg = "mie" => i.mie \in BOOLEAN
         /\ i.op = "csr" /\ i.reg = "mpp" => i.mpp \in Priv
         /\ i.op = "csr" /\ i.reg = "mepc" => i.mepc \in PC
<1>1. i \in InstrSet
  BY BackEndAssumption
<1>2. CASE i \in [op : {"alu", "bad", "ecall", "mret"}]
  BY <1>2 DEF MemOps
<1>3. CASE i \in [op : {"jump"}, to : PC]
  BY <1>3 DEF MemOps
<1>4. CASE i \in [op : MemOps, addr : Addr, legal : BOOLEAN]
  BY <1>4 DEF MemOps
<1>5. CASE i \in [op : {"csr"}, reg : {"mepc"}, mepc : PC]
  BY <1>5 DEF MemOps
<1>6. CASE i \in [op : {"csr"}, reg : {"mie"}, mie : BOOLEAN]
  BY <1>6 DEF MemOps
<1>7. CASE i \in [op : {"csr"}, reg : {"mpp"}, mpp : Priv]
  BY <1>7 DEF MemOps
<1>8. QED BY <1>1, <1>2, <1>3, <1>4, <1>5, <1>6, <1>7 DEF InstrSet

LEMMA RegisterFields ==
  ASSUME TypeOK
  PROVE  /\ if_id.valid \in BOOLEAN /\ ex.valid \in BOOLEAN
         /\ wb.valid \in BOOLEAN /\ dbus.valid \in BOOLEAN
         /\ if_id.valid => if_id.pc \in PC /\ if_id.instr \in Instrs
         /\ ex.valid => /\ ex.state \in ExStates /\ ex.pc \in PC
                        /\ ex.instr \in Instrs /\ ex.priv \in Priv
         /\ wb.valid => /\ wb.pc \in PC /\ wb.instr \in Instrs
                        /\ wb.exc \in BOOLEAN /\ wb.irq \in BOOLEAN
                        /\ wb.target \in PC /\ wb.next \in PC
         /\ ~if_id.valid => if_id = Nothing
         /\ ~ex.valid => ex = Nothing
         /\ ~wb.valid => wb = Nothing
         /\ ~dbus.valid => dbus = Nothing
<1>1. Nothing.valid = FALSE
  BY DEF Nothing
<1>2. /\ if_id.valid \in BOOLEAN
      /\ if_id.valid => if_id.pc \in PC /\ if_id.instr \in Instrs
      /\ ~if_id.valid => if_id = Nothing
  <2>1. CASE if_id = Nothing
    BY <1>1, <2>1
  <2>2. CASE if_id \in [valid : {TRUE}, pc : PC, instr : Instrs]
    BY <2>2
  <2>3. QED BY <2>1, <2>2 DEF TypeOK
<1>3. /\ ex.valid \in BOOLEAN
      /\ ex.valid => /\ ex.state \in ExStates /\ ex.pc \in PC
                     /\ ex.instr \in Instrs /\ ex.priv \in Priv
      /\ ~ex.valid => ex = Nothing
  <2>1. CASE ex = Nothing
    BY <1>1, <2>1
  <2>2. CASE ex \in [valid : {TRUE}, state : ExStates, pc : PC,
                            instr : Instrs, priv : Priv]
    BY <2>2
  <2>3. QED BY <2>1, <2>2 DEF TypeOK
<1>4. /\ wb.valid \in BOOLEAN
      /\ wb.valid => /\ wb.pc \in PC /\ wb.instr \in Instrs
                     /\ wb.exc \in BOOLEAN /\ wb.irq \in BOOLEAN
                     /\ wb.target \in PC /\ wb.next \in PC
      /\ ~wb.valid => wb = Nothing
  <2>1. CASE wb = Nothing
    BY <1>1, <2>1
  <2>2. CASE wb \in [valid : {TRUE}, pc : PC, instr : Instrs,
                            exc : BOOLEAN, irq : BOOLEAN, target : PC,
                            next : PC]
    BY <2>2
  <2>3. QED BY <2>1, <2>2 DEF TypeOK
<1>5. /\ dbus.valid \in BOOLEAN
      /\ ~dbus.valid => dbus = Nothing
  <2>1. CASE dbus = Nothing
    BY <1>1, <2>1
  <2>2. CASE dbus \in [valid : {TRUE}, we : BOOLEAN, addr : Addr,
                              err : BOOLEAN]
    BY <2>2
  <2>3. QED BY <2>1, <2>2 DEF TypeOK
<1>6. QED BY <1>2, <1>3, <1>4, <1>5

LEMMA InputFields ==
  ASSUME NEW c \in Inputs
  PROVE  /\ c.arrive \in {Nothing} \cup Instrs
         /\ c.arrive # Nothing => ~refill
         /\ c.line \in BOOLEAN
         /\ c.bus = "answer" => dbus.valid
         /\ c.bus \in {"accept", "refuse"} => ~dbus.valid
         /\ c.bus = "refuse" => <<ex.instr.op, Access>> \in Refusable
         /\ c.debug \subseteq Debugger
<1>1. /\ c.arrive \in {Nothing} \cup
                       (IF refill \/ (if_id.valid /\ ex.valid /\ ~MayLeave)
                        THEN {} ELSE Instrs)
      /\ c.line \in Sampled(Interrupts /\ MayLeave /\ csr.mie)
      /\ c.bus \in {"idle"} \cup BusMay
      /\ c.debug \in SUBSET (IF halted THEN Debugger
                             ELSE Debugger \ {"resume"})
  BY DEF Inputs, InputSet
<1>2. c.line \in BOOLEAN
  BY <1>1 DEF Sampled
<1>3. /\ c.bus = "answer" => dbus.valid
      /\ c.bus \in {"accept", "refuse"} => ~dbus.valid
      /\ c.bus = "refuse" => <<ex.instr.op, Access>> \in Refusable
  BY <1>1 DEF BusMay
<1>4. QED BY <1>1, <1>2, <1>3

LEMMA Targets ==
  ASSUME IInv, NEW c \in Inputs, ex.valid
  PROVE  Target \in PC /\ PcNext(c) \in PC
BY RegisterFields, InstrFields, BackEndAssumption
   DEF IInv, TypeOK, Target, PcNext, IsEx

(* An instruction in one of the bus states is a memory instruction.        *)
LEMMA Requester ==
  ASSUME IInv, MemRequesting
  PROVE  /\ ex.valid /\ ex.instr \in Instrs
         /\ ex.instr.op \in MemOps /\ ex.instr.addr \in Addr
<1>1. ex.valid /\ ex.instr.op \in MemOps
  BY DEF IInv, AccessesMade, MemRequesting, MemAccess, InState, IsEx, MemOps
<1>2. QED BY <1>1, RegisterFields, InstrFields DEF IInv

(* Who leaves EX and what a flush clears.                                  *)
LEMMA Leaving ==
  ASSUME IInv, NEW c \in Inputs, Cycle(c)
  PROVE  /\ ToWb(c) => ex.valid /\ LeavesEx(c)
         /\ Redirect(c) => ToWb(c)
         /\ StepStop => wb.valid
         /\ Flush(c) => if_id' = Nothing /\ ex' = Nothing /\ refill'
         /\ IdToEx(c) => if_id.valid /\ (ex.valid => ToWb(c)) /\ ~Flush(c)
         /\ ~if_id'.valid \/ ~Flush(c)
<1>1. ToWb(c) => ex.valid /\ LeavesEx(c)
  BY DEF ToWb, ExecToWb, MemToWb, AmoToWb, InState, LeavesEx
<1>2. /\ Redirect(c) => ToWb(c)
      /\ StepStop => wb.valid
      /\ IdToEx(c) => if_id.valid /\ (ex.valid => ToWb(c)) /\ ~Flush(c)
  BY DEF Redirect, StepStop, InstrRetire, IdToEx, Flush
<1>3. Flush(c) => if_id' = Nothing /\ ex' = Nothing /\ refill'
  BY <1>1, <1>2 DEF Cycle, IfIdNext, ExNext, Flush, LeavesEx
<1>4. QED BY <1>1, <1>2, <1>3 DEF Nothing

LEMMA RegisterTypeStep ==
  ASSUME IInv, NEW c \in Inputs, Cycle(c)
  PROVE  /\ fetch_pc' \in PC /\ refill' \in BOOLEAN
         /\ if_id' \in {Nothing} \cup [valid : {TRUE}, pc : PC,
                                       instr : Instrs]
         /\ ex' \in {Nothing} \cup [valid : {TRUE}, state : ExStates, pc : PC,
                                    instr : Instrs, priv : Priv]
         /\ wb' \in {Nothing} \cup [valid : {TRUE}, pc : PC, instr : Instrs,
                                    exc : BOOLEAN, irq : BOOLEAN,
                                    target : PC, next : PC]
         /\ due' \in PC
<1>1. TypeOK
  BY DEF IInv
<1>2. ToWb(c) => Target \in PC /\ PcNext(c) \in PC
  BY Leaving, Targets
<1>3. fetch_pc' \in PC
  BY <1>1, <1>2, Leaving, RegisterFields, BackEndAssumption
     DEF TypeOK, Cycle, FetchPcNext
<1>4. refill' \in BOOLEAN
  BY DEF Cycle, Flush, Redirect, StepStop
<1>5. if_id' \in {Nothing} \cup [valid : {TRUE}, pc : PC, instr : Instrs]
  BY <1>1, InputFields DEF TypeOK, Cycle, IfIdNext
<1>6. ex' \in {Nothing} \cup [valid : {TRUE}, state : ExStates, pc : PC,
                             instr : Instrs, priv : Priv]
  <2>1. CASE IdToEx(c)
    <3>1. /\ if_id.pc \in PC /\ if_id.instr \in Instrs /\ csr.priv \in Priv
      BY <1>1, <2>1, Leaving, RegisterFields DEF TypeOK
    <3>2. QED BY <2>1, <3>1 DEF Cycle, ExNext, ExStates
  <2>2. CASE ~IdToEx(c) /\ (LeavesEx(c) \/ ~ex.valid)
    BY <2>2 DEF Cycle, ExNext
  <2>3. CASE ~IdToEx(c) /\ ~(LeavesEx(c) \/ ~ex.valid)
    <3>1. ex \in [valid : {TRUE}, state : ExStates, pc : PC, instr : Instrs,
                  priv : Priv]
      <4>1. ex.valid /\ ~Nothing.valid
        BY <2>3 DEF Nothing
      <4>2. ex # Nothing
        BY <4>1
      <4>3. QED BY <1>1, <4>2 DEF TypeOK
    <3>2. ExStateNext(c) \in ExStates
      BY <3>1 DEF ExStateNext, ExStates
    <3>3. ex' = [ex EXCEPT !.state = ExStateNext(c)]
      BY <2>3 DEF Cycle, ExNext
    <3>4. QED BY <3>1, <3>2, <3>3
  <2>4. QED BY <2>1, <2>2, <2>3
<1>7. wb' \in {Nothing} \cup [valid : {TRUE}, pc : PC, instr : Instrs,
                             exc : BOOLEAN, irq : BOOLEAN, target : PC,
                             next : PC]
  <2>1. CASE ToWb(c) /\ ~StepStop
    <3>1. ex.pc \in PC /\ ex.instr \in Instrs
      BY <1>1, <2>1, Leaving, RegisterFields
    <3>2. ExFaults(c) \in BOOLEAN /\ TakesIrq(c) \in BOOLEAN
      BY DEF ExFaults, TakesIrq, IsEx, PrivIllegal
    <3>3. QED BY <1>2, <2>1, <3>1, <3>2 DEF Cycle, WbNext
  <2>2. CASE ~(ToWb(c) /\ ~StepStop)
    BY <2>2 DEF Cycle, WbNext
  <2>3. QED BY <2>1, <2>2
<1>8. due' \in PC
  BY <1>1, <1>2 DEF TypeOK, Cycle
<1>9. QED BY <1>3, <1>4, <1>5, <1>6, <1>7, <1>8

LEMMA StateTypeStep ==
  ASSUME IInv, NEW c \in Inputs, Cycle(c)
  PROVE  /\ csr' \in [mie : BOOLEAN, mpie : BOOLEAN, mpp : Priv, priv : Priv,
                      mepc : PC]
         /\ reservation' \in {{}} \cup {{a} : a \in Addr}
         /\ halted' \in BOOLEAN /\ step_active' \in BOOLEAN
         /\ dbus' \in {Nothing} \cup [valid : {TRUE}, we : BOOLEAN,
                                      addr : Addr, err : BOOLEAN]
<1>1. TypeOK
  BY DEF IInv
<1>2. csr' \in [mie : BOOLEAN, mpie : BOOLEAN, mpp : Priv, priv : Priv,
               mepc : PC]
  <2>1. csr \in [mie : BOOLEAN, mpie : BOOLEAN, mpp : Priv, priv : Priv,
                 mepc : PC]
    BY <1>1 DEF TypeOK
  <2>2. CASE TrapEnter
    <3>1. wb.pc \in PC /\ wb.target \in PC
      BY <1>1, <2>2, RegisterFields
         DEF TrapEnter, SyncTrap, IrqTrap, Faulted, IsWb
    <3>2. csr.mie \in BOOLEAN /\ csr.priv \in Priv /\ "M" \in Priv
      BY <2>1 DEF Priv
    <3>3. csr' = [mie |-> FALSE, mpie |-> csr.mie, mpp |-> csr.priv,
                  priv |-> "M", mepc |-> IF SyncTrap THEN wb.pc ELSE wb.target]
      BY <2>2 DEF Cycle, CsrNext
    <3>4. QED BY <3>1, <3>2, <3>3
  <2>3. CASE ~TrapEnter
    <3>1. wb.valid => wb.instr \in Instrs
      BY <1>1, RegisterFields
    <3>2. /\ WritesCsr("mie") => wb.instr.mie \in BOOLEAN
          /\ WritesCsr("mpp") => wb.instr.mpp \in Priv
          /\ WritesCsr("mepc") => wb.instr.mepc \in PC
      BY <3>1, InstrFields DEF WritesCsr, IsWb
    <3>3. QED BY <2>1, <2>3, <3>2 DEF Cycle, CsrNext, Priv
  <2>4. QED BY <2>2, <2>3
<1>3. reservation' \in {{}} \cup {{a} : a \in Addr}
  <2>1. IsEx("lr") => ex.instr.addr \in Addr
    BY <1>1, RegisterFields, InstrFields DEF IsEx, MemOps
  <2>2. QED BY <1>1, <2>1 DEF TypeOK, Cycle, ReservationNext
<1>4. halted' \in BOOLEAN /\ step_active' \in BOOLEAN
  BY <1>1 DEF TypeOK, Cycle, HaltedNext, StepActiveNext, StepStop, Step
<1>5. dbus' \in {Nothing} \cup [valid : {TRUE}, we : BOOLEAN, addr : Addr,
                               err : BOOLEAN]
  <2>1. CASE ReqFire(c)
    <3>1. ex.instr.addr \in Addr /\ ReqWe \in BOOLEAN
      BY <2>1, Requester DEF ReqFire, ReqWe, IsEx, InState
    <3>2. QED BY <2>1, <3>1 DEF Cycle, DbusNext
  <2>2. CASE ~ReqFire(c)
    BY <1>1, <2>2 DEF TypeOK, Cycle, DbusNext
  <2>3. QED BY <2>1, <2>2
<1>6. QED BY <1>2, <1>3, <1>4, <1>5

(* An instruction that stays in EX keeps its reservation.                  *)
LEMMA Staying ==
  ASSUME IInv, NEW c \in Inputs, Cycle(c), ex.valid, ~LeavesEx(c)
  PROVE  /\ ~ToWb(c) /\ ~IdToEx(c)
         /\ ex'.valid /\ ex'.instr = ex.instr /\ ex'.priv = ex.priv
         /\ ex'.pc = ex.pc /\ ex'.state = ExStateNext(c)
         /\ ex.state \in ExStates
         /\ accesses' = IF ReqFire(c) THEN Append(accesses, Access)
                                      ELSE accesses
         /\ reservation' = reservation
<1>1. ~ToWb(c) /\ ~IdToEx(c) /\ ~Redirect(c)
  BY Leaving
<1>2. ex' = [ex EXCEPT !.state = ExStateNext(c)]
  BY <1>1 DEF Cycle, ExNext
<1>3. ex \in [valid : {TRUE}, state : ExStates, pc : PC, instr : Instrs,
              priv : Priv]
  <2>1. ex # Nothing
    BY DEF Nothing
  <2>2. QED BY <2>1 DEF IInv, TypeOK
<1>4. reservation' = reservation
  BY <1>1 DEF Cycle, ReservationNext, ToWb, MemToWb, IsEx
<1>5. accesses' = IF ReqFire(c) THEN Append(accesses, Access) ELSE accesses
  BY DEF Cycle
<1>6. QED BY <1>1, <1>2, <1>3, <1>4, <1>5

(* The instruction that has just reached WB.                               *)
LEMMA Retiring ==
  ASSUME IInv, NEW c \in Inputs, Cycle(c)
  PROVE  /\ wb'.valid <=> ToWb(c) /\ ~StepStop
         /\ wb'.valid => /\ wb'.instr = ex.instr
                         /\ wb'.exc <=> ExFaults(c)
                         /\ wb'.irq <=> TakesIrq(c)
                         /\ wb'.target = Target
                         /\ wb'.next = PcNext(c)
                         /\ ex.valid
<1>1. CASE ToWb(c) /\ ~StepStop
  BY <1>1, Leaving DEF Cycle, WbNext
<1>2. CASE ~(ToWb(c) /\ ~StepStop)
  BY <1>2 DEF Cycle, WbNext, Nothing
<1>3. QED BY <1>1, <1>2

LEMMA LoadThenStore == Append(<<"r">>, "w") = <<"r", "w">>
<1> DEFINE s == Append(<<"r">>, "w")
           t == <<"r", "w">>
<1>1. s \in Seq({"r", "w"}) /\ t \in Seq({"r", "w"})
  OBVIOUS
<1>2. Len(s) = 2 /\ Len(t) = 2
  OBVIOUS
<1>3. s[1] = t[1] /\ s[2] = t[2]
  BY <1>1, <1>2
<1>4. \A i \in 1 .. Len(s) : s[i] = t[i]
  BY <1>2, <1>3
<1> HIDE DEF s, t
<1>5. s = t
  BY <1>1, <1>2, <1>4, SeqEqual
<1>6. QED BY <1>5 DEF s, t

LEMMA AccessesStep ==
  ASSUME IInv, NEW c \in Inputs, Cycle(c)
  PROVE  AccessesMade'
<1>1. CASE LeavesEx(c) \/ ~ex.valid
  <2>1. accesses' = <<>>
    BY <1>1 DEF Cycle
  <2>2. CASE IdToEx(c)
    <3>1. ex'.valid /\ ex'.state = "EX_EXEC"
      BY <2>2 DEF Cycle, ExNext
    <3>2. QED BY <2>1, <3>1 DEF AccessesMade, InState, IsEx
  <2>3. CASE ~IdToEx(c)
    <3>1. ~ex'.valid
      BY <1>1, <2>3 DEF Cycle, ExNext, Nothing
    <3>2. QED BY <2>1, <3>1 DEF AccessesMade, InState, IsEx
  <2>4. QED BY <2>2, <2>3
<1>2. CASE ex.valid /\ ~LeavesEx(c)
  <2>1. /\ ~ToWb(c) /\ ex'.valid /\ ex'.instr = ex.instr
        /\ ex'.state = ExStateNext(c)
        /\ accesses' = IF ReqFire(c) THEN Append(accesses, Access)
                                     ELSE accesses
        /\ reservation' = reservation
    BY <1>2, Staying
  <2>2. AccessesMade
    BY DEF IInv
  <2>3. CASE ex.state \in {"EX_EXEC", "EX_MEM_REQ"}
    <3>1. /\ ex.instr.op \in MemOps /\ accesses = <<>>
          /\ ex.state = "EX_EXEC" => MemAccess
          /\ ex.instr.op = "sc" => ex.instr.addr \in reservation
      BY <1>2, <2>1, <2>2, <2>3 DEF ToWb, ExecToWb, MemAccess, ScSucceeds,
         AccessesMade, InState, IsEx
    <3>2. Access = IF ex.instr.op \in {"store", "sc"} THEN "w" ELSE "r"
      BY <1>2, <2>3 DEF Access, ReqWe, InState, IsEx
    <3>3. CASE ReqFire(c)
      <4>1. ex'.state = "EX_MEM_WAIT" /\ accesses' = <<Access>>
        BY <1>2, <2>1, <2>3, <3>1, <3>3 DEF ExStateNext, InState
      <4>2. QED BY <2>1, <3>1, <3>2, <4>1 DEF AccessesMade, InState, IsEx
    <3>4. CASE ~ReqFire(c)
      <4>1. ex'.state = "EX_MEM_REQ" /\ accesses' = <<>>
        BY <1>2, <2>1, <2>3, <3>1, <3>4 DEF ExStateNext, InState, MemAccess
      <4>2. QED BY <2>1, <3>1, <4>1 DEF AccessesMade, InState, IsEx
    <3>5. QED BY <3>3, <3>4
  <2>4. CASE ex.state = "EX_MEM_WAIT"
    <3>1. ~ReqFire(c) /\ ~MemAccess
      BY <2>4 DEF ReqFire, MemRequesting, MemAccess, InState
    <3>2. CASE RspFire(c)
      <4>1. IsEx("amo") /\ accesses' = <<"r">>
        BY <1>2, <2>1, <2>2, <2>4, <3>1, <3>2
           DEF ToWb, MemToWb, AccessesMade, InState, IsEx
      <4>2. ex'.state = "EX_AMO_STORE_REQ"
        BY <1>2, <2>1, <2>4, <3>1, <3>2 DEF ExStateNext, InState
      <4>3. QED BY <2>1, <4>1, <4>2 DEF AccessesMade, InState, IsEx
    <3>3. CASE ~RspFire(c)
      <4>1. ex'.state = ex.state /\ accesses' = accesses
        BY <1>2, <2>1, <2>4, <3>1, <3>3 DEF ExStateNext, InState
      <4>2. QED BY <1>2, <2>1, <2>2, <2>4, <4>1 DEF AccessesMade, InState, IsEx
    <3>4. QED BY <3>2, <3>3
  <2>5. CASE ex.state = "EX_AMO_STORE_REQ"
    <3>1. /\ ~MemAccess /\ IsEx("amo") /\ accesses = <<"r">> /\ Access = "w"
      BY <1>2, <2>2, <2>5 DEF MemAccess, AccessesMade, InState, Access, ReqWe
    <3>2. CASE ReqFire(c)
      <4>1. ex'.state = "EX_AMO_STORE_WAIT"
        BY <1>2, <2>1, <2>5, <3>1, <3>2 DEF ExStateNext, InState
      <4>2. accesses' = <<"r", "w">>
        BY <2>1, <3>1, <3>2, LoadThenStore
      <4>3. QED BY <2>1, <3>1, <4>1, <4>2 DEF AccessesMade, InState, IsEx
    <3>3. CASE ~ReqFire(c)
      <4>1. ex'.state = ex.state /\ accesses' = accesses
        BY <1>2, <2>1, <2>5, <3>1, <3>3 DEF ExStateNext, InState
      <4>2. QED BY <2>1, <2>5, <3>1, <4>1 DEF AccessesMade, InState, IsEx
    <3>4. QED BY <3>2, <3>3
  <2>6. CASE ex.state = "EX_AMO_STORE_WAIT"
    <3>1. ~ReqFire(c) /\ ~MemAccess /\ ~RspFire(c)
      BY <1>2, <2>1, <2>6 DEF ReqFire, MemRequesting, MemAccess, InState, ToWb,
         AmoToWb
    <3>2. ex'.state = ex.state /\ accesses' = accesses
      BY <1>2, <2>1, <2>6, <3>1 DEF ExStateNext, InState
    <3>3. QED BY <1>2, <2>1, <2>2, <2>6, <3>2 DEF AccessesMade, InState, IsEx
  <2>7. QED BY <1>2, <2>3, <2>4, <2>5, <2>6, Staying DEF ExStates
<1>3. QED BY <1>1, <1>2

LEMMA TypeStep ==
  ASSUME IInv, NEW c \in Inputs, Cycle(c)
  PROVE  TypeOK'
<1>1. /\ ex'.valid \in BOOLEAN /\ (ex'.valid => ex'.state \in ExStates)
  <2>1. CASE IdToEx(c)
    BY <2>1 DEF Cycle, ExNext, ExStates
  <2>2. CASE ~IdToEx(c) /\ (LeavesEx(c) \/ ~ex.valid)
    BY <2>2 DEF Cycle, ExNext, Nothing
  <2>3. CASE ex.valid /\ ~LeavesEx(c)
    BY <2>3, Staying DEF ExStateNext, ExStates
  <2>4. QED BY <2>1, <2>2, <2>3
<1>2. accesses' \in {<<>>, <<"r">>, <<"w">>, <<"r", "w">>}
  BY <1>1, AccessesStep DEF AccessesMade, InState, ExStates
<1>3. QED BY <1>2, RegisterTypeStep, StateTypeStep DEF TypeOK

(* An instruction that will change the privilege redirects fetch when it   *)
(* leaves EX.                                                              *)
LEMMA TrapRedirects ==
  ASSUME IInv, NEW c \in Inputs, Cycle(c), TrapEnter' \/ IsWb("mret")'
  PROVE  Redirect(c)
<1>1. wb'.valid
  BY DEF TrapEnter, SyncTrap, IrqTrap, Faulted, IsWb
<1>2. QED
  BY <1>1, Retiring DEF Redirect, TrapEnter, SyncTrap, IrqTrap, Faulted, IsWb,
     IsEx

LEMMA TrapStep ==
  ASSUME IInv, NEW c \in Inputs, Cycle(c)
  PROVE  AloneInWb' /\ ReservationDropped' /\ TrapPrecise'
<1>1. AloneInWb'
  <2>1. TrapEnter' \/ IsWb("mret")' => Flush(c)
    BY TrapRedirects DEF Flush
  <2>2. QED BY <2>1, Leaving DEF AloneInWb, Nothing
<1>2. ReservationDropped'
  BY TrapRedirects DEF ReservationDropped, Cycle, ReservationNext
<1>3. TrapPrecise'
  <2>1. TrapEnter' => refill' /\ ~if_id'.valid /\ ~ex'.valid
    BY <1>1 DEF AloneInWb
  <2>2. TrapEnter' => fetch_pc' = wb'.next
    BY TrapRedirects, Retiring DEF TrapEnter, SyncTrap, IrqTrap, Faulted, IsWb,
       Cycle, FetchPcNext, Redirect
  <2>3. /\ Faulted' => wb'.next = Base
        /\ IsWb("ecall")' /\ ~wb'.irq => wb'.next = Base
    BY Retiring DEF Faulted, IsWb, IsEx, PcNext
  <2>4. IrqTrap' => wb'.next = IrqVec
    BY Retiring DEF IrqTrap, SyncTrap, Faulted, IsWb, IsEx, PcNext
  <2>5. wb'.valid /\ ~TrapEnter' /\ ~IsWb("mret")' => wb'.next = wb'.target
    BY Retiring DEF TrapEnter, IrqTrap, SyncTrap, Faulted, IsWb, IsEx, PcNext
  <2>6. QED BY <2>1, <2>2, <2>3, <2>4, <2>5 DEF TrapPrecise, TrapEnter, SyncTrap
<1>4. QED BY <1>1, <1>2, <1>3

(* The privilege changes only with the instruction that stands alone.      *)
LEMMA PrivKept ==
  ASSUME IInv, NEW c \in Inputs, Cycle(c), csr'.priv # csr.priv
  PROVE  refill /\ ~if_id.valid /\ ~ex.valid
<1>1. csr \in [mie : BOOLEAN, mpie : BOOLEAN, mpp : Priv, priv : Priv,
              mepc : PC]
  BY DEF IInv, TypeOK
<1>2. TrapEnter \/ IsWb("mret")
  BY <1>1 DEF Cycle, CsrNext
<1>3. QED BY <1>2 DEF IInv, AloneInWb

LEMMA PrivStep ==
  ASSUME IInv, NEW c \in Inputs, Cycle(c)
  PROVE  PrivOfPath'
<1>1. CASE csr'.priv # csr.priv
  <2>1. ~IdToEx(c) /\ ~ex.valid
    BY <1>1, PrivKept, Leaving
  <2>2. QED BY <2>1 DEF Cycle, ExNext, Nothing, PrivOfPath
<1>2. CASE csr'.priv = csr.priv
  <2>1. CASE IdToEx(c)
    BY <1>2, <2>1 DEF Cycle, ExNext, PrivOfPath
  <2>2. CASE ~IdToEx(c) /\ (LeavesEx(c) \/ ~ex.valid)
    BY <2>2 DEF Cycle, ExNext, Nothing, PrivOfPath
  <2>3. CASE ex.valid /\ ~LeavesEx(c)
    BY <1>2, <2>3, Staying DEF IInv, PrivOfPath
  <2>4. QED BY <2>1, <2>2, <2>3
<1>3. QED BY <1>1, <1>2

LEMMA InitIInv == Init => IInv
<1> SUFFICES ASSUME Init PROVE IInv
  OBVIOUS
<1>1. ~if_id.valid /\ ~ex.valid /\ ~wb.valid
  BY DEF Init, Nothing
<1>2. TypeOK
  BY BackEndAssumption DEF Init, TypeOK, Priv
<1>3. AccessesMade
  BY <1>1 DEF Init, AccessesMade, InState, IsEx
<1>4. AloneInWb /\ TrapPrecise /\ ReservationDropped
  BY <1>1 DEF AloneInWb, TrapPrecise, ReservationDropped, TrapEnter, SyncTrap,
     IrqTrap, Faulted, IsWb
<1>5. PrivOfPath
  BY <1>1 DEF PrivOfPath
<1>6. QED BY <1>2, <1>3, <1>4, <1>5 DEF IInv

LEMMA IInvStep == IInv /\ [Next]_vars => IInv'
<1> SUFFICES ASSUME IInv, [Next]_vars PROVE IInv'
  OBVIOUS
<1>1. CASE Next
  <2>1. PICK c \in Inputs : Cycle(c)
    BY <1>1 DEF Next
  <2>2. QED BY <2>1, TypeStep, AccessesStep, TrapStep, PrivStep DEF IInv
<1>2. CASE UNCHANGED vars
  <2>1. TypeOK'
    <3>1. TypeOK
      BY DEF IInv
    <3>2. /\ fetch_pc' = fetch_pc /\ refill' = refill /\ if_id' = if_id
          /\ ex' = ex /\ wb' = wb /\ csr' = csr /\ halted' = halted
          /\ reservation' = reservation /\ step_active' = step_active
          /\ dbus' = dbus /\ due' = due /\ accesses' = accesses
      BY <1>2 DEF vars
    <3>3. /\ fetch_pc' \in PC /\ refill' \in BOOLEAN /\ due' \in PC
          /\ halted' \in BOOLEAN /\ step_active' \in BOOLEAN
          /\ csr' \in [mie : BOOLEAN, mpie : BOOLEAN, mpp : Priv, priv : Priv,
                       mepc : PC]
          /\ accesses' \in {<<>>, <<"r">>, <<"w">>, <<"r", "w">>}
          /\ reservation' \in {{}} \cup {{a} : a \in Addr}
      BY <3>1, <3>2 DEF TypeOK
    <3>4. if_id' \in {Nothing} \cup [valid : {TRUE}, pc : PC, instr : Instrs]
      BY <3>1, <3>2 DEF TypeOK
    <3>5. ex' \in {Nothing} \cup [valid : {TRUE}, state : ExStates, pc : PC,
                                  instr : Instrs, priv : Priv]
      BY <3>1, <3>2 DEF TypeOK
    <3>6. wb' \in {Nothing} \cup [valid : {TRUE}, pc : PC, instr : Instrs,
                                  exc : BOOLEAN, irq : BOOLEAN, target : PC,
                                  next : PC]
      BY <3>1, <3>2 DEF TypeOK
    <3>7. dbus' \in {Nothing} \cup [valid : {TRUE}, we : BOOLEAN, addr : Addr,
                                    err : BOOLEAN]
      BY <3>1, <3>2 DEF TypeOK
    <3>8. QED BY <3>3, <3>4, <3>5, <3>6, <3>7 DEF TypeOK
  <2>2. AccessesMade'
    BY <1>2 DEF vars, IInv, AccessesMade, InState, IsEx
  <2>3. AloneInWb' /\ ReservationDropped' /\ TrapPrecise'
    BY <1>2 DEF vars, IInv, AloneInWb, ReservationDropped, TrapPrecise,
       TrapEnter, SyncTrap, IrqTrap, Faulted, IsWb
  <2>4. PrivOfPath'
    BY <1>2 DEF vars, IInv, PrivOfPath
  <2>5. QED BY <2>1, <2>2, <2>3, <2>4 DEF IInv
<1>3. QED BY <1>1, <1>2

-----------------------------------------------------------------------------

THEOREM Inductive == Spec => []IInv
BY InitIInv, IInvStep, PTL DEF Spec

(* The registers of the pipeline, the trap state and the data bus stay in  *)
(* their types.                                                            *)
THEOREM TypeCorrect == Spec => []TypeOK
<1>1. IInv => TypeOK
  BY DEF IInv
<1>2. QED BY <1>1, Inductive, PTL

(* Traps are precise: whatever followed the trapping instruction is gone   *)
(* and fetch stands at the handler.                                        *)
THEOREM PreciseTraps == Spec => []TrapPrecise
<1>1. IInv => TrapPrecise
  BY DEF IInv
<1>2. QED BY <1>1, Inductive, PTL

(* EX checks an instruction with the privilege in force.                   *)
THEOREM Privilege == Spec => []PrivOfPath
<1>1. IInv => PrivOfPath
  BY DEF IInv
<1>2. QED BY <1>1, Inductive, PTL

(* No trap is entered with a reservation standing.                         *)
THEOREM TrapsDropReservation == Spec => []ReservationDropped
<1>1. IInv => ReservationDropped
  BY DEF IInv
<1>2. QED BY <1>1, Inductive, PTL

(* The privilege changes only with the pipeline empty behind a flush.      *)
THEOREM PrivilegeFlush == Spec => PrivChangesBehindFlush
<1>1. IInv /\ [Next]_vars
        => [csr'.priv # csr.priv
              => refill /\ ~if_id.valid /\ ~ex.valid]_vars
  BY PrivKept DEF Next
<1>2. QED BY <1>1, Inductive, PTL DEF Spec, PrivChangesBehindFlush

(* What reaches WB has made the accesses of its operation, each once.      *)
THEOREM OneAccess == Spec => AccessedOnce
<1>1. ASSUME IInv, Next
      PROVE  wb'.valid => accesses = AccessesOf(ex.instr.op, ScSucceeds)
  <2>1. PICK c \in Inputs : Cycle(c)
    BY <1>1 DEF Next
  <2>2. SUFFICES ASSUME ToWb(c), ex.valid
                 PROVE  accesses = AccessesOf(ex.instr.op, ScSucceeds)
    BY <1>1, <2>1, Retiring
  <2>3. AccessesMade
    BY <1>1 DEF IInv
  <2>4. CASE ExecToWb
    BY <2>3, <2>4 DEF ExecToWb, MemAccess, AccessesMade, InState, AccessesOf,
       MemOps
  <2>5. CASE MemToWb(c)
    BY <2>3, <2>5 DEF MemToWb, AccessesMade, InState, IsEx, ScSucceeds,
       AccessesOf, MemOps
  <2>6. CASE AmoToWb(c)
    BY <2>3, <2>6 DEF AmoToWb, AccessesMade, InState, IsEx, AccessesOf
  <2>7. QED BY <2>2, <2>4, <2>5, <2>6 DEF ToWb
<1>2. IInv /\ [Next]_vars
        => [wb'.valid => accesses = AccessesOf(ex.instr.op, ScSucceeds)]_vars
  BY <1>1
<1>3. QED BY <1>2, Inductive, PTL DEF Spec, AccessedOnce

-----------------------------------------------------------------------------
(* The one path of execution.  It needs a bus that answers the load half   *)
(* of an AMO: refused there, the instruction leaves EX without a redirect. *)

AmoLoadsAnswered == <<"amo", "r">> \notin Refusable

NextIsDue == wb.valid => wb.next = due

AmoLoadErr == InState("EX_MEM_WAIT") /\ IsEx("amo") /\ dbus.err
                => <<"amo", "r">> \in Refusable

PathInv == IInv /\ NextIsDue /\ AmoLoadErr /\ InOrder

LEMMA AmoLoadErrStep ==
  ASSUME IInv, AmoLoadErr, NEW c \in Inputs, Cycle(c)
  PROVE  AmoLoadErr'
<1> SUFFICES ASSUME ex'.valid, ex'.state = "EX_MEM_WAIT", ex'.instr.op = "amo",
                    dbus'.err
             PROVE  <<"amo", "r">> \in Refusable
  BY DEF AmoLoadErr, InState, IsEx
<1>1. ~IdToEx(c) /\ ex.valid /\ ~LeavesEx(c)
  BY DEF Cycle, ExNext, Nothing
<1>2. /\ ex.instr.op = "amo" /\ ExStateNext(c) = "EX_MEM_WAIT"
  BY <1>1, Staying
<1>3. CASE ReqFire(c)
  <2>1. dbus'.err <=> c.bus = "refuse"
    BY <1>3 DEF Cycle, DbusNext
  <2>2. Access = "r"
    BY <1>2, <1>3 DEF Access, ReqWe, IsEx, InState, ExStateNext, MemAccess
  <2>3. QED BY <1>2, <2>1, <2>2, InputFields
<1>4. CASE ~ReqFire(c)
  <2>1. InState("EX_MEM_WAIT") /\ ~RspFire(c)
    BY <1>1, <1>2, <1>4 DEF ExStateNext, InState, MemAccess
  <2>2. dbus' = dbus
    BY <1>4, <2>1 DEF Cycle, DbusNext
  <2>3. QED BY <1>1, <1>2, <2>1, <2>2 DEF AmoLoadErr, IsEx
<1>5. QED BY <1>3, <1>4

(* An instruction that goes to WB without redirecting fetch is followed by *)
(* the next sequential one.                                                *)
LEMMA FallsThrough ==
  ASSUME NEW c, ToWb(c), ~Flush(c), ex.valid
  PROVE  PcNext(c) = Seq4[ex.pc]
BY DEF Flush, Redirect, PcNext, Target, IsEx

LEMMA InOrderStep ==
  ASSUME AmoLoadsAnswered, PathInv, NEW c \in Inputs, Cycle(c)
  PROVE  InOrder'
<1> DEFINE afterEx == IF ex.valid THEN Seq4[ex.pc] ELSE due
           afterId == IF if_id.valid THEN Seq4[if_id.pc] ELSE afterEx
<1>1. /\ ex.valid => ex.pc = due
      /\ if_id.valid => if_id.pc = afterEx
      /\ fetch_pc = afterId
  BY DEF PathInv, InOrder
<1>2. IInv /\ NextIsDue
  BY DEF PathInv
<1>3. CASE Flush(c)
  <2>1. ~if_id'.valid /\ ~ex'.valid
    BY <1>2, <1>3, Leaving DEF Nothing
  <2>2. fetch_pc' = due'
    <3>1. CASE StepStop
      BY <1>2, <3>1, Leaving DEF Cycle, FetchPcNext, NextIsDue
    <3>2. CASE ~StepStop
      BY <1>2, <1>3, <3>2, Leaving DEF Flush, Cycle, FetchPcNext
    <3>3. QED BY <3>1, <3>2
  <2>3. QED BY <2>1, <2>2 DEF InOrder
<1>4. CASE ~Flush(c)
  <2>1. ~Redirect(c) /\ ~StepStop
    BY <1>4 DEF Flush
  <2>2. ~ex.valid \/ LeavesEx(c) => (~ex.valid \/ ToWb(c)) /\ due' = afterEx
    <3>1. CASE ToWb(c)
      <4>1. ex.valid /\ due' = PcNext(c)
        BY <1>2, <2>1, <3>1, Leaving DEF Cycle
      <4>2. QED BY <1>4, <3>1, <4>1, FallsThrough
    <3>2. CASE ~ToWb(c)
      <4>1. due' = due
        BY <3>2 DEF Cycle
      <4>2. ex.valid => ~LeavesEx(c)
        BY <2>1, <3>2 DEF LeavesEx, PathInv, AmoLoadErr, AmoLoadsAnswered
      <4>3. QED BY <4>1, <4>2
    <3>3. QED BY <3>1, <3>2
  <2>3. /\ if_id' = IF c.arrive # Nothing
                     THEN [valid |-> TRUE, pc |-> fetch_pc,
                           instr |-> c.arrive]
                   ELSE IF IdToEx(c) THEN Nothing ELSE if_id
        /\ fetch_pc' = IF c.arrive # Nothing THEN Seq4[fetch_pc] ELSE fetch_pc
        /\ c.arrive # Nothing => (if_id.valid => IdToEx(c))
    BY <1>4, <2>1 DEF Cycle, Possible, IfIdNext, FetchPcNext
  <2>4. CASE IdToEx(c)
    <3>1. if_id.valid /\ (ex.valid => ToWb(c))
      BY <1>2, <2>4, Leaving
    <3>2. ex'.valid /\ ex'.pc = if_id.pc
      BY <2>4 DEF Cycle, ExNext
    <3>3. due' = afterEx
      BY <1>2, <2>2, <3>1, Leaving
    <3>4. if_id'.valid <=> c.arrive # Nothing
      BY <2>3, <2>4 DEF Nothing
    <3>5. QED BY <1>1, <2>3, <2>4, <3>1, <3>2, <3>3, <3>4 DEF InOrder
  <2>5. CASE ~IdToEx(c) /\ (LeavesEx(c) \/ ~ex.valid)
    <3>1. ~ex'.valid /\ due' = afterEx
      BY <2>2, <2>5 DEF Cycle, ExNext, Nothing
    <3>2. QED BY <1>1, <2>3, <2>5, <3>1 DEF InOrder
  <2>6. CASE ex.valid /\ ~LeavesEx(c)
    <3>1. ~IdToEx(c) /\ ~ToWb(c) /\ ex'.valid /\ ex'.pc = ex.pc
      BY <1>2, <2>6, Staying
    <3>2. due' = due
      BY <3>1 DEF Cycle
    <3>3. QED BY <1>1, <2>3, <2>6, <3>1, <3>2 DEF InOrder
  <2>7. QED BY <2>4, <2>5, <2>6
<1>5. QED BY <1>3, <1>4

(* If the bus refuses no load half of an AMO, the pipeline holds           *)
(* consecutive instructions of the path execution takes.                   *)
THEOREM Path == ASSUME AmoLoadsAnswered PROVE Spec => []InOrder
<1>1. Init => PathInv
  <2> SUFFICES ASSUME Init PROVE PathInv
    OBVIOUS
  <2>1. ~if_id.valid /\ ~ex.valid /\ ~wb.valid /\ fetch_pc = due
    BY DEF Init, Nothing
  <2>2. QED BY <2>1, InitIInv
        DEF PathInv, NextIsDue, AmoLoadErr, InOrder, InState, IsEx
<1>2. PathInv /\ [Next]_vars => PathInv'
  <2> SUFFICES ASSUME PathInv, [Next]_vars PROVE PathInv'
    OBVIOUS
  <2>1. IInv'
    BY IInvStep DEF PathInv
  <2>2. CASE Next
    <3>1. PICK c \in Inputs : Cycle(c)
      BY <2>2 DEF Next
    <3>2. NextIsDue'
      <4>1. wb'.valid => wb'.next = PcNext(c) /\ ToWb(c) /\ ~StepStop
        BY <3>1, Retiring DEF PathInv
      <4>2. QED BY <3>1, <4>1 DEF Cycle, NextIsDue
    <3>3. AmoLoadErr'
      BY <3>1, AmoLoadErrStep DEF PathInv
    <3>4. InOrder'
      BY <3>1, InOrderStep
    <3>5. QED BY <2>1, <3>2, <3>3, <3>4 DEF PathInv
  <2>3. CASE UNCHANGED vars
    BY <2>1, <2>3 DEF vars, PathInv, NextIsDue, AmoLoadErr, InOrder, InState,
       IsEx
  <2>4. QED BY <2>2, <2>3
<1>3. PathInv => InOrder
  BY DEF PathInv
<1>4. QED BY <1>1, <1>2, <1>3, PTL DEF Spec

-----------------------------------------------------------------------------
(* The data bus.  A stepped program must not access memory: a step that    *)
(* ends while an access is out empties EX and leaves the access behind.    *)

StepsCompute == "step" \in Debugger => \A i \in Instrs : i.op \notin MemOps

StepsByDebugger == step_active => "step" \in Debugger

BusInv == IInv /\ StepsByDebugger /\ DBusOwned

(* The end of a step finds no memory instruction in EX.                    *)
LEMMA StopsIdleBus ==
  ASSUME StepsCompute, IInv, StepsByDebugger, StepStop
  PROVE  /\ ~MemRequesting
         /\ ~InState("EX_MEM_WAIT") /\ ~InState("EX_AMO_STORE_WAIT")
<1>1. \A i \in Instrs : i.op \notin MemOps
  BY DEF StepsCompute, StepsByDebugger, StepStop
<1>2. ~MemRequesting
  BY <1>1, Requester
<1>3. InState("EX_MEM_WAIT") \/ InState("EX_AMO_STORE_WAIT")
        => ex.instr \in Instrs /\ ex.instr.op \in MemOps
  BY RegisterFields DEF IInv, AccessesMade, InState, IsEx, MemOps
<1>4. QED BY <1>1, <1>2, <1>3

LEMMA StepsByDebuggerStep ==
  ASSUME StepsByDebugger, NEW c \in Inputs, Cycle(c)
  PROVE  StepsByDebugger'
BY InputFields DEF StepsByDebugger, Cycle, StepActiveNext, Step

LEMMA DBusOwnedStep ==
  ASSUME StepsCompute, BusInv, NEW c \in Inputs, Cycle(c)
  PROVE  DBusOwned'
<1> DEFINE Waits == InState("EX_MEM_WAIT") \/ InState("EX_AMO_STORE_WAIT")
<1>1. IInv /\ (dbus.valid <=> Waits)
  BY DEF BusInv, DBusOwned
<1>2. StepStop => ~MemRequesting /\ ~Waits
  BY StopsIdleBus DEF BusInv
<1>3. CASE ReqFire(c)
  <2>1. MemRequesting /\ ~Waits
    BY <1>3 DEF ReqFire, MemRequesting, MemAccess, InState
  <2>2. ex.valid /\ ~LeavesEx(c)
    BY <1>2, <2>1 DEF LeavesEx, ToWb, ExecToWb, MemToWb, AmoToWb, MemRequesting,
       MemAccess, InState
  <2>3. ExStateNext(c) \in {"EX_MEM_WAIT", "EX_AMO_STORE_WAIT"}
    BY <1>3, <2>1 DEF ExStateNext, MemRequesting, MemAccess, InState
  <2>4. ex'.valid /\ ex'.state \in {"EX_MEM_WAIT", "EX_AMO_STORE_WAIT"}
    BY <1>1, <2>2, <2>3, Staying
  <2>5. dbus'.valid = TRUE
    BY <1>3 DEF Cycle, DbusNext
  <2>6. QED BY <2>4, <2>5 DEF DBusOwned, InState
<1>4. CASE ~ReqFire(c) /\ RspFire(c)
  <2>1. ~dbus'.valid
    BY <1>4 DEF Cycle, DbusNext, Nothing
  <2>2. CASE LeavesEx(c)
    <3>1. ~ex'.valid \/ ex'.state = "EX_EXEC"
      BY <2>2 DEF Cycle, ExNext, Nothing
    <3>2. QED BY <2>1, <3>1 DEF DBusOwned, InState
  <2>3. CASE ~LeavesEx(c)
    <3>1. InState("EX_MEM_WAIT")
      BY <1>4, <2>3 DEF RspFire, RspReady, LeavesEx, ToWb, AmoToWb
    <3>2. ExStateNext(c) = "EX_AMO_STORE_REQ"
      BY <1>4, <3>1 DEF ExStateNext, MemAccess, InState
    <3>3. ex'.state = "EX_AMO_STORE_REQ"
      BY <1>1, <2>3, <3>1, <3>2, Staying DEF InState
    <3>4. QED BY <2>1, <3>3 DEF DBusOwned, InState
  <2>4. QED BY <2>2, <2>3
<1>5. CASE ~ReqFire(c) /\ ~RspFire(c)
  <2>1. dbus' = dbus
    BY <1>5 DEF Cycle, DbusNext
  <2>2. CASE ex.valid /\ ~LeavesEx(c)
    <3>1. /\ ex'.valid
          /\ ex'.state \in {"EX_MEM_WAIT", "EX_AMO_STORE_WAIT"} <=> Waits
      BY <1>1, <1>5, <2>2, Staying DEF ExStateNext, InState, MemAccess
    <3>2. QED BY <1>1, <2>1, <3>1 DEF DBusOwned, InState
  <2>3. CASE ~ex.valid \/ LeavesEx(c)
    <3>1. ~Waits
      BY <1>2, <1>5, <2>3 DEF LeavesEx, ToWb, ExecToWb, MemToWb, AmoToWb, InState
    <3>2. ~ex'.valid \/ ex'.state = "EX_EXEC"
      BY <2>3 DEF Cycle, ExNext, Nothing
    <3>3. QED BY <1>1, <2>1, <3>1, <3>2 DEF DBusOwned, InState
  <2>4. QED BY <2>2, <2>3
<1>6. QED BY <1>3, <1>4, <1>5

LEMMA BusInductive == ASSUME StepsCompute PROVE Spec => []BusInv
<1>1. Init => BusInv
  <2> SUFFICES ASSUME Init PROVE BusInv
    OBVIOUS
  <2>1. ~ex.valid /\ ~dbus.valid /\ ~step_active
    BY DEF Init, Nothing
  <2>2. QED BY <2>1, InitIInv DEF BusInv, StepsByDebugger, DBusOwned, InState
<1>2. BusInv /\ [Next]_vars => BusInv'
  <2> SUFFICES ASSUME BusInv, [Next]_vars PROVE BusInv'
    OBVIOUS
  <2>1. IInv'
    BY IInvStep DEF BusInv
  <2>2. CASE Next
    <3>1. PICK c \in Inputs : Cycle(c)
      BY <2>2 DEF Next
    <3>2. QED BY <2>1, <3>1, StepsByDebuggerStep, DBusOwnedStep DEF BusInv
  <2>3. CASE UNCHANGED vars
    BY <2>1, <2>3 DEF vars, BusInv, StepsByDebugger, DBusOwned, InState
  <2>4. QED BY <2>2, <2>3
<1>3. QED BY <1>1, <1>2, PTL DEF Spec

(* If programs that are stepped do not access memory, the access on the    *)
(* data bus is the one EX waits for.                                       *)
THEOREM DataBus == ASSUME StepsCompute PROVE Spec => []DBusOwned
<1>1. BusInv => DBusOwned
  BY DEF BusInv
<1>2. QED BY <1>1, BusInductive, PTL

(* Under the same assumption only a load-reserved that completes reserves. *)
THEOREM Reservation == ASSUME StepsCompute PROVE Spec => ReservedByLr
<1>1. ASSUME BusInv, Next, reservation' # reservation, reservation' # {}
      PROVE  /\ wb'.valid /\ ~wb'.irq /\ wb'.instr.op = "lr"
             /\ reservation' = {wb'.instr.addr}
  <2>1. PICK c \in Inputs : Cycle(c)
    BY <1>1 DEF Next
  <2>2. /\ InState("EX_MEM_WAIT") /\ RspFire(c) /\ IsEx("lr") /\ ~Redirect(c)
        /\ reservation' = {ex.instr.addr}
    BY <1>1, <2>1 DEF Cycle, ReservationNext
  <2>3. ToWb(c) /\ ~StepStop
    BY <1>1, <2>2, StopsIdleBus DEF BusInv, ToWb, MemToWb, IsEx
  <2>4. ~TakesIrq(c)
    BY <2>2, <2>3 DEF Redirect, IsEx
  <2>5. QED BY <1>1, <2>1, <2>2, <2>3, <2>4, Retiring DEF BusInv, IsEx
<1>2. BusInv /\ [Next]_vars
        => [reservation' # reservation /\ reservation' # {} =>
              wb'.valid /\ ~wb'.irq /\ wb'.instr.op = "lr"
                /\ reservation' = {wb'.instr.addr}]_vars
  BY <1>1
<1>3. QED BY <1>2, BusInductive, PTL DEF Spec, ReservedByLr

-----------------------------------------------------------------------------
(* The debug module: a single step is one instruction, whatever the        *)
(* debugger writes.                                                        *)

(* While the step goes on nothing has retired, the step flag is set and    *)
(* the core runs; afterwards it is halted with EX and WB empty, so that    *)
(* nothing is left to retire.                                              *)
StepInv ==
  stepping =>
    \/ retired = 0 /\ step_active /\ ~halted
    \/ retired = 1 /\ halted /\ ~ex.valid /\ ~wb.valid

(* The retirement that ends the step halts the core and empties EX and WB. *)
LEMMA StopEmpties ==
  ASSUME NEW c, Cycle(c), StepStop, ~Halt(c), ~Resume(c)
  PROVE  halted' /\ ~ex'.valid /\ ~wb'.valid
<1>1. ~IdToEx(c) BY DEF IdToEx
<1>2. LeavesEx(c) BY DEF LeavesEx
<1>3. ex' = Nothing BY <1>1, <1>2 DEF Cycle, ExNext
<1>4. wb' = Nothing BY DEF Cycle, WbNext
<1>5. halted' BY DEF Cycle, HaltedNext
<1>6. QED BY <1>3, <1>4, <1>5 DEF Nothing

(* A halted core with EX and WB empty stays so until it is resumed.        *)
LEMMA HaltedStays ==
  ASSUME NEW c, Cycle(c), halted, ~ex.valid, ~wb.valid, ~Resume(c)
  PROVE  halted' /\ ~ex'.valid /\ ~wb'.valid /\ ~InstrRetire
<1>1. ~IdToEx(c) BY DEF IdToEx, Running
<1>2. ex' = Nothing BY <1>1 DEF Cycle, ExNext
<1>3. ~ToWb(c) BY DEF ToWb, ExecToWb, MemToWb, AmoToWb, InState
<1>4. wb' = Nothing BY <1>3 DEF Cycle, WbNext
<1>5. halted' BY DEF Cycle, HaltedNext
<1>6. QED BY <1>2, <1>4, <1>5 DEF Nothing, InstrRetire

(* The registers of the debug module and the history stay in their types.  *)
THEOREM DmTypeCorrect == DmSpec => []DmTypeOK
<1>1. DmInit => DmTypeOK
  <2> SUFFICES ASSUME DmInit PROVE DmTypeOK
    OBVIOUS
  <2>1. control \in Controls /\ pending \in BOOLEAN
    BY DEF DmInit, Controls
  <2>2. abs \in [state : 0 .. 2, write : BOOLEAN]
    BY DEF DmInit
  <2>3. data0 \in {"dmi", "core"} /\ stepping \in BOOLEAN
    BY DEF DmInit
  <2>4. retired \in 0 .. 2
    BY DEF DmInit
  <2>5. QED BY <2>1, <2>2, <2>3, <2>4 DEF DmTypeOK
<1>2. DmTypeOK /\ [DmNext]_allVars => DmTypeOK'
  <2> SUFFICES ASSUME DmTypeOK, [DmNext]_allVars PROVE DmTypeOK'
    OBVIOUS
  <2>1. CASE DmNext
    <3>1. PICK q \in Requests : DmCycle(q) /\ History(q)
      BY <2>1 DEF DmNext
    <3>2. control' \in Controls
      <4>1. q.addr = "DMI_DMCONTROL" => q.wdata \in Controls
        BY DebugAssumption DEF Requests
      <4>2. [control EXCEPT !.haltreq_r = FALSE, !.resumereq_r = FALSE] \in Controls
        BY DEF DmTypeOK, Controls
      <4>3. QED BY <3>1, <4>1, <4>2 DEF DmCycle, ControlNext, DmTypeOK
    <3>3. abs' \in [state : 0 .. 2, write : BOOLEAN]
      BY <3>1 DEF DmCycle, AbsNext, DmTypeOK
    <3>4. data0' \in {"dmi", "core"} /\ pending' \in BOOLEAN
      BY <3>1 DEF DmCycle, Data0Next, DmTypeOK
    <3>5. stepping' \in BOOLEAN /\ retired' \in 0 .. 2
      BY <3>1 DEF History, DmTypeOK
    <3>6. QED BY <3>2, <3>3, <3>4, <3>5 DEF DmTypeOK
  <2>2. CASE UNCHANGED allVars
    BY <2>2 DEF allVars, dmVars, DmTypeOK
  <2>3. QED BY <2>1, <2>2
<1>3. QED BY <1>1, <1>2, PTL DEF DmSpec

(* A request is asserted in the one cycle in which its own DMI write is    *)
(* being answered, and never during a step.                                *)
RequestFresh ==
  /\ control \in Controls
  /\ control.haltreq_r \/ control.resumereq_r => pending /\ ~stepping

DebugInv == StepInv /\ RequestFresh

LEMMA DebugInvInit == DmInit => DebugInv
  BY DEF DmInit, DebugInv, StepInv, RequestFresh, Controls

LEMMA RequestFreshStep ==
  ASSUME RequestFresh, NEW q \in Requests, DmCycle(q), History(q)
  PROVE  RequestFresh'
<1>1. CASE q.addr = "DMI_DMCONTROL"
  <2>1. q.wdata \in Controls BY <1>1, DebugAssumption DEF Requests
  <2>2. control' = q.wdata /\ pending' /\ ~pending
    BY <1>1 DEF DmCycle, ControlNext
  <2>3. CASE q.wdata.haltreq_r \/ q.wdata.resumereq_r
    <3>1. ~control.resumereq_r BY <2>2 DEF RequestFresh
    <3>2. "resume" \notin DebugRequests BY <3>1 DEF DebugRequests
    <3>3. ~stepping' BY <1>1, <2>3, <3>2 DEF History, AsksAnew
    <3>4. QED BY <2>1, <2>2, <3>3 DEF RequestFresh
  <2>4. CASE ~(q.wdata.haltreq_r \/ q.wdata.resumereq_r)
    BY <2>1, <2>2, <2>4 DEF RequestFresh
  <2>5. QED BY <2>3, <2>4
<1>2. CASE q.addr # "DMI_DMCONTROL" /\ pending
  <2>1. control' = [control EXCEPT !.haltreq_r = FALSE, !.resumereq_r = FALSE]
    BY <1>2 DEF DmCycle, ControlNext
  <2>2. control' \in Controls /\ ~control'.haltreq_r /\ ~control'.resumereq_r
    BY <2>1 DEF RequestFresh, Controls
  <2>3. QED BY <2>2 DEF RequestFresh
<1>3. CASE q.addr # "DMI_DMCONTROL" /\ ~pending
  <2>1. control' = control BY <1>3 DEF DmCycle, ControlNext
  <2>2. QED BY <1>3, <2>1 DEF RequestFresh
<1>4. QED BY <1>1, <1>2, <1>3

LEMMA StepInvStep ==
  ASSUME StepInv, RequestFresh, NEW c, c.debug = DebugRequests, Cycle(c),
         NEW q, History(q)
  PROVE  StepInv'
<1> DEFINE resumed == halted /\ DebugRequests = {"resume", "step"}
<1>1. /\ Halt(c) <=> "halt" \in DebugRequests
      /\ Resume(c) <=> "resume" \in DebugRequests
      /\ Step(c) <=> "step" \in DebugRequests
  BY DEF Halt, Resume, Step
<1>2. /\ stepping' = (resumed \/ (stepping /\ ~AsksAnew(q)))
      /\ retired' = IF resumed THEN 0
                    ELSE IF InstrRetire /\ retired < 2 THEN retired + 1 ELSE retired
  BY DEF History
<1>3. CASE resumed
  <2>1. ~Halt(c) /\ Resume(c) /\ Step(c) BY <1>1, <1>3
  <2>2. step_active' /\ ~halted'
    BY <2>1, <1>3 DEF Cycle, StepActiveNext, HaltedNext
  <2>3. retired' = 0 BY <1>2, <1>3
  <2>4. QED BY <2>2, <2>3 DEF StepInv
<1>4. CASE ~resumed /\ stepping
  <2>1. ~Halt(c) /\ ~Resume(c)
    BY <1>1, <1>4 DEF RequestFresh, DebugRequests
  <2>2. CASE retired = 0 /\ step_active /\ ~halted
    <3>1. CASE InstrRetire
      <4>1. StepStop BY <2>2, <3>1 DEF StepStop
      <4>2. halted' /\ ~ex'.valid /\ ~wb'.valid BY <4>1, <2>1, StopEmpties
      <4>3. retired' = 1 BY <1>2, <1>4, <2>2, <3>1
      <4>4. QED BY <4>2, <4>3 DEF StepInv
    <3>2. CASE ~InstrRetire
      <4>1. ~StepStop BY <3>2 DEF StepStop
      <4>2. step_active' /\ ~halted'
        BY <4>1, <2>1, <2>2 DEF Cycle, StepActiveNext, HaltedNext
      <4>3. retired' = 0 BY <1>2, <1>4, <2>2, <3>2
      <4>4. QED BY <4>2, <4>3 DEF StepInv
    <3>3. QED BY <3>1, <3>2
  <2>3. CASE retired = 1 /\ halted /\ ~ex.valid /\ ~wb.valid
    <3>1. halted' /\ ~ex'.valid /\ ~wb'.valid /\ ~InstrRetire
      BY <2>1, <2>3, HaltedStays
    <3>2. retired' = 1 BY <1>2, <1>4, <2>3, <3>1
    <3>3. QED BY <3>1, <3>2 DEF StepInv
  <2>4. QED BY <1>4, <2>2, <2>3 DEF StepInv
<1>5. CASE ~resumed /\ ~stepping
  BY <1>2, <1>5 DEF StepInv
<1>6. QED BY <1>3, <1>4, <1>5

(* The bound StepsOne is about is kept by every step of the composition.   *)
THEOREM StepInductive == DmSpec => []DebugInv
<1>1. DebugInv /\ [DmNext]_allVars => DebugInv'
  <2> SUFFICES ASSUME DebugInv, [DmNext]_allVars PROVE DebugInv'
    OBVIOUS
  <2>1. CASE DmNext
    <3>1. PICK c \in InputSet(Hazards, {"idle"} \cup BusMay, {DebugRequests}) : Cycle(c)
      BY <2>1 DEF DmNext
    <3>2. PICK q \in Requests : DmCycle(q) /\ History(q)
      BY <2>1 DEF DmNext
    <3>3. c.debug = DebugRequests BY DEF InputSet
    <3>4. StepInv' BY <3>1, <3>2, <3>3, StepInvStep DEF DebugInv
    <3>5. RequestFresh' BY <3>2, RequestFreshStep DEF DebugInv
    <3>6. QED BY <3>4, <3>5 DEF DebugInv
  <2>2. CASE UNCHANGED allVars
    BY <2>2 DEF allVars, vars, dmVars, DebugInv, StepInv, RequestFresh
  <2>3. QED BY <2>1, <2>2
<1>2. QED BY <1>1, DebugInvInit, PTL DEF DmSpec

(* A debugger that steps a halted core gets exactly one retirement, after  *)
(* which the core is halted and nothing retires behind it.                 *)
THEOREM OneInstruction == DmSpec => []StepsOne
<1>1. DebugInv => StepsOne BY DEF DebugInv, StepInv, StepsOne
<1>2. QED BY <1>1, StepInductive, PTL

-----------------------------------------------------------------------------
(* The PMP: what a locked entry says is fixed, for every number of         *)
(* entries, every width and everything software may write.                 *)

(* The registers stay arrays over the entries, of what was written.        *)
RegsOK ==
  /\ pmpcfg \in [Index -> {NoAccess} \cup CfgBytes]
  /\ pmpaddr \in [Index -> {0} \cup AddrWords]

LEMMA RegsKept ==
  ASSUME Entries \in Nat, RegsOK, [PmpNext]_pmpVars
  PROVE  RegsOK'
<1>1. CASE UNCHANGED pmpVars
  BY <1>1 DEF pmpVars, RegsOK
<1>2. ASSUME NEW slot \in 0 .. (Entries + 3) \div 4 - 1, NEW new \in [0 .. 3 -> CfgBytes],
             WritePmpcfg(slot, new)
      PROVE  RegsOK'
  <2>1. \A i \in Index : i % 4 \in 0 .. 3 BY DEF Index
  <2>2. \A i \in Index : new[i % 4] \in CfgBytes BY <2>1
  <2>3. QED BY <1>2, <2>2 DEF WritePmpcfg, RegsOK
<1>3. ASSUME NEW i \in Index, NEW new \in AddrWords, WritePmpaddr(i, new)
      PROVE  RegsOK'
  BY <1>3 DEF WritePmpaddr, RegsOK
<1>4. QED BY <1>1, <1>2, <1>3 DEF PmpNext

(* The registers of a locked entry, and the bound below a TOR entry.       *)
LEMMA LockedRegisters ==
  ASSUME Entries \in Nat, RegsOK, [PmpNext]_pmpVars, NEW i \in Index, pmpcfg[i].l
  PROVE  /\ pmpcfg'[i] = pmpcfg[i]
         /\ pmpaddr'[i] = pmpaddr[i]
         /\ pmpcfg[i].a = TOR => Previous(i)' = Previous(i)
<1>1. CASE UNCHANGED pmpVars
  BY <1>1 DEF pmpVars, Previous
<1>2. ASSUME NEW slot \in 0 .. (Entries + 3) \div 4 - 1, NEW new \in [0 .. 3 -> CfgBytes],
             WritePmpcfg(slot, new)
      PROVE  /\ pmpcfg'[i] = pmpcfg[i]
             /\ UNCHANGED pmpaddr
  BY <1>2 DEF WritePmpcfg, pmpcfg_locked
<1>3. ASSUME NEW j \in Index, NEW new \in AddrWords, WritePmpaddr(j, new)
      PROVE  /\ pmpcfg'[i] = pmpcfg[i]
             /\ pmpaddr'[i] = pmpaddr[i]
             /\ pmpcfg[i].a = TOR => Previous(i)' = Previous(i)
  <2>1. CASE pmpaddr_write_blocked(j)
    BY <1>3, <2>1 DEF WritePmpaddr, Previous
  <2>2. CASE ~pmpaddr_write_blocked(j)
    <3>1. j # i BY <2>2 DEF pmpaddr_write_blocked, pmpcfg_locked
    <3>2. pmpcfg[i].a = TOR => j # i - 1
      <4>1. SUFFICES ASSUME pmpcfg[i].a = TOR, j = i - 1 PROVE FALSE OBVIOUS
      <4>2. j + 1 = i BY <4>1 DEF Index
      <4>3. pmpcfg_locked(j + 1) /\ pmpcfg[j + 1].a = TOR
        BY <4>1, <4>2 DEF pmpcfg_locked
      <4>4. QED BY <2>2, <4>3 DEF pmpaddr_write_blocked
    <3>3. \A k \in Index : k # j => pmpaddr'[k] = pmpaddr[k]
      BY <1>3, <2>2 DEF WritePmpaddr, RegsOK
    <3>4. i # 0 => i - 1 \in Index BY DEF Index
    <3>5. QED BY <1>3, <3>1, <3>2, <3>3, <3>4 DEF WritePmpaddr, Previous
  <2>3. QED BY <2>1, <2>2
<1>4. QED BY <1>1, <1>2, <1>3 DEF PmpNext, Previous

(* The match is a function of those registers.                             *)
LEMMA LockedMatch ==
  ASSUME NEW i \in Index, NEW byte_addr,
         pmpcfg'[i] = pmpcfg[i], pmpaddr'[i] = pmpaddr[i],
         pmpcfg[i].a = TOR => Previous(i)' = Previous(i)
  PROVE  entry_matches(i, byte_addr)' = entry_matches(i, byte_addr)
<1>1. CASE pmpcfg[i].a = TOR
  BY <1>1 DEF entry_matches
<1>2. CASE pmpcfg[i].a # TOR
  BY <1>2 DEF entry_matches
<1>3. QED BY <1>1, <1>2

(* Whatever software writes after it has locked an entry, the entry keeps  *)
(* its byte and matches the same addresses: LockedKept.                    *)
THEOREM LockedRegionKept ==
  ASSUME Entries \in Nat
  PROVE  PmpSpec => LockedKept
<1>1. PmpInit => RegsOK BY DEF PmpInit, RegsOK
<1>2. RegsOK /\ [PmpNext]_pmpVars => RegsOK' BY RegsKept
<1>3. RegsOK /\ [PmpNext]_pmpVars => [LockedAction]_pmpVars
  <2> SUFFICES ASSUME RegsOK, [PmpNext]_pmpVars PROVE LockedAction
    OBVIOUS
  <2>1. ASSUME NEW i \in Index, pmpcfg[i].l
        PROVE  /\ pmpcfg'[i] = pmpcfg[i]
               /\ \A byte_addr \in Word :
                    entry_matches(i, byte_addr)' = entry_matches(i, byte_addr)
    BY <2>1, LockedRegisters, LockedMatch
  <2>2. QED BY <2>1 DEF LockedAction
<1>4. QED BY <1>1, <1>2, <1>3, PTL DEF PmpSpec, LockedKept
=============================================================================
