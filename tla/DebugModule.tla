---------------------------- MODULE DebugModule ----------------------------
(***************************************************************************)
(* sisDm and the core it controls: BackEnd with the three debug requests   *)
(* driven by the registers of the debug module.  One step is one clock of  *)
(* both.  The debugger on the DMI port makes a request when none is        *)
(* pending and takes the response at once; a request that arrives with a   *)
(* response, or a response left waiting, holds haltreq and resumereq for   *)
(* longer (README, section 4).  It asks a core to resume that it sees      *)
(* halted.                                                                 *)
(***************************************************************************)
EXTENDS BackEnd

CONSTANTS ControlWrites,  \* what the debugger writes to DMCONTROL
          GprNumbers      \* registers its commands name

Controls == [dm_active : BOOLEAN, haltreq_r : BOOLEAN, resumereq_r : BOOLEAN, step_r : BOOLEAN]

ASSUME DebugAssumption == ControlWrites \subseteq Controls /\ GprNumbers \subseteq 1 .. 31

VARIABLES
  control,   \* dm_active, haltreq_r, resumereq_r, step_r
  pending,   \* dmi_pending
  abs,       \* the abstract command: abs_state, abs_cmd_write
  data0,     \* who wrote data0 last
  stepping,  \* history: resumed for a step and nothing else asked of it since
  retired    \* history: instructions retired since, at most 2

dmVars == <<control, pending, abs, data0>>
allVars == <<vars, dmVars, stepping, retired>>

(* No request, a read, and writes of DMCONTROL, COMMAND and DATA0.         *)
Requests ==
  [addr : {"none", "read", "DMI_DATA0"}]
    \cup [addr : {"DMI_DMCONTROL"}, wdata : ControlWrites]
    \cup [addr : {"DMI_COMMAND"}, regno : GprNumbers]

DmTypeOK ==
  /\ control \in Controls /\ pending \in BOOLEAN
  /\ abs \in [state : 0 .. 2, write : BOOLEAN]
  /\ data0 \in {"dmi", "core"}
  /\ stepping \in BOOLEAN /\ retired \in 0 .. 2

DmInit ==
  /\ Init
  /\ control = [dm_active |-> FALSE, haltreq_r |-> FALSE, resumereq_r |-> FALSE, step_r |-> FALSE]
  /\ pending = FALSE
  /\ abs = [state |-> 0, write |-> FALSE]
  /\ data0 = "dmi"
  /\ stepping = FALSE /\ retired = 0

(* What the core gets this cycle.                                          *)
DebugRequests ==
  {r \in {"halt", "resume", "step"} :
     /\ control.dm_active
     /\ r = "halt" => control.haltreq_r
     /\ r = "resume" => control.resumereq_r
     /\ r = "step" => control.step_r /\ halted}

(* Variant: the response does not end the requests.                        *)
ControlNextHeld(q) == IF q.addr = "DMI_DMCONTROL" THEN q.wdata ELSE control

ControlNext(q) ==
  IF q.addr = "DMI_DMCONTROL" THEN q.wdata
  ELSE IF pending THEN [control EXCEPT !.haltreq_r = FALSE, !.resumereq_r = FALSE]
  ELSE control

(* abs_valid && halted                                                     *)
AbsReady == abs.state = 1 /\ halted

(* A command is taken in any state; bit 16 of it is the write bit and the  *)
(* lowest bit of the register number.                                      *)
AbsNext(q) ==
  IF q.addr = "DMI_COMMAND" THEN [state |-> 1, write |-> q.regno % 2 = 1]
  ELSE IF AbsReady THEN [abs EXCEPT !.state = 2]
  ELSE IF abs.state = 2 THEN [abs EXCEPT !.state = 0]
  ELSE abs

Data0Next(q) ==
  IF q.addr = "DMI_DATA0" THEN "dmi"
  ELSE IF AbsReady /\ ~abs.write THEN "core"
  ELSE data0

DmCycle(q) ==
  /\ pending => q.addr = "none"
  /\ q.addr = "DMI_DMCONTROL" => (q.wdata.resumereq_r => halted)
  /\ control' = ControlNext(q)
  /\ pending' = (q.addr # "none")
  /\ abs' = AbsNext(q)
  /\ data0' = Data0Next(q)

AsksAnew(q) == q.addr = "DMI_DMCONTROL" /\ (q.wdata.haltreq_r \/ q.wdata.resumereq_r)

History(q) ==
  LET resumed == halted /\ DebugRequests = {"resume", "step"}
  IN /\ stepping' = (resumed \/ (stepping /\ ~AsksAnew(q)))
     /\ retired' = IF resumed THEN 0
                   ELSE IF InstrRetire /\ retired < 2 THEN retired + 1
                   ELSE retired

DmNext ==
  /\ \E c \in InputSet(Hazards, {"idle"} \cup BusMay, {DebugRequests}) : Cycle(c)
  /\ \E q \in Requests : DmCycle(q) /\ History(q)

DmSpec == DmInit /\ [][DmNext]_allVars

(* As BackEnd!FairSpec: the surroundings of the core respond, the debugger *)
(* need not do anything.                                                   *)
DmResponsive ==
  /\ \E c \in InputSet({FALSE}, IF BusMay = {} THEN {"idle"} ELSE BusMay \ {"refuse"},
                       {DebugRequests}) :
       /\ c.arrive = Nothing => refill \/ Flush(c) \/ (if_id.valid /\ ~IdToEx(c))
       /\ Cycle(c)
  /\ \E q \in Requests : DmCycle(q) /\ History(q)

DmFairSpec == DmSpec /\ WF_allVars(DmResponsive)

-----------------------------------------------------------------------------
(* A debugger that resumes a halted core for a step gets one instruction:  *)
(* once it has retired the core is halted, nothing retires behind it, and  *)
(* what the front end held is discarded, whether the instruction was       *)
(* fetched, in EX or trapped first, and until the debugger asks again.     *)
StepsOne == stepping => retired <= 1 /\ (retired = 1 => halted)

(* A step ends: the core halts, or takes a trap and is then to stop after  *)
(* the first instruction of the handler that retires.                      *)
StepEnds == step_active ~> halted \/ TrapEnter
=============================================================================
