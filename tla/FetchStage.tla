----------------------------- MODULE FetchStage -----------------------------
(***************************************************************************)
(* The IF stage of sisRvCore: the demand FSM, the one-word fetch buffer    *)
(* fbuf, the sequential prefetch slot pf and the IF/ID register, advanced  *)
(* by one clock edge (FetchEdge).                                          *)
(*                                                                         *)
(* The stage is a synchronous circuit, so everything it does in a cycle is *)
(* one action.  Its inputs in that cycle are the record c:                 *)
(*   c.run     the core is neither halted nor asked to halt nor stepping   *)
(*             without an armed step                                       *)
(*   c.flush   "none", "redirect" (ex_redirect), "stop"                    *)
(*             (wb_single_step_stop); c.target is the new fetch_pc         *)
(*   c.take    id_to_ex_fire: ID hands the IF/ID register to EX            *)
(*   c.ready   i_req_ready of the instruction bus                          *)
(*   c.rsp     i_rsp_valid; c.data is the place the word was read from and *)
(*             c.buserr is i_rsp_err                                       *)
(* Each register has one operator for its next value.  Where the RTL       *)
(* assigns a register several times in one edge the last assignment wins,  *)
(* so the alternatives below are listed in reverse order.  A register      *)
(* whose valid bit is off has no content: the RTL never reads it.          *)
(***************************************************************************)
EXTENDS InstrMem

VARIABLES
  wide,              \* the program: halfwords that start 32-bit encodings
  priv,              \* priv_o of sisCsr, which the PMP check sees
  if_state,          \* demand FSM
  fetch_pc,          \* the PC the stage works on
  fetch_req_pc,      \* the PC of the demand request in flight
  fetch_upper_hold,  \* low half of a straddling instruction
  fetch_err_hold,
  if_discard_rsp,    \* the demand response in flight is to be dropped
  fbuf,              \* last fetched word
  pf,                \* prefetched word
  pf_inflight,       \* the word of the prefetch in flight
  pf_discard,        \* the prefetch response in flight is to be dropped
  if_id              \* the IF/ID register

InputSet ==
  [run : BOOLEAN, flush : {"none", "redirect", "stop"}, target : PC,
   take : BOOLEAN, ready : BOOLEAN, rsp : BOOLEAN, data : Word,
   buserr : BOOLEAN]

fetchVars == << if_state, fetch_pc, fetch_req_pc, fetch_upper_hold,
                fetch_err_hold, if_discard_rsp, fbuf, pf, pf_inflight,
                pf_discard, if_id >>

NoWord  == [valid |-> FALSE]
WordSet == {NoWord} \cup [valid : {TRUE}, word : Word, data : Word,
                          err : BOOLEAN]
Buffered(w, data, err) ==
  [valid |-> TRUE, word |-> w, data |-> data, err |-> err]

NoFlight    == [valid |-> FALSE]
InFlight(w) == [valid |-> TRUE, word |-> w]
FlightSet   == {NoFlight} \cup [valid : {TRUE}, word : Word]

(* fetch_upper_hold after reset and after use.                             *)
NoHalf == [valid |-> FALSE]

FetchTypeOK ==
  /\ wide \subseteq PC
  /\ priv \in Priv
  /\ if_state \in {"IF_REQ", "IF_WAIT", "IF_SECOND_REQ", "IF_SECOND_WAIT"}
  /\ fetch_pc \in PC
  /\ fetch_req_pc \in PC
  /\ fetch_upper_hold \in {NoHalf} \cup PC
  /\ fetch_err_hold \in BOOLEAN
  /\ if_discard_rsp \in BOOLEAN
  /\ fbuf \in WordSet
  /\ pf \in WordSet
  /\ pf_inflight \in FlightSet
  /\ pf_discard \in BOOLEAN
  /\ if_id \in SlotSet

FetchInit(reset) ==
  /\ if_state = "IF_REQ"
  /\ fetch_pc = reset
  /\ fetch_req_pc = reset
  /\ fetch_upper_hold = NoHalf
  /\ fetch_err_hold = FALSE
  /\ if_discard_rsp = FALSE
  /\ fbuf = NoWord
  /\ pf = NoWord
  /\ pf_inflight = NoFlight
  /\ pf_discard = FALSE
  /\ if_id = Empty

-----------------------------------------------------------------------------
(* Bus requests of the cycle.                                              *)

Waiting == if_state \in {"IF_WAIT", "IF_SECOND_WAIT"}

FbufHit  == fbuf.valid /\ fbuf.word = fetch_pc.word
PfbufHit == pf.valid /\ pf.word = fetch_pc.word
BufHit   == FbufHit \/ PfbufHit

CanAcceptFetch(c) ==
  /\ c.run
  /\ c.flush = "none"
  /\ ~if_id.valid \/ c.take

ServeBuf(c) == CanAcceptFetch(c) /\ if_state = "IF_REQ" /\ BufHit
ServePf(c)  == ServeBuf(c) /\ ~FbufHit

DemandReq(c) ==
  /\ CanAcceptFetch(c)
  /\ (if_state = "IF_REQ" /\ ~BufHit) \/ if_state = "IF_SECOND_REQ"

DemandWord == IF if_state = "IF_SECOND_REQ" THEN NextWord[fetch_req_pc.word]
                                            ELSE fetch_pc.word

PfTarget == NextWord[fetch_pc.word]

PfIssue(c) ==
  /\ CanAcceptFetch(c)
  /\ ~DemandReq(c)
  /\ ~pf_inflight.valid
  /\ ~(pf.valid /\ pf.word = PfTarget)
  /\ ~(fbuf.valid /\ fbuf.word = PfTarget)
  /\ if_state \in {"IF_REQ", "IF_WAIT"}

ReqValid(c) == DemandReq(c) \/ PfIssue(c)
ReqWord(c)  == IF DemandReq(c) THEN DemandWord ELSE PfTarget
RspReady    == Waiting \/ pf_inflight.valid

DemandFire(c) == DemandReq(c) /\ c.ready
DemandRsp(c)  == c.rsp /\ Waiting
PfRsp(c)      == c.rsp /\ pf_inflight.valid /\ ~Waiting

PfFire(c) == PfIssue(c) /\ c.ready

(* The address u_pmp_i checks: the word whose response is being consumed.  *)
FetchPmpWord ==
  IF if_state = "IF_SECOND_WAIT" THEN NextWord[fetch_req_pc.word]
  ELSE IF if_state # "IF_WAIT" /\ pf_inflight.valid THEN pf_inflight.word
  ELSE fetch_req_pc.word

RspErr(c) == c.buserr \/ ~PmpAllow(FetchPmpWord, priv)

-----------------------------------------------------------------------------
(* The word decoded in the cycle, from a response or from a buffer.        *)

WordReady(c) ==
  \/ DemandRsp(c) /\ ~if_discard_rsp /\ if_state = "IF_WAIT"
  \/ ServeBuf(c)

Served(c) ==
  IF ServeBuf(c)
  THEN LET buf == IF FbufHit THEN fbuf ELSE pf
       IN [pc |-> fetch_pc, data |-> buf.data, err |-> buf.err]
  ELSE [pc |-> fetch_req_pc, data |-> c.data, err |-> RspErr(c)]

(* The halfword the PC points at within the word that was served.          *)
FirstHalf(u) == [word |-> u.data, hi |-> u.pc.hi]

(* The word at hand completes an instruction.                              *)
Emits(u) == u.err \/ ~u.pc.hi \/ FirstHalf(u) \notin wide

SecondRsp(c) ==
  DemandRsp(c) /\ ~if_discard_rsp /\ if_state = "IF_SECOND_WAIT"

SlotOf(u) ==
  IF u.err THEN Slot(u.pc, NopRaw, TRUE)
  ELSE IF FirstHalf(u) \notin wide THEN Slot(u.pc, Short(FirstHalf(u)), FALSE)
  ELSE Slot(u.pc, Long(LowHalf(u.data), HighHalf(u.data)), FALSE)

StraddleSlot(c) ==
  Slot(fetch_req_pc, Long(fetch_upper_hold, LowHalf(c.data)),
       fetch_err_hold \/ RspErr(c))

-----------------------------------------------------------------------------
(* Next values of the registers.                                           *)

IfStateNext(c) ==
  IF c.flush # "none"
    THEN IF Waiting /\ ~DemandRsp(c) THEN if_state ELSE "IF_REQ"
  ELSE IF WordReady(c)
    THEN IF Emits(Served(c)) THEN "IF_REQ" ELSE "IF_SECOND_REQ"
  ELSE IF DemandRsp(c)
    THEN "IF_REQ"   \* the second half, or a response to discard
  ELSE IF DemandFire(c)
    THEN IF if_state = "IF_REQ" THEN "IF_WAIT" ELSE "IF_SECOND_WAIT"
  ELSE if_state

FetchPcNext(c) ==
  IF c.flush # "none" THEN c.target
  ELSE IF SecondRsp(c) THEN Plus4(fetch_req_pc)
  ELSE IF WordReady(c) /\ Emits(Served(c)) THEN NextPC(SlotOf(Served(c)))
  ELSE fetch_pc

FetchReqPcNext(c) ==
  IF WordReady(c) /\ ~Emits(Served(c)) THEN Served(c).pc
  ELSE IF DemandFire(c) /\ if_state = "IF_REQ" THEN fetch_pc
  ELSE fetch_req_pc

(* Variant: the half is taken from the wrong end of the word.              *)
UpperHoldNextLow(c) ==
  IF c.flush # "none" \/ SecondRsp(c) THEN NoHalf
  ELSE IF WordReady(c) /\ ~Emits(Served(c)) THEN LowHalf(Served(c).data)
  ELSE fetch_upper_hold

UpperHoldNext(c) ==
  IF c.flush # "none" \/ SecondRsp(c) THEN NoHalf
  ELSE IF WordReady(c) /\ ~Emits(Served(c)) THEN HighHalf(Served(c).data)
  ELSE fetch_upper_hold

ErrHoldNext(c) ==
  IF c.flush # "none" \/ SecondRsp(c) THEN FALSE
  ELSE IF WordReady(c) THEN Served(c).err
  ELSE fetch_err_hold

(* Variant: a dropped response leaves the flag up.                         *)
DiscardNextSticky(c) ==
  IF c.flush # "none" THEN Waiting /\ ~DemandRsp(c) ELSE if_discard_rsp

DiscardNext(c) ==
  IF c.flush # "none" THEN Waiting /\ ~DemandRsp(c)
                      ELSE if_discard_rsp /\ ~DemandRsp(c)

FbufNext(c) ==
  IF c.flush # "none" THEN NoWord
  ELSE IF DemandRsp(c) /\ ~if_discard_rsp
    THEN Buffered(IF if_state = "IF_SECOND_WAIT"
                  THEN NextWord[fetch_req_pc.word] ELSE fetch_req_pc.word,
                  c.data, RspErr(c))
  ELSE IF ServePf(c) THEN pf
  ELSE fbuf

PfNext(c) ==
  IF c.flush # "none" \/ ServePf(c) THEN NoWord
  ELSE IF PfRsp(c) /\ ~pf_discard
    THEN Buffered(pf_inflight.word, c.data, RspErr(c))
  ELSE pf

PfInflightNext(c) ==
  IF PfRsp(c) THEN NoFlight
  ELSE IF PfFire(c) THEN InFlight(PfTarget)
  ELSE pf_inflight

PfDiscardNext(c) ==
  IF c.flush # "none" /\ pf_inflight.valid /\ ~PfRsp(c) THEN TRUE
                      ELSE pf_discard /\ ~PfRsp(c)

(* Variant: taking the instruction clears the register even when the stage *)
(* puts the next one into it in the same cycle.                            *)
IfIdNextClobbered(c) ==
  IF c.flush # "none" \/ c.take THEN Empty
  ELSE IF SecondRsp(c) THEN StraddleSlot(c)
  ELSE IF WordReady(c) /\ Emits(Served(c)) THEN SlotOf(Served(c))
  ELSE if_id

IfIdNext(c) ==
  IF c.flush # "none" THEN Empty
  ELSE IF SecondRsp(c) THEN StraddleSlot(c)
  ELSE IF WordReady(c) /\ Emits(Served(c)) THEN SlotOf(Served(c))
  ELSE IF c.take THEN Empty
  ELSE if_id

FetchEdge(c) ==
  /\ if_state'         = IfStateNext(c)
  /\ fetch_pc'         = FetchPcNext(c)
  /\ fetch_req_pc'     = FetchReqPcNext(c)
  /\ fetch_upper_hold' = UpperHoldNext(c)
  /\ fetch_err_hold'   = ErrHoldNext(c)
  /\ if_discard_rsp'   = DiscardNext(c)
  /\ fbuf'             = FbufNext(c)
  /\ pf'               = PfNext(c)
  /\ pf_inflight'      = PfInflightNext(c)
  /\ pf_discard'       = PfDiscardNext(c)
  /\ if_id'            = IfIdNext(c)
=============================================================================
