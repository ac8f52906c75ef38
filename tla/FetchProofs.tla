----------------------------- MODULE FetchProofs -----------------------------
(***************************************************************************)
(* Theorems about FetchUnit: IInv is an inductive invariant, the safety    *)
(* properties follow from it, and the stage implements FetchStream.        *)
(*                                                                         *)
(* The three kinds of cycle differ only in their inputs, so every step is  *)
(* first reduced to one cycle with some input record c (StepIsCycle).      *)
(* Each conjunct of IInv then has a lemma of its own.  ResponseFresh and   *)
(* ServedFresh say which word a response or a buffer brings; the           *)
(* refinement rests on them.                                               *)
(***************************************************************************)
EXTENDS FetchUnit, TLAPS

LEMMA PlusType ==
  ASSUME NEW pc \in PC
  PROVE  Plus2(pc) \in PC /\ Plus4(pc) \in PC
BY InstrMemAssumption DEF Plus2, Plus4, PC

LEMMA SlotOfType ==
  ASSUME FetchTypeOK, NEW u \in [pc : PC, data : Word, err : BOOLEAN]
  PROVE  SlotOf(u) \in SlotSet /\ SlotOf(u).valid /\ SlotOf(u).pc = u.pc
         /\ NextPC(SlotOf(u)) \in PC
<1> DEFINE h == FirstHalf(u)
<1>1. h \in PC /\ LowHalf(u.data) \in PC /\ HighHalf(u.data) \in PC
  BY DEF FirstHalf, LowHalf, HighHalf, PC
<1>2. CASE u.err
  <2>1. SlotOf(u) = Slot(u.pc, NopRaw, TRUE)
    BY <1>2 DEF SlotOf
  <2>2. QED BY <2>1, PlusType DEF Slot, SlotSet, RawSet, NopRaw, NextPC
<1>3. CASE ~u.err /\ h \notin wide
  <2>1. SlotOf(u) = Slot(u.pc, Short(h), FALSE)
    BY <1>3 DEF SlotOf
  <2>2. QED BY <1>1, <2>1, PlusType DEF Slot, SlotSet, RawSet, Short, NextPC
<1>4. CASE ~u.err /\ h \in wide
  <2>1. SlotOf(u) = Slot(u.pc, Long(LowHalf(u.data), HighHalf(u.data)), FALSE)
    BY <1>4 DEF SlotOf
  <2>2. QED BY <1>1, <2>1, PlusType DEF Slot, SlotSet, RawSet, Long, NextPC
<1>5. QED BY <1>2, <1>3, <1>4


(* A valid buffer and a prefetch in flight have their content.             *)
LEMMA BufferFields ==
  ASSUME NEW b \in WordSet, b.valid
  PROVE  b.word \in Word /\ b.data \in Word /\ b.err \in BOOLEAN
<1>1. b # NoWord
  BY DEF NoWord
<1>2. b \in [valid : {TRUE}, word : Word, data : Word, err : BOOLEAN]
  BY <1>1 DEF WordSet
<1>3. QED BY <1>2

LEMMA FlightFields ==
  ASSUME NEW f \in FlightSet, f.valid
  PROVE  f.word \in Word /\ f = InFlight(f.word)
<1>1. f # NoFlight
  BY DEF NoFlight
<1>2. f \in [valid : {TRUE}, word : Word]
  BY <1>1 DEF FlightSet
<1>3. QED BY <1>2 DEF InFlight

LEMMA ServedType ==
  ASSUME FetchTypeOK, NEW c \in InputSet
  PROVE  Served(c) \in [pc : PC, data : Word, err : BOOLEAN]
<1>1. RspErr(c) \in BOOLEAN
  BY DEF RspErr, InputSet, PmpAllow
<1>2. CASE ServeBuf(c) /\ FbufHit
  BY <1>2, BufferFields DEF Served, FetchTypeOK, FbufHit
<1>3. CASE ServeBuf(c) /\ ~FbufHit
  BY <1>3, BufferFields DEF Served, FetchTypeOK, PfbufHit, BufHit, ServeBuf
<1>4. CASE ~ServeBuf(c)
  BY <1>1, <1>4 DEF Served, FetchTypeOK, InputSet
<1>5. QED BY <1>2, <1>3, <1>4

LEMMA EdgeType ==
  ASSUME FetchTypeOK, HoldOK, NEW c \in InputSet, FetchEdge(c),
         wide' = wide, priv' \in Priv
  PROVE  FetchTypeOK' /\ HoldOK'
<1> DEFINE u == Served(c)
<1> HIDE DEF u
<1>1. u \in [pc : PC, data : Word, err : BOOLEAN]
  BY ServedType DEF u
<1>2. /\ SlotOf(u) \in SlotSet
      /\ NextPC(SlotOf(u)) \in PC
  BY <1>1, SlotOfType
<1>3. /\ LowHalf(c.data) \in PC /\ LowHalf(u.data) \in PC
      /\ HighHalf(u.data) \in PC
  BY <1>1 DEF LowHalf, HighHalf, PC, InputSet
<1>4. RspErr(c) \in BOOLEAN
  BY DEF RspErr, InputSet, PmpAllow
<1>5. Plus4(fetch_req_pc) \in PC
  BY PlusType DEF FetchTypeOK
<1>6. if_state' \in {"IF_REQ", "IF_WAIT", "IF_SECOND_REQ", "IF_SECOND_WAIT"}
  BY DEF FetchEdge, IfStateNext, FetchTypeOK
<1>7. fetch_pc' \in PC
  BY <1>2, <1>5 DEF FetchEdge, FetchPcNext, FetchTypeOK, InputSet, u
<1>8. fetch_req_pc' \in PC
  BY <1>1 DEF FetchEdge, FetchReqPcNext, FetchTypeOK, u
<1>9. fetch_upper_hold' \in {NoHalf} \cup PC
  BY <1>3 DEF FetchEdge, UpperHoldNext, FetchTypeOK, u
<1>10. fetch_err_hold' \in BOOLEAN
  BY <1>1 DEF FetchEdge, ErrHoldNext, FetchTypeOK, u
<1>11. if_discard_rsp' \in BOOLEAN
  BY DEF FetchEdge, DiscardNext, FetchTypeOK, Waiting, DemandRsp, InputSet
<1>12. fbuf' \in WordSet
  <2>1. FbufNext(c) \in WordSet
    BY <1>4, InstrMemAssumption
    DEF FbufNext, FetchTypeOK, WordSet, Buffered, PC, InputSet
  <2>2. QED BY <2>1 DEF FetchEdge
<1>13. pf_inflight' \in FlightSet
  <2>1. PfTarget \in Word
    BY InstrMemAssumption DEF PfTarget, FetchTypeOK, PC
  <2>2. QED BY <2>1 DEF FetchEdge, PfInflightNext, FetchTypeOK, FlightSet,
                        InFlight
<1>14. pf' \in WordSet
  <2>1. CASE PfRsp(c)
    <3>1. pf_inflight.word \in Word
      BY <2>1, FlightFields DEF PfRsp, FetchTypeOK
    <3>2. QED BY <1>4, <3>1 DEF FetchEdge, PfNext, FetchTypeOK, WordSet,
                                Buffered, InputSet
  <2>2. CASE ~PfRsp(c)
    BY <2>2 DEF FetchEdge, PfNext, FetchTypeOK, WordSet
  <2>3. QED BY <2>1, <2>2
<1>15. pf_discard' \in BOOLEAN
  BY DEF FetchEdge, PfDiscardNext, FetchTypeOK, PfRsp, InputSet
<1>16. if_id' \in SlotSet
  <2>1. CASE SecondRsp(c)
    <3>1. fetch_upper_hold \in PC
      BY <2>1 DEF SecondRsp, HoldOK
    <3>2. StraddleSlot(c) \in SlotSet
      BY <1>3, <1>4, <3>1 DEF StraddleSlot, Slot, SlotSet, RawSet, Long,
                               FetchTypeOK
    <3>3. QED BY <2>1, <3>2 DEF FetchEdge, IfIdNext, SlotSet
  <2>2. CASE ~SecondRsp(c)
    BY <1>2, <2>2 DEF FetchEdge, IfIdNext, SlotSet, FetchTypeOK, u
  <2>3. QED BY <2>1, <2>2
<1>17. HoldOK'
  <2> SUFFICES ASSUME if_state' \in {"IF_SECOND_REQ", "IF_SECOND_WAIT"},
                      ~if_discard_rsp'
               PROVE  fetch_upper_hold' \in PC
    BY DEF HoldOK
  <2>1. CASE WordReady(c) /\ ~Emits(u)
    BY <1>3, <2>1 DEF FetchEdge, UpperHoldNext, IfStateNext, DiscardNext,
                      SecondRsp, WordReady, Waiting, u, DemandRsp, ServeBuf,
                      CanAcceptFetch
  <2>2. CASE ~(WordReady(c) /\ ~Emits(u))
    <3>1. /\ if_state \in {"IF_SECOND_REQ", "IF_SECOND_WAIT"}
          /\ ~if_discard_rsp
          /\ ~SecondRsp(c)
          /\ c.flush = "none"
      BY <2>2 DEF FetchEdge, IfStateNext, DiscardNext, SecondRsp, WordReady,
                  Waiting, DemandRsp, DemandFire, DemandReq, ServeBuf,
                  CanAcceptFetch, u, FetchTypeOK
    <3>2. QED BY <2>2, <3>1 DEF FetchEdge, UpperHoldNext, HoldOK, u
  <2>3. QED BY <2>1, <2>2
<1>18. QED
  BY <1>6, <1>7, <1>8, <1>9, <1>10, <1>11, <1>12, <1>13, <1>14, <1>15,
     <1>16, <1>17 DEF FetchTypeOK

LEMMA AnswerType ==
  ASSUME TypeOK
  PROVE  Answer \in Word
BY FlightFields DEF Answer, TypeOK, FetchTypeOK, PC

(* The three kinds of cycle feed the stage well-typed inputs.              *)
LEMMA InputType ==
  ASSUME TypeOK, NEW run \in BOOLEAN, NEW take \in BOOLEAN,
         NEW ready \in BOOLEAN, NEW rsp \in BOOLEAN, NEW target \in PC,
         NEW flush \in {"none", "redirect", "stop"}
  PROVE  [run |-> run, flush |-> flush, target |-> target,
          take |-> take, ready |-> ready, rsp |-> rsp,
          data |-> Answer, buserr |-> Answer \in BadWords] \in InputSet
BY AnswerType DEF InputSet

(* Every step is a cycle of the stage with some inputs.                    *)
StepInput(c) ==
  /\ c.data = Answer
  /\ c.buserr = (Answer \in BadWords)
  /\ BusCan(c.ready, c.rsp)
  /\ c.take => if_id.valid
  /\ c.flush # "none" => ~c.take
  /\ Cycle(c)
  /\ \/ c.flush # "redirect" /\ wb_priv' = wb_priv
     \/ c.flush = "redirect" /\ wb_priv' \in Priv
  /\ ex_valid' \in BOOLEAN
  /\ wb_valid' \in BOOLEAN

LEMMA StepIsCycle ==
  ASSUME TypeOK, Next
  PROVE  \E c \in InputSet : StepInput(c)
<1>1. ASSUME NEW run \in BOOLEAN, NEW take \in BOOLEAN, NEW leave \in BOOLEAN,
             NEW ready \in BOOLEAN, NEW rsp \in BOOLEAN,
             Advance(run, take, leave, ready, rsp)
      PROVE  \E c \in InputSet : StepInput(c)
  <2> DEFINE c == [run |-> run, flush |-> "none", target |-> fetch_pc,
                   take |-> take, ready |-> ready, rsp |-> rsp,
                   data |-> Answer, buserr |-> Answer \in BadWords]
  <2>1. c \in InputSet
    <3>1. fetch_pc \in PC
      BY DEF TypeOK, FetchTypeOK
    <3>2. Answer \in Word
      BY AnswerType
    <3>3. [run |-> run, flush |-> "none", target |-> fetch_pc, take |-> take,
           ready |-> ready, rsp |-> rsp, data |-> Answer,
           buserr |-> Answer \in BadWords] \in InputSet
      BY ONLY <3>1, <3>2 DEF InputSet
    <3>4. QED BY ONLY <3>3 DEF c
  <2>2. StepInput(c)
    BY <1>1 DEF StepInput, Advance, TypeOK
  <2>3. QED BY <2>1, <2>2
<1>2. ASSUME NEW target \in PC, NEW p \in Priv, NEW rsp \in BOOLEAN,
             Redirect(target, p, rsp)
      PROVE  \E c \in InputSet : StepInput(c)
  <2> DEFINE c == [run |-> TRUE, flush |-> "redirect", target |-> target,
                   take |-> FALSE, ready |-> FALSE, rsp |-> rsp,
                   data |-> Answer, buserr |-> Answer \in BadWords]
  <2>1. c \in InputSet
    BY InputType
  <2>2. StepInput(c)
    BY <1>2 DEF StepInput, Redirect
  <2>3. QED BY <2>1, <2>2
<1>3. ASSUME NEW target \in PC, NEW rsp \in BOOLEAN, StepStop(target, rsp)
      PROVE  \E c \in InputSet : StepInput(c)
  <2> DEFINE c == [run |-> TRUE, flush |-> "stop", target |-> target,
                   take |-> FALSE, ready |-> FALSE, rsp |-> rsp,
                   data |-> Answer, buserr |-> Answer \in BadWords]
  <2>1. c \in InputSet
    BY InputType
  <2>2. StepInput(c)
    BY <1>3 DEF StepInput, StepStop
  <2>3. QED BY <2>1, <2>2
<1>4. QED BY <1>1, <1>2, <1>3 DEF Next

LEMMA TypeStep ==
  ASSUME TypeOK, HoldOK, NEW c \in InputSet, StepInput(c)
  PROVE  TypeOK' /\ HoldOK'
<1>1. FetchTypeOK' /\ HoldOK'
  BY EdgeType DEF StepInput, Cycle, TypeOK
<1>2. ReqWord(c) \in Word
  BY InstrMemAssumption
  DEF ReqWord, DemandWord, PfTarget, TypeOK, FetchTypeOK, PC
<1>3. ibus' \in FlightSet
  BY <1>2 DEF StepInput, Cycle, TypeOK, FlightSet, InFlight
<1>4. wb_priv' \in Priv /\ taken' \in BOOLEAN
  BY DEF StepInput, Cycle, TypeOK, InputSet
<1>5. QED BY <1>1, <1>3, <1>4 DEF TypeOK, StepInput

LEMMA InitInv == Init => IInv
<1> SUFFICES ASSUME Init PROVE IInv
  OBVIOUS
<1>1. TypeOK
  BY FetchUnitAssumption
  DEF Init, FetchInit, TypeOK, FetchTypeOK, WordSet, FlightSet, SlotSet, Priv
<1>2. HoldOK /\ FetchingTheHead
  BY DEF Init, FetchInit, HoldOK, FetchingTheHead
<1>5. RegisterFree
  BY DEF Init, FetchInit, RegisterFree
<1>3. SingleOutstanding /\ DiscardsAreOwed /\ StalePrivDiscarded
  BY DEF Init, FetchInit, SingleOutstanding, DiscardsAreOwed, Waiting,
         NoFlight, StalePrivDiscarded
<1>4. BuffersFresh
  BY DEF Init, FetchInit, BuffersFresh, Fresh, NoWord
<1>6. QED BY <1>1, <1>2, <1>3, <1>4, <1>5 DEF IInv

-----------------------------------------------------------------------------
(* What a response that is not dropped brings: the word that was asked for *)
(* and the fault bit the path's privilege gives.                           *)
LEMMA ResponseFresh ==
  ASSUME IInv, NEW c \in InputSet, StepInput(c)
  PROVE  /\ DemandRsp(c) /\ ~if_discard_rsp
              => c.data = FetchPmpWord /\ RspErr(c) = Fault(c.data, wb_priv)
         /\ PfRsp(c) /\ ~pf_discard
              => c.data = pf_inflight.word /\ RspErr(c) = Fault(c.data, wb_priv)
<1>1. c.rsp => c.data = ibus.word /\ ibus.valid
  BY DEF StepInput, BusCan, Answer
<1>2. RspErr(c) = (c.data \in BadWords \/ ~PmpAllow(FetchPmpWord, priv))
  BY DEF RspErr, StepInput
<1>3. ASSUME DemandRsp(c), ~if_discard_rsp
      PROVE  c.data = FetchPmpWord /\ RspErr(c) = Fault(c.data, wb_priv)
  <2>1. priv = wb_priv
    BY <1>3 DEF IInv, StalePrivDiscarded, DemandRsp
  <2>2. c.data = FetchPmpWord
    BY <1>1, <1>3 DEF IInv, SingleOutstanding, FetchingTheHead, FetchPmpWord,
                      DemandRsp, Waiting
  <2>3. QED BY <1>2, <2>1, <2>2 DEF Fault
<1>4. ASSUME PfRsp(c), ~pf_discard
      PROVE  c.data = pf_inflight.word /\ RspErr(c) = Fault(c.data, wb_priv)
  <2>1. priv = wb_priv
    BY <1>4 DEF IInv, StalePrivDiscarded, PfRsp
  <2>2. c.data = pf_inflight.word /\ c.data = FetchPmpWord
    BY <1>1, <1>4 DEF IInv, SingleOutstanding, FetchPmpWord, PfRsp, Waiting
  <2>3. QED BY <1>2, <2>1, <2>2 DEF Fault
<1>5. QED BY <1>3, <1>4

(* The word decoded in a cycle is the one fetch_pc points into.            *)
LEMMA ServedFresh ==
  ASSUME IInv, NEW c \in InputSet, StepInput(c), WordReady(c)
  PROVE  /\ Served(c).pc = fetch_pc
         /\ Served(c).data = fetch_pc.word
         /\ Served(c).err = Fault(fetch_pc.word, wb_priv)
<1>1. CASE ServeBuf(c) /\ FbufHit
  BY <1>1 DEF Served, IInv, BuffersFresh, Fresh, FbufHit
<1>2. CASE ServeBuf(c) /\ ~FbufHit
  BY <1>2 DEF Served, IInv, BuffersFresh, Fresh, FbufHit, PfbufHit, BufHit,
              ServeBuf
<1>3. CASE ~ServeBuf(c)
  <2>1. DemandRsp(c) /\ ~if_discard_rsp /\ if_state = "IF_WAIT"
    BY <1>3 DEF WordReady
  <2>2. fetch_req_pc = fetch_pc
    BY <2>1 DEF IInv, FetchingTheHead
  <2>3. FetchPmpWord = fetch_pc.word
    BY <2>1, <2>2 DEF FetchPmpWord
  <2>4. QED BY <1>3, <2>1, <2>2, <2>3, ResponseFresh DEF Served
<1>4. QED BY <1>1, <1>2, <1>3

LEMMA SingleOutstandingStep ==
  ASSUME IInv, NEW c \in InputSet, StepInput(c)
  PROVE  SingleOutstanding'
<1>. USE DEF IInv
<1>1. c.rsp => ibus.valid /\ RspReady
  BY DEF StepInput, BusCan, SingleOutstanding, RspReady
<1>2. c.ready => ~ibus.valid \/ c.rsp
  BY DEF StepInput, BusCan
<1>3. CASE c.flush # "none"
  <2>1. /\ ~DemandFire(c) /\ ~PfFire(c) /\ ~ReqValid(c)
        /\ ~WordReady(c) \/ DemandRsp(c)
    BY <1>3 DEF DemandFire, PfFire, ReqValid, DemandReq, PfIssue,
                CanAcceptFetch, WordReady, ServeBuf
  <2>2. ibus' = IF c.rsp THEN NoFlight ELSE ibus
    BY <1>1, <2>1 DEF StepInput, Cycle
  <2>3. /\ if_state' = IF Waiting /\ ~DemandRsp(c) THEN if_state ELSE "IF_REQ"
        /\ if_discard_rsp' = (Waiting /\ ~DemandRsp(c))
        /\ pf_inflight' = IF PfRsp(c) THEN NoFlight ELSE pf_inflight
    BY <1>3, <2>1 DEF StepInput, Cycle, FetchEdge, IfStateNext, DiscardNext,
                      PfInflightNext
  <2>4. QED
    BY <1>1, <2>2, <2>3 DEF SingleOutstanding, Waiting, DemandRsp, PfRsp,
                            NoFlight
<1>4. CASE c.flush = "none" /\ ~c.rsp
  <2>1. /\ ~DemandRsp(c) /\ ~PfRsp(c) /\ ~SecondRsp(c)
        /\ WordReady(c) <=> ServeBuf(c)
    BY <1>4 DEF DemandRsp, PfRsp, SecondRsp, WordReady
  <2>2. if_discard_rsp' = if_discard_rsp
    BY <1>4, <2>1 DEF StepInput, Cycle, FetchEdge, DiscardNext, TypeOK,
                      FetchTypeOK
  <2>3. CASE DemandFire(c)
    <3>1. ~ibus.valid /\ ~Waiting /\ ~pf_inflight.valid
      BY <1>2, <1>4, <2>3 DEF DemandFire, SingleOutstanding
    <3>2. ~WordReady(c) /\ ~PfFire(c)
      BY <2>1, <2>3 DEF DemandFire, DemandReq, ServeBuf, PfFire, PfIssue
    <3>3. /\ ibus' = InFlight(DemandWord)
          /\ pf_inflight' = pf_inflight
          /\ fetch_pc' = fetch_pc
          /\ if_state' = IF if_state = "IF_REQ" THEN "IF_WAIT"
                                                ELSE "IF_SECOND_WAIT"
      BY <1>4, <2>1, <2>3, <3>2
      DEF StepInput, Cycle, FetchEdge, IfStateNext, FetchPcNext,
          PfInflightNext, ReqValid, ReqWord, DemandFire
    <3>4. if_state = "IF_SECOND_REQ" => fetch_req_pc = fetch_pc
      BY <3>1 DEF DiscardsAreOwed, FetchingTheHead
    <3>5. if_state = "IF_REQ" \/ if_state = "IF_SECOND_REQ"
      BY <2>3 DEF DemandFire, DemandReq
    <3>6. QED
      BY <3>1, <3>3, <3>4, <3>5
      DEF SingleOutstanding, Waiting, DemandWord, InFlight
  <2>4. CASE ~DemandFire(c) /\ PfFire(c)
    <3>1. ~ibus.valid /\ ~Waiting /\ ~pf_inflight.valid
      BY <1>2, <1>4, <2>4 DEF PfFire, SingleOutstanding
    <3>2. /\ ibus' = InFlight(PfTarget)
          /\ pf_inflight' = InFlight(PfTarget)
      BY <2>1, <2>4
      DEF StepInput, Cycle, FetchEdge, PfInflightNext, ReqValid, ReqWord,
          PfFire, PfIssue
    <3>3. if_state' = if_state \/ if_state' \in {"IF_REQ", "IF_SECOND_REQ"}
      BY <1>4, <2>1, <2>4 DEF StepInput, Cycle, FetchEdge, IfStateNext
    <3>4. QED
      BY <3>1, <3>2, <3>3 DEF SingleOutstanding, Waiting, InFlight
  <2>5. CASE ~DemandFire(c) /\ ~PfFire(c)
    <3>1. ~(ReqValid(c) /\ c.ready)
      BY <2>5 DEF ReqValid, DemandFire, PfFire
    <3>2. ibus' = ibus /\ pf_inflight' = pf_inflight
      BY <1>4, <2>1, <2>5, <3>1
      DEF StepInput, Cycle, FetchEdge, PfInflightNext
    <3>3. CASE Waiting
      <4>1. ~WordReady(c)
        BY <2>1, <3>3 DEF ServeBuf, Waiting
      <4>2. if_state' = if_state /\ fetch_pc' = fetch_pc
        BY <1>4, <2>1, <2>5, <4>1
        DEF StepInput, Cycle, FetchEdge, IfStateNext, FetchPcNext
      <4>3. QED BY <2>2, <3>2, <4>2 DEF SingleOutstanding, Waiting
    <3>4. CASE ~Waiting
      <4>1. if_state' = if_state \/ if_state' \in {"IF_REQ", "IF_SECOND_REQ"}
        BY <1>4, <2>1, <2>5 DEF StepInput, Cycle, FetchEdge, IfStateNext
      <4>2. QED BY <3>2, <3>4, <4>1 DEF SingleOutstanding, Waiting
    <3>5. QED BY <3>3, <3>4
  <2>6. QED BY <2>3, <2>4, <2>5
<1>5. CASE c.flush = "none" /\ c.rsp
  <2>1. CASE Waiting
    <3>1. DemandRsp(c) /\ ~PfRsp(c) /\ ~pf_inflight.valid /\ ~DemandFire(c)
      BY <1>5, <2>1 DEF DemandRsp, PfRsp, SingleOutstanding, Waiting,
                        DemandFire, DemandReq
    <3>2. if_state' \in {"IF_REQ", "IF_SECOND_REQ"}
      BY <1>5, <3>1 DEF StepInput, Cycle, FetchEdge, IfStateNext
    <3>3. CASE PfFire(c)
      <4>1. ibus' = InFlight(PfTarget) /\ pf_inflight' = InFlight(PfTarget)
        BY <3>1, <3>3 DEF StepInput, Cycle, FetchEdge, PfInflightNext,
                          ReqValid, ReqWord, PfFire, PfIssue
      <4>2. QED BY <3>2, <4>1 DEF SingleOutstanding, Waiting, InFlight
    <3>4. CASE ~PfFire(c)
      <4>1. ~(ReqValid(c) /\ c.ready)
        BY <3>1, <3>4 DEF ReqValid, DemandFire, PfFire
      <4>2. ibus' = NoFlight /\ pf_inflight' = pf_inflight
        BY <1>1, <1>5, <3>1, <3>4, <4>1
        DEF StepInput, Cycle, FetchEdge, PfInflightNext
      <4>3. QED BY <3>1, <3>2, <4>2 DEF SingleOutstanding, Waiting, NoFlight
    <3>5. QED BY <3>3, <3>4
  <2>2. CASE ~Waiting
    <3>1. /\ ~DemandRsp(c) /\ ~SecondRsp(c) /\ PfRsp(c) /\ ~PfFire(c)
          /\ WordReady(c) <=> ServeBuf(c)
      BY <1>1, <1>5, <2>2 DEF DemandRsp, SecondRsp, PfRsp, RspReady, PfFire,
                              PfIssue, WordReady
    <3>2. pf_inflight' = NoFlight
      BY <3>1 DEF StepInput, Cycle, FetchEdge, PfInflightNext
    <3>3. CASE DemandFire(c)
      <4>1. ~WordReady(c)
        BY <3>1, <3>3 DEF DemandFire, DemandReq, ServeBuf
      <4>2. /\ ibus' = InFlight(DemandWord)
            /\ fetch_pc' = fetch_pc
            /\ if_state' = IF if_state = "IF_REQ" THEN "IF_WAIT"
                                                  ELSE "IF_SECOND_WAIT"
        BY <1>5, <3>1, <3>3, <4>1
        DEF StepInput, Cycle, FetchEdge, IfStateNext, FetchPcNext, ReqValid,
            ReqWord, DemandFire
      <4>3. if_state = "IF_SECOND_REQ" => fetch_req_pc = fetch_pc
        BY <2>2 DEF DiscardsAreOwed, FetchingTheHead
      <4>4. if_state = "IF_REQ" \/ if_state = "IF_SECOND_REQ"
        BY <3>3 DEF DemandFire, DemandReq
      <4>5. QED
        BY <3>2, <4>2, <4>3, <4>4
        DEF SingleOutstanding, Waiting, DemandWord, InFlight, NoFlight
    <3>4. CASE ~DemandFire(c)
      <4>1. ~(ReqValid(c) /\ c.ready)
        BY <3>1, <3>4 DEF ReqValid, DemandFire, PfFire
      <4>2. ibus' = NoFlight
        BY <1>1, <1>5, <4>1 DEF StepInput, Cycle
      <4>3. if_state' = if_state \/ if_state' \in {"IF_REQ", "IF_SECOND_REQ"}
        BY <1>5, <3>1, <3>4 DEF StepInput, Cycle, FetchEdge, IfStateNext
      <4>4. QED BY <2>2, <3>2, <4>2, <4>3
                DEF SingleOutstanding, Waiting, NoFlight
    <3>5. QED BY <3>3, <3>4
  <2>3. QED BY <2>1, <2>2
<1>6. QED BY <1>3, <1>4, <1>5 DEF InputSet

LEMMA DiscardsAreOwedStep ==
  ASSUME IInv, NEW c \in InputSet, StepInput(c)
  PROVE  DiscardsAreOwed'
<1>. USE DEF IInv
<1>1. ASSUME if_discard_rsp'
      PROVE  Waiting'
  <2>1. Waiting /\ ~DemandRsp(c)
    BY <1>1 DEF StepInput, Cycle, FetchEdge, DiscardNext, DiscardsAreOwed
  <2>2. ~WordReady(c) /\ ~DemandFire(c)
    BY <2>1 DEF WordReady, DemandFire, DemandReq, ServeBuf, Waiting
  <2>3. if_state' = if_state
    BY <2>1, <2>2 DEF StepInput, Cycle, FetchEdge, IfStateNext
  <2>4. QED BY <2>1, <2>3 DEF Waiting
<1>2. ASSUME pf_discard'
      PROVE  pf_inflight'.valid
  <2>1. pf_inflight.valid /\ ~PfRsp(c)
    BY <1>2 DEF StepInput, Cycle, FetchEdge, PfDiscardNext, DiscardsAreOwed
  <2>2. QED
    BY <2>1 DEF StepInput, Cycle, FetchEdge, PfInflightNext, InFlight
<1>3. QED BY <1>1, <1>2 DEF DiscardsAreOwed

(* A flush empties the buffers, so a change of privilege finds none; every *)
(* other cycle fills them with fresh responses only.                       *)
LEMMA BuffersFreshStep ==
  ASSUME IInv, NEW c \in InputSet, StepInput(c)
  PROVE  BuffersFresh'
<1>1. CASE c.flush # "none"
  BY <1>1 DEF StepInput, Cycle, FetchEdge, FbufNext, PfNext, BuffersFresh,
              Fresh, NoWord
<1>2. CASE c.flush = "none"
  <2>1. wb_priv' = wb_priv
    BY <1>2 DEF StepInput
  <2>2. Fresh(fbuf) /\ Fresh(pf)
    BY DEF IInv, BuffersFresh
  <2>3. Fresh(pf)'
    BY <1>2, <2>1, <2>2, ResponseFresh
    DEF StepInput, Cycle, FetchEdge, PfNext, Fresh, NoWord, Buffered
  <2>4. CASE DemandRsp(c) /\ ~if_discard_rsp
    <3>1. FetchPmpWord = IF if_state = "IF_SECOND_WAIT"
                         THEN NextWord[fetch_req_pc.word]
                         ELSE fetch_req_pc.word
      BY <2>4 DEF FetchPmpWord, DemandRsp, Waiting
    <3>2. fbuf' = Buffered(FetchPmpWord, c.data, RspErr(c))
      BY <1>2, <2>4, <3>1 DEF StepInput, Cycle, FetchEdge, FbufNext
    <3>3. QED BY <2>1, <2>3, <2>4, <3>2, ResponseFresh
              DEF BuffersFresh, Fresh, Buffered
  <2>5. CASE ~(DemandRsp(c) /\ ~if_discard_rsp)
    <3>1. fbuf' = fbuf \/ fbuf' = pf
      BY <1>2, <2>5 DEF StepInput, Cycle, FetchEdge, FbufNext
    <3>2. QED BY <2>1, <2>2, <2>3, <3>1 DEF BuffersFresh, Fresh
  <2>6. QED BY <2>4, <2>5
<1>3. QED BY <1>1, <1>2

LEMMA FetchingTheHeadStep ==
  ASSUME IInv, NEW c \in InputSet, StepInput(c)
  PROVE  FetchingTheHead'
<1>1. CASE c.flush # "none"
  BY <1>1 DEF StepInput, Cycle, FetchEdge, IfStateNext, DiscardNext,
              FetchingTheHead
<1>2. CASE c.flush = "none" /\ WordReady(c)
  <2>1. CASE Emits(Served(c))
    BY <1>2, <2>1 DEF StepInput, Cycle, FetchEdge, IfStateNext,
                      FetchingTheHead
  <2>2. CASE ~Emits(Served(c))
    <3>1. /\ Served(c).pc = fetch_pc
          /\ Served(c).data = fetch_pc.word
          /\ Served(c).err = Fault(fetch_pc.word, wb_priv)
      BY <1>2, ServedFresh
    <3>2. /\ ~Served(c).err
          /\ fetch_pc.hi
          /\ FirstHalf(Served(c)) \in wide
      BY <2>2, <3>1 DEF Emits
    <3>3. /\ FirstHalf(Served(c)) = fetch_pc
          /\ HighHalf(Served(c).data) = fetch_pc
      BY <3>1, <3>2 DEF FirstHalf, HighHalf, IInv, TypeOK, FetchTypeOK, PC
    <3>4. ~SecondRsp(c)
      BY <1>2 DEF SecondRsp, WordReady, ServeBuf
    <3>5. /\ if_state' = "IF_SECOND_REQ"
          /\ fetch_pc' = fetch_pc
          /\ fetch_req_pc' = fetch_pc
          /\ fetch_upper_hold' = fetch_pc
          /\ fetch_err_hold' = Served(c).err
      BY <1>2, <2>2, <3>1, <3>3, <3>4
      DEF StepInput, Cycle, FetchEdge, IfStateNext, FetchPcNext,
          FetchReqPcNext, UpperHoldNext, ErrHoldNext
    <3>6. wb_priv' = wb_priv /\ wide' = wide
      BY <1>2 DEF StepInput, Cycle
    <3>7. QED BY <3>1, <3>2, <3>3, <3>5, <3>6 DEF FetchingTheHead
  <2>3. QED BY <2>1, <2>2
<1>3. CASE c.flush = "none" /\ ~WordReady(c) /\ DemandRsp(c)
  BY <1>3 DEF StepInput, Cycle, FetchEdge, IfStateNext, FetchingTheHead
<1>4. CASE c.flush = "none" /\ ~WordReady(c) /\ ~DemandRsp(c)
  <2>1. ~SecondRsp(c)
    BY <1>4 DEF SecondRsp
  <2>2. /\ fetch_pc' = fetch_pc
        /\ fetch_upper_hold' = fetch_upper_hold
        /\ fetch_err_hold' = fetch_err_hold
        /\ wb_priv' = wb_priv
        /\ wide' = wide
        /\ if_discard_rsp' = (if_discard_rsp /\ ~DemandRsp(c))
    BY <1>4, <2>1
    DEF StepInput, Cycle, FetchEdge, FetchPcNext, UpperHoldNext, ErrHoldNext,
        DiscardNext
  <2>3. CASE DemandFire(c)
    <3>1. if_state = "IF_REQ" \/ if_state = "IF_SECOND_REQ"
      BY <2>3 DEF DemandFire, DemandReq
    <3>2. ~if_discard_rsp
      BY <3>1 DEF IInv, DiscardsAreOwed, Waiting
    <3>3. /\ if_state' = IF if_state = "IF_REQ" THEN "IF_WAIT"
                                                ELSE "IF_SECOND_WAIT"
          /\ fetch_req_pc' = IF if_state = "IF_REQ" THEN fetch_pc
                                                    ELSE fetch_req_pc
      BY <1>4, <2>1, <2>3
      DEF StepInput, Cycle, FetchEdge, IfStateNext, FetchReqPcNext
    <3>4. QED BY <2>2, <3>1, <3>2, <3>3 DEF IInv, FetchingTheHead
  <2>4. CASE ~DemandFire(c)
    <3>1. if_state' = if_state /\ fetch_req_pc' = fetch_req_pc
      BY <1>4, <2>1, <2>4
      DEF StepInput, Cycle, FetchEdge, IfStateNext, FetchReqPcNext
    <3>2. if_discard_rsp' = if_discard_rsp
      BY <1>4, <2>2 DEF IInv, TypeOK, FetchTypeOK
    <3>3. QED BY <2>2, <3>1, <3>2 DEF IInv, FetchingTheHead
  <2>5. QED BY <2>3, <2>4
<1>5. QED BY <1>1, <1>2, <1>3, <1>4

LEMMA RegisterFreeStep ==
  ASSUME IInv, NEW c \in InputSet, StepInput(c)
  PROVE  RegisterFree'
<1>1. CASE c.flush # "none"
  BY <1>1 DEF StepInput, Cycle, FetchEdge, IfIdNext, RegisterFree, Empty
<1>2. CASE c.flush = "none" /\ ServeBuf(c)
  <2>1. ~SecondRsp(c) /\ (~if_id.valid \/ c.take) /\ WordReady(c)
    BY <1>2 DEF SecondRsp, ServeBuf, CanAcceptFetch, WordReady
  <2>2. CASE Emits(Served(c))
    BY <1>2, <2>1, <2>2 DEF StepInput, Cycle, FetchEdge, IfStateNext,
                            RegisterFree
  <2>3. CASE ~Emits(Served(c))
    BY <1>2, <2>1, <2>3 DEF StepInput, Cycle, FetchEdge, IfIdNext,
                            RegisterFree, Empty
  <2>4. QED BY <2>2, <2>3
<1>3. CASE c.flush = "none" /\ ~ServeBuf(c) /\ DemandRsp(c)
  <2>1. CASE if_discard_rsp \/ SecondRsp(c)
    BY <1>3, <2>1 DEF StepInput, Cycle, FetchEdge, IfStateNext, WordReady,
                      SecondRsp, RegisterFree
  <2>2. CASE ~if_discard_rsp /\ ~SecondRsp(c)
    <3>1. ~if_id.valid /\ WordReady(c)
      BY <1>3, <2>2 DEF IInv, RegisterFree, DemandRsp, Waiting, SecondRsp,
                        WordReady
    <3>2. CASE Emits(Served(c))
      BY <1>3, <3>1, <3>2 DEF StepInput, Cycle, FetchEdge, IfStateNext,
                              RegisterFree
    <3>3. CASE ~Emits(Served(c))
      BY <1>3, <2>2, <3>1, <3>3 DEF StepInput, Cycle, FetchEdge, IfIdNext,
                                    RegisterFree
    <3>4. QED BY <3>2, <3>3
  <2>3. QED BY <2>1, <2>2
<1>4. CASE c.flush = "none" /\ ~ServeBuf(c) /\ ~DemandRsp(c)
  <2>1. ~WordReady(c) /\ ~SecondRsp(c)
    BY <1>4 DEF WordReady, SecondRsp
  <2>2. if_id' = IF c.take THEN Empty ELSE if_id
    BY <1>4, <2>1 DEF StepInput, Cycle, FetchEdge, IfIdNext
  <2>3. CASE DemandFire(c)
    BY <2>2, <2>3 DEF DemandFire, DemandReq, CanAcceptFetch, RegisterFree,
                      Empty
  <2>4. CASE ~DemandFire(c)
    <3>1. if_state' = if_state /\ if_discard_rsp' = if_discard_rsp
      BY <1>4, <2>1, <2>4 DEF StepInput, Cycle, FetchEdge, IfStateNext,
                              DiscardNext, IInv, TypeOK, FetchTypeOK
    <3>2. QED BY <2>2, <3>1 DEF IInv, RegisterFree, Empty
  <2>5. QED BY <2>3, <2>4
<1>5. QED BY <1>1, <1>2, <1>3, <1>4

(* priv_o follows one cycle behind; the flush of the cycle that changes    *)
(* the privilege marks what is outstanding.                                *)
LEMMA StalePrivDiscardedStep ==
  ASSUME IInv, NEW c \in InputSet, StepInput(c)
  PROVE  StalePrivDiscarded'
<1>. USE DEF IInv
<1>1. priv' = wb_priv
  BY DEF StepInput, Cycle
<1>2. CASE c.flush # "redirect"
  BY <1>1, <1>2 DEF StepInput, StalePrivDiscarded
<1>3. CASE c.flush = "redirect"
  <2>1. ~PfFire(c)
    BY <1>3 DEF PfFire, PfIssue, CanAcceptFetch
  <2>2. Waiting' => if_discard_rsp'
    BY <1>3 DEF StepInput, Cycle, FetchEdge, IfStateNext, DiscardNext,
                Waiting
  <2>3. pf_inflight'.valid => pf_discard'
    BY <1>3, <2>1 DEF StepInput, Cycle, FetchEdge, PfInflightNext,
                      PfDiscardNext, NoFlight
  <2>4. QED BY <2>2, <2>3 DEF StalePrivDiscarded
<1>4. QED BY <1>2, <1>3

LEMMA StepInv ==
  ASSUME IInv, [Next]_vars
  PROVE  IInv'
<1>1. CASE Next
  <2>1. PICK c \in InputSet : StepInput(c)
    BY <1>1, StepIsCycle DEF IInv
  <2>2. TypeOK' /\ HoldOK'
    BY <2>1, TypeStep DEF IInv
  <2>3. QED
    BY <2>1, <2>2, SingleOutstandingStep, BuffersFreshStep,
       DiscardsAreOwedStep, FetchingTheHeadStep, RegisterFreeStep,
       StalePrivDiscardedStep
    DEF IInv
<1>2. CASE UNCHANGED vars
  <2>1. TypeOK' /\ HoldOK'
    BY <1>2 DEF IInv, vars, fetchVars, TypeOK, FetchTypeOK, HoldOK
  <2>2. SingleOutstanding' /\ DiscardsAreOwed' /\ StalePrivDiscarded'
    BY <1>2 DEF IInv, vars, fetchVars, SingleOutstanding, DiscardsAreOwed,
                StalePrivDiscarded, Waiting
  <2>3. BuffersFresh' /\ FetchingTheHead' /\ RegisterFree'
    BY <1>2 DEF IInv, vars, fetchVars, BuffersFresh, Fresh, FetchingTheHead,
                RegisterFree
  <2>4. QED BY <2>1, <2>2, <2>3 DEF IInv
<1>3. QED BY <1>1, <1>2

-----------------------------------------------------------------------------
(***************************************************************************)
(* The inductive invariant holds of every reachable state.                 *)
(***************************************************************************)
THEOREM Inductive == Spec => []IInv
<1>1. Init => IInv
  BY InitInv
<1>2. IInv /\ [Next]_vars => IInv'
  BY StepInv
<1>3. QED BY <1>1, <1>2, PTL DEF Spec

(***************************************************************************)
(* Every register of the stage keeps its type; in particular the low half  *)
(* of a straddling instruction is there whenever its second half arrives.  *)
(***************************************************************************)
THEOREM TypeCorrect == Spec => []TypeOK
<1>1. IInv => TypeOK
  BY DEF IInv
<1>2. QED BY <1>1, Inductive, PTL

(***************************************************************************)
(* The I port has one transaction in flight and knows which, whatever the  *)
(* bus latency and the flushes.                                            *)
(***************************************************************************)
THEOREM OneTransaction == Spec => []SingleOutstanding
<1>1. IInv => SingleOutstanding
  BY DEF IInv
<1>2. QED BY <1>1, Inductive, PTL

(***************************************************************************)
(* Neither buffer ever holds a word of another place, or a fault bit taken *)
(* under the privilege of an abandoned path.                               *)
(***************************************************************************)
THEOREM NoStaleWord == Spec => []BuffersFresh
<1>1. IInv => BuffersFresh
  BY DEF IInv
<1>2. QED BY <1>1, Inductive, PTL

(***************************************************************************)
(* No discard flag outlives the response it was raised for.                *)
(***************************************************************************)
THEOREM NoStrayDiscard == Spec => []DiscardsAreOwed
<1>1. IInv => DiscardsAreOwed
  BY DEF IInv
<1>2. QED BY <1>1, Inductive, PTL

-----------------------------------------------------------------------------
(* The stage implements the in-order stream.                               *)

(* A word served from a response or a buffer gives the instruction memory  *)
(* holds at fetch_pc.                                                      *)
LEMMA SlotIsInstruction ==
  ASSUME IInv, NEW c \in InputSet, StepInput(c), WordReady(c),
         Emits(Served(c))
  PROVE  SlotOf(Served(c)) = InstructionAt(fetch_pc, wb_priv, wide)
<1> DEFINE u == Served(c)
<1>1. /\ u.pc = fetch_pc
      /\ u.data = fetch_pc.word
      /\ u.err = Fault(fetch_pc.word, wb_priv)
  BY ServedFresh
<1>2. Emits(u)
  OBVIOUS
<1> HIDE DEF u
<1>3. fetch_pc \in PC
  BY DEF IInv, TypeOK, FetchTypeOK
<1>4. FirstHalf(u) = fetch_pc
  BY <1>1, <1>3 DEF FirstHalf, PC
<1>5. ASSUME u.err
      PROVE  SlotOf(u) = InstructionAt(fetch_pc, wb_priv, wide)
  BY <1>1, <1>5 DEF SlotOf, InstructionAt, Fault
<1>6. ASSUME ~u.err, fetch_pc \notin wide
      PROVE  SlotOf(u) = InstructionAt(fetch_pc, wb_priv, wide)
  BY <1>1, <1>4, <1>6 DEF SlotOf, InstructionAt, Fault
<1>7. ASSUME ~u.err, fetch_pc \in wide
      PROVE  SlotOf(u) = InstructionAt(fetch_pc, wb_priv, wide)
  <2>1. ~fetch_pc.hi
    BY <1>1, <1>2, <1>4, <1>7 DEF Emits
  <2>2. LowHalf(u.data) = fetch_pc
    BY <1>1, <1>3, <2>1 DEF LowHalf, PC
  <2>3. Plus2(fetch_pc) = HighHalf(u.data) /\ Plus2(fetch_pc).word = fetch_pc.word
    BY <1>1, <1>3, <2>1 DEF Plus2, HighHalf, PC
  <2>4. QED BY <1>1, <1>4, <1>7, <2>2, <2>3 DEF SlotOf, InstructionAt, Fault
<1>8. QED BY <1>5, <1>6, <1>7 DEF u

(* So does the second half of a straddling instruction.                    *)
LEMMA StraddleIsInstruction ==
  ASSUME IInv, NEW c \in InputSet, StepInput(c), SecondRsp(c)
  PROVE  /\ StraddleSlot(c) = InstructionAt(fetch_pc, wb_priv, wide)
         /\ Plus4(fetch_req_pc) = NextPC(StraddleSlot(c))
<1>1. /\ fetch_req_pc = fetch_pc
      /\ fetch_upper_hold = fetch_pc
      /\ fetch_pc.hi
      /\ fetch_pc \in wide
      /\ ~Fault(fetch_pc.word, wb_priv)
      /\ ~fetch_err_hold
  BY DEF IInv, FetchingTheHead, SecondRsp
<1>2. /\ c.data = NextWord[fetch_pc.word]
      /\ RspErr(c) = Fault(NextWord[fetch_pc.word], wb_priv)
  BY <1>1, ResponseFresh DEF SecondRsp, FetchPmpWord
<1>3. /\ LowHalf(c.data) = Plus2(fetch_pc)
      /\ Plus2(fetch_pc).word = NextWord[fetch_pc.word]
  BY <1>1, <1>2 DEF Plus2, LowHalf
<1>4. StraddleSlot(c) = InstructionAt(fetch_pc, wb_priv, wide)
  <2>1. StraddleSlot(c) = Slot(fetch_pc, Long(fetch_pc, Plus2(fetch_pc)),
                               Fault(Plus2(fetch_pc).word, wb_priv))
    BY <1>1, <1>2, <1>3 DEF StraddleSlot, Fault
  <2>2. QED BY <1>1, <2>1 DEF InstructionAt
<1>5. NextPC(StraddleSlot(c)) = Plus4(fetch_req_pc)
  BY <1>1 DEF StraddleSlot, Slot, Long, NextPC
<1>6. QED BY <1>4, <1>5

LEMMA StreamStep ==
  ASSUME IInv, NEW c \in InputSet, StepInput(c)
  PROVE  Stream!Next
<1> USE DEF Stream!Next, Stream!Empty, Stream!PC, Stream!Priv, Stream!NextPC,
            Stream!Plus2, Stream!Plus4, Empty, PC, Priv, NextPC, Plus2, Plus4
<1>0. /\ taken' \in BOOLEAN
      /\ taken' = c.take
      /\ wide' = wide
  BY DEF StepInput, Cycle, InputSet
<1>1. CASE c.flush # "none"
  <2>1. /\ ~c.take
        /\ if_id' = Empty
        /\ fetch_pc' = c.target
        /\ wb_priv' \in Priv
    BY <1>1 DEF StepInput, Cycle, FetchEdge, IfIdNext, FetchPcNext, IInv,
                TypeOK
  <2>2. c.target \in PC
    BY DEF InputSet
  <2>3. Stream!Flush
    BY <1>0, <2>1, <2>2 DEF Stream!Flush
  <2>4. QED BY <1>0, <2>3
<1>2. CASE c.flush = "none" /\ (SecondRsp(c) \/ (WordReady(c) /\ Emits(Served(c))))
  <2>1. /\ if_id' = InstructionAt(fetch_pc, wb_priv, wide)
        /\ fetch_pc' = NextPC(if_id')
    <3>1. CASE SecondRsp(c)
      BY <1>2, <3>1, StraddleIsInstruction
      DEF StepInput, Cycle, FetchEdge, IfIdNext, FetchPcNext
    <3>2. CASE ~SecondRsp(c)
      BY <1>2, <3>2, SlotIsInstruction
      DEF StepInput, Cycle, FetchEdge, IfIdNext, FetchPcNext
    <3>3. QED BY <3>1, <3>2
  <2>2. ~if_id.valid \/ c.take
    <3>1. CASE ServeBuf(c)
      BY <3>1 DEF ServeBuf, CanAcceptFetch
    <3>2. CASE ~ServeBuf(c)
      BY <1>2, <3>2 DEF WordReady, SecondRsp, IInv, RegisterFree
    <3>3. QED BY <3>1, <3>2
  <2>3. Stream!Deliver
    <3>1. Stream!InstructionAt(fetch_pc, wb_priv, wide) =
          InstructionAt(fetch_pc, wb_priv, wide)
      BY DEF Stream!InstructionAt, InstructionAt, Stream!Fault, Fault,
             Stream!PmpAllow, PmpAllow, Stream!Slot, Slot, Stream!Long, Long,
             Stream!Short, Short, Stream!NopRaw, NopRaw
    <3>2. QED BY <1>0, <1>2, <2>1, <2>2, <3>1 DEF Stream!Deliver, StepInput
  <2>4. QED BY <1>0, <2>3
<1>3. CASE c.flush = "none" /\ ~SecondRsp(c) /\ ~(WordReady(c) /\ Emits(Served(c)))
  <2>1. /\ if_id' = IF c.take THEN Empty ELSE if_id
        /\ fetch_pc' = fetch_pc
        /\ wb_priv' = wb_priv
    BY <1>3 DEF StepInput, Cycle, FetchEdge, IfIdNext, FetchPcNext
  <2>2. CASE c.take
    BY <1>0, <2>1, <2>2 DEF StepInput, Stream!Take
  <2>3. CASE ~c.take
    BY <1>0, <2>1, <2>3 DEF Stream!Wait
  <2>4. QED BY <2>2, <2>3
<1>4. QED BY <1>1, <1>2, <1>3

(***************************************************************************)
(* Whatever the bus, the buffers and the flushes do, ID receives the       *)
(* program from the last redirect target on, each instruction once, in     *)
(* order, under the right privilege: the stage implements FetchStream, for *)
(* every address space, program and bus latency.                           *)
(***************************************************************************)
THEOREM Refinement == Spec => ImplementsStream
<1>1. Init => Stream!Init
  BY FetchUnitAssumption DEF Init, FetchInit, Stream!Init, Stream!PC, PC,
                             Stream!Empty, Empty
<1>2. IInv /\ [Next]_vars => [Stream!Next]_(Stream!vars)
  <2>1. ASSUME IInv, Next
        PROVE  Stream!Next
    <3>1. PICK c \in InputSet : StepInput(c)
      BY <2>1, StepIsCycle DEF IInv
    <3>2. QED BY <2>1, <3>1, StreamStep
  <2>2. UNCHANGED vars => UNCHANGED Stream!vars
    BY DEF vars, fetchVars, Stream!vars
  <2>3. QED BY <2>1, <2>2
<1>3. QED BY <1>1, <1>2, Inductive, PTL DEF Spec, ImplementsStream, Stream!Spec
=============================================================================
