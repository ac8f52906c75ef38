------------------------------ MODULE FetchUnit ------------------------------
(***************************************************************************)
(* The IF stage in its surroundings: the instruction bus that answers it,  *)
(* and as much of ID, EX and WB as decides when the stage is flushed and   *)
(* when the privilege it checks against changes.  One step is one clock.   *)
(*                                                                         *)
(* The instruction bus takes one request at a time and answers after any   *)
(* number of cycles, at least one.  With Overlap it can take the next      *)
(* request in the very cycle its answer is consumed, as sisRom does        *)
(* (req_ready = !pending || rsp_ready); without, it is the arbiter of the  *)
(* AXI build, which first returns to idle.                                 *)
(***************************************************************************)
EXTENDS FetchStage

CONSTANTS
  ResetVector,  \* fetch_pc after reset
  Programs,     \* the programs considered: subsets of PC
  Overlap,      \* the bus accepts a request while it delivers a response
  Halts         \* a debugger may halt and resume the core

ASSUME FetchUnitAssumption ==
  /\ ResetVector \in PC
  /\ Programs \subseteq SUBSET PC
  /\ Overlap \in BOOLEAN
  /\ Halts \in BOOLEAN

VARIABLES
  ibus,      \* the request the instruction bus has accepted and not answered
  ex_valid,  \* EX holds an instruction
  wb_valid,  \* WB holds an instruction
  wb_priv,   \* priv once the instruction in WB has taken effect
  taken      \* id_to_ex_fire of the last cycle

vars == << wide, priv, fetchVars, ibus, ex_valid, wb_valid, wb_priv, taken >>

TypeOK ==
  /\ FetchTypeOK
  /\ ibus \in FlightSet
  /\ ex_valid \in BOOLEAN
  /\ wb_valid \in BOOLEAN
  /\ wb_priv \in Priv
  /\ taken \in BOOLEAN

Init ==
  /\ wide \in Programs
  /\ priv = "M"
  /\ FetchInit(ResetVector)
  /\ ibus = NoFlight
  /\ ex_valid = FALSE
  /\ wb_valid = FALSE
  /\ wb_priv = "M"
  /\ taken = FALSE

(* What the bus may do in a cycle.                                         *)
BusCan(ready, rsp) ==
  /\ rsp => ibus.valid
  /\ ready => ~ibus.valid \/ (Overlap /\ rsp /\ RspReady)

(* The word a response carries; the bus returns what it was asked for.     *)
Answer == IF ibus.valid THEN ibus.word ELSE fetch_req_pc.word

Cycle(c) ==
  /\ FetchEdge(c)
  /\ ibus' = IF ReqValid(c) /\ c.ready THEN InFlight(ReqWord(c))
             ELSE IF c.rsp /\ RspReady THEN NoFlight ELSE ibus
  /\ taken' = c.take
  /\ priv' = wb_priv
  /\ UNCHANGED wide

(* A cycle without flush.  An instruction that leaves EX this way changes  *)
(* no privilege; ID may refill EX in the same cycle.                       *)
Advance(run, take, leave, ready, rsp) ==
  /\ run \/ Halts
  /\ BusCan(ready, rsp)
  /\ leave => ex_valid
  /\ take => run /\ if_id.valid /\ (~ex_valid \/ leave)
  /\ Cycle([run |-> run, flush |-> "none", target |-> fetch_pc,
            take |-> take, ready |-> ready, rsp |-> rsp,
            data |-> Answer, buserr |-> Answer \in BadWords])
  /\ ex_valid' = (take \/ (ex_valid /\ ~leave))
  /\ wb_valid' = leave
  /\ UNCHANGED wb_priv

(* The instruction in EX redirects fetch: jump, taken branch, trap,        *)
(* interrupt or MRET.  The last three change the privilege, one cycle      *)
(* later, from WB.                                                         *)
Redirect(target, p, rsp) ==
  /\ ex_valid
  /\ BusCan(FALSE, rsp)
  /\ Cycle([run |-> TRUE, flush |-> "redirect", target |-> target,
            take |-> FALSE, ready |-> FALSE, rsp |-> rsp,
            data |-> Answer, buserr |-> Answer \in BadWords])
  /\ ex_valid' = FALSE
  /\ wb_valid' = TRUE
  /\ wb_priv' = p

(* A single-stepped instruction retires in WB: everything behind it is     *)
(* dropped and fetch restarts after it.                                    *)
StepStop(target, rsp) ==
  /\ wb_valid
  /\ BusCan(FALSE, rsp)
  /\ Cycle([run |-> TRUE, flush |-> "stop", target |-> target,
            take |-> FALSE, ready |-> FALSE, rsp |-> rsp,
            data |-> Answer, buserr |-> Answer \in BadWords])
  /\ ex_valid' = FALSE
  /\ wb_valid' = FALSE
  /\ UNCHANGED wb_priv

Next ==
  \/ \E run, take, leave, ready, rsp \in BOOLEAN :
        Advance(run, take, leave, ready, rsp)
  \/ \E target \in PC, p \in Priv, rsp \in BOOLEAN : Redirect(target, p, rsp)
  \/ \E target \in PC, rsp \in BOOLEAN : StepStop(target, rsp)

Spec == Init /\ [][Next]_vars

(***************************************************************************)
(* Fairness.  The clock never stops, a debugger that halts the core lets   *)
(* it go again, and the bus neither refuses nor delays for ever: a cycle   *)
(* in which the core runs, the bus answers what is outstanding and accepts *)
(* a request when it is idle keeps happening.  Whether it also accepts one *)
(* in the cycle of an answer is left to it.                                *)
(***************************************************************************)
Responsive ==
  \E take, leave, ready \in BOOLEAN :
    /\ ~ibus.valid => ready
    /\ Advance(TRUE, take, leave, ready, ibus.valid)

FairSpec == Spec /\ WF_vars(Responsive)

-----------------------------------------------------------------------------
(***************************************************************************)
(* "Single-outstanding is preserved (at most one of {demand, prefetch} in  *)
(* flight)": the demand FSM never waits while a prefetch is in flight, and *)
(* the request the bus works on is the one the stage waits for.  Response  *)
(* routing (pf_rsp_fire, if_rsp_fire) and the shared PMP port rest on it.  *)
(***************************************************************************)
SingleOutstanding ==
  /\ ~(Waiting /\ pf_inflight.valid)
  /\ ibus.valid <=> (Waiting \/ pf_inflight.valid)
  /\ if_state = "IF_WAIT" /\ ~if_discard_rsp => ibus.word = fetch_pc.word
  /\ if_state = "IF_SECOND_WAIT" /\ ~if_discard_rsp
       => ibus.word = NextWord[fetch_pc.word]
  /\ pf_inflight.valid => ibus.word = pf_inflight.word

(***************************************************************************)
(* A buffered or prefetched word is the word of memory it is filed under,  *)
(* and its fault bit is the one the privilege of the coming instructions   *)
(* gives: no flush, discard or promotion leaves a stale one behind.        *)
(***************************************************************************)
Fresh(buf) ==
  buf.valid => /\ buf.data = buf.word
               /\ buf.err = Fault(buf.word, wb_priv)

BuffersFresh == Fresh(fbuf) /\ Fresh(pf)

(***************************************************************************)
(* A discard flag is only ever up while the response it is meant for is    *)
(* outstanding; left up, it would swallow a response of the new path.      *)
(***************************************************************************)
DiscardsAreOwed ==
  /\ if_discard_rsp => Waiting
  /\ pf_discard => pf_inflight.valid

(***************************************************************************)
(* The inductive strengthening of the three invariants above: what the     *)
(* demand FSM is fetching and holding, that the IF/ID register is free for *)
(* it, and that in the one cycle in which the privilege of the new path    *)
(* has not reached priv_o yet every response still outstanding is marked   *)
(* to be dropped.                                                          *)
(***************************************************************************)
HoldOK ==
  if_state \in {"IF_SECOND_REQ", "IF_SECOND_WAIT"} /\ ~if_discard_rsp
    => fetch_upper_hold \in PC

FetchingTheHead ==
  /\ if_state = "IF_WAIT" /\ ~if_discard_rsp => fetch_req_pc = fetch_pc
  /\ if_state \in {"IF_SECOND_REQ", "IF_SECOND_WAIT"} /\ ~if_discard_rsp
       => /\ fetch_req_pc = fetch_pc
          /\ fetch_upper_hold = fetch_pc
          /\ fetch_pc.hi
          /\ fetch_pc \in wide
          /\ ~Fault(fetch_pc.word, wb_priv)
          /\ ~fetch_err_hold

RegisterFree == if_state # "IF_REQ" /\ ~if_discard_rsp => ~if_id.valid

StalePrivDiscarded ==
  priv # wb_priv => /\ Waiting => if_discard_rsp
                    /\ pf_inflight.valid => pf_discard

IInv ==
  /\ TypeOK
  /\ HoldOK
  /\ SingleOutstanding
  /\ BuffersFresh
  /\ DiscardsAreOwed
  /\ FetchingTheHead
  /\ RegisterFree
  /\ StalePrivDiscarded

(***************************************************************************)
(* The stage implements the in-order instruction stream: whatever the bus, *)
(* the buffers and the flushes do, ID sees the program from the last       *)
(* redirect target on, each instruction once, under the right privilege.   *)
(***************************************************************************)
Stream == INSTANCE FetchStream
            WITH next_pc <- fetch_pc, mode <- wb_priv, slot <- if_id

ImplementsStream == Stream!Spec

(***************************************************************************)
(* Fetch never wedges: whenever the IF/ID register is empty an instruction *)
(* arrives in it, also after flushes that caught requests in flight.       *)
(***************************************************************************)
FetchProgress == ~if_id.valid ~> if_id.valid
=============================================================================
