-------------------------------- MODULE Plic --------------------------------
(***************************************************************************)
(* sisPlic: level gateways, priorities, enables, a threshold, and one      *)
(* claim in service at a time, behind a corebus port.  Window is the set   *)
(* of registers the address decode lets through: addr_match compares the   *)
(* upper half of the address with the base, which leaves out threshold and *)
(* claim; the copy of this PLIC in sisAxiLiteSlave decodes the whole 4 MB. *)
(***************************************************************************)
EXTENDS Integers, FiniteSetsExt

CONSTANTS NUM_SOURCES, Prio, Window

Registers == {"priority", "pending", "enable", "threshold", "claim"}

ASSUME PlicAssumption ==
  /\ NUM_SOURCES \in Nat \ {0}
  /\ Prio \subseteq Nat
  /\ {0, 1} \subseteq Prio
  /\ Window \subseteq Registers

Sources == 1 .. NUM_SOURCES

VARIABLES
  irq_prio, gateway_pending, enabled, threshold,
  claimed_id, claim_active,
  pending, rdata_reg

plicVars == << irq_prio, gateway_pending, enabled, threshold, claimed_id,
               claim_active, pending, rdata_reg >>

PlicTypeOK ==
  /\ irq_prio \in [Sources -> Prio]
  /\ gateway_pending \subseteq Sources
  /\ enabled \subseteq Sources
  /\ threshold \in Prio
  /\ claimed_id \in {0} \cup Sources
  /\ claim_active \in BOOLEAN
  /\ pending \in BOOLEAN
  /\ rdata_reg \in Nat

PlicInit ==
  /\ irq_prio = [i \in Sources |-> 1]
  /\ gateway_pending = {}
  /\ enabled = {}
  /\ threshold = 0
  /\ claimed_id = 0
  /\ claim_active = FALSE
  /\ pending = FALSE
  /\ rdata_reg = 0

NoAccess          == [valid |-> FALSE]
Load(reg)         == [valid |-> TRUE, we |-> FALSE, reg |-> reg]
LoadPriority(i)   == [valid |-> TRUE, we |-> FALSE, reg |-> "priority", id |-> i]
SetPriority(i, v) == [valid |-> TRUE, we |-> TRUE, reg |-> "priority", id |-> i,
                      value |-> v]
SetEnable(S)      == [valid |-> TRUE, we |-> TRUE, reg |-> "enable", set |-> S]
SetThreshold(v)   == [valid |-> TRUE, we |-> TRUE, reg |-> "threshold",
                      value |-> v]
Complete(i)       == [valid |-> TRUE, we |-> TRUE, reg |-> "claim", id |-> i]

Eligible(i) == i \in enabled \cap gateway_pending /\ irq_prio[i] > threshold

(* Variant: the first eligible source wins.                                *)
WinnerFirst ==
  IF \E i \in Sources : Eligible(i) THEN Min({i \in Sources : Eligible(i)})
                                    ELSE 0

(* The loop over the sources, from the last to the first; a source of      *)
(* priority 0 never wins.                                                  *)
BestPrio(i) == IF i = 0 THEN 0 ELSE irq_prio[i]

Best[i \in 1 .. NUM_SOURCES + 1] ==
  IF i = NUM_SOURCES + 1 THEN 0
  ELSE IF Eligible(i) /\ irq_prio[i] > BestPrio(Best[i + 1]) THEN i
  ELSE Best[i + 1]

Winner == Best[1]

(* Variant: meip is also raised while a claim is in service.               *)
MeipReentrant == Winner # 0

Meip == Winner # 0 /\ ~claim_active

ReqReady(rsp_ready) == ~pending \/ rsp_ready

Hits(req)      == req.reg \in Window
Claims(req)    == ~req.we /\ req.reg = "claim" /\ Hits(req)
(* Variant: only the source that would win now can be completed.           *)
CompletesWinner(req) ==
  /\ req.we /\ req.reg = "claim" /\ Hits(req)
  /\ claim_active /\ req.id = Winner

Completes(req) ==
  /\ req.we /\ req.reg = "claim" /\ Hits(req)
  /\ claim_active /\ req.id = claimed_id

(* Variant: completing wins over a line that is still high.                *)
GatewayNextClear(src, accept, req) ==
  (gateway_pending \cup src)
    \ (IF accept /\ Completes(req) THEN {claimed_id} ELSE {})

(* Variant: pending is cleared by the claim.                               *)
GatewayNextClaim(src, accept, req) ==
  (IF accept /\ Claims(req) THEN gateway_pending \ {Winner}
                            ELSE gateway_pending) \cup src

GatewayNext(src, accept, req) ==
  (IF accept /\ Completes(req) THEN gateway_pending \ {claimed_id}
                               ELSE gateway_pending) \cup src

(* Bit 0 of the register holds source 1.                                   *)
Bits(S) == MapThenSumSet(LAMBDA i : 2 ^ (i - 1), S)

ReadData(req) ==
  IF ~Hits(req) THEN 0
  ELSE CASE req.reg = "pending"    -> Bits(gateway_pending)
         [] req.reg = "enable"     -> Bits(enabled)
         [] req.reg = "threshold"  -> threshold
         [] req.reg = "priority"   -> irq_prio[req.id]
         [] req.reg = "claim"      -> IF ~claim_active /\ Winner # 0 THEN Winner
                                                                     ELSE claimed_id

WritesTo(req, reg) == req.we /\ req.reg = reg /\ Hits(req)

(* The edge with a request, or NoAccess, on the port.                      *)
PlicEdge(src, req, rsp_ready) ==
  LET accept == req.valid /\ ReqReady(rsp_ready)
  IN  /\ gateway_pending' = GatewayNext(src, accept, req)
      /\ pending' = IF accept THEN TRUE ELSE pending /\ ~rsp_ready
      /\ enabled' = IF accept /\ WritesTo(req, "enable") THEN req.set
                                                         ELSE enabled
      /\ threshold' = IF accept /\ WritesTo(req, "threshold") THEN req.value
                                                              ELSE threshold
      /\ irq_prio' = IF accept /\ WritesTo(req, "priority")
                       THEN [irq_prio EXCEPT ![req.id] = req.value]
                       ELSE irq_prio
      /\ claim_active' = IF accept /\ Claims(req) /\ Winner # 0 THEN TRUE
                         ELSE IF accept /\ Completes(req) THEN FALSE
                         ELSE claim_active
      /\ claimed_id' = IF accept /\ Claims(req) /\ ~claim_active /\ Winner # 0
                         THEN Winner ELSE claimed_id
      /\ rdata_reg' = IF accept /\ (~req.we \/ ~Hits(req)) THEN ReadData(req)
                                                           ELSE rdata_reg
=============================================================================
