---------------------------- MODULE PlicService -----------------------------
(***************************************************************************)
(* A hart that serves external interrupts through the PLIC the way the     *)
(* handler of test_plic_irq.S does: claim, serve the device, complete.     *)
(* Outside the handler it may reconfigure or read the PLIC.  Each of its   *)
(* accesses is a corebus transaction; any number of cycles may pass        *)
(* between its steps.  The interrupt lines of Level sources stay high      *)
(* until the device is served, those of the others come and go.            *)
(***************************************************************************)
EXTENDS Plic

CONSTANTS Level

ASSUME ServiceAssumption == Level \subseteq Sources

VARIABLES
  line,     \* plic_irq_mux
  hart,     \* "main" or the step of the handler
  hid,      \* x9: the id the handler claimed
  wait,     \* the hart waits for the response of its access
  wanted    \* history: the sources raised and not served since

vars == << plicVars, line, hart, hid, wait, wanted >>

TypeOK ==
  /\ PlicTypeOK
  /\ line \subseteq Sources
  /\ hart \in {"main", "claim", "serve", "complete"}
  /\ hid \in {0} \cup Sources
  /\ wait \in BOOLEAN
  /\ wanted \subseteq Sources

Init ==
  /\ PlicInit
  /\ line = {}
  /\ hart = "main"
  /\ hid = 0
  /\ wait = FALSE
  /\ wanted = {}

(* The lines after a cycle in which the devices in served were served.     *)
LinesNext(served) ==
  /\ line' \in SUBSET Sources
  /\ (line \cap Level) \ served \subseteq line'
  /\ wanted' = (wanted \ served) \cup (line' \ (line \ served))

Configurations ==
  {SetEnable(S) : S \in SUBSET Sources}
    \cup {SetThreshold(v) : v \in Prio}
    \cup {SetPriority(i, v) : i \in Sources, v \in Prio}

Inspections ==
  {Load(reg) : reg \in {"pending", "enable", "threshold"}}
    \cup {LoadPriority(i) : i \in Sources}

(* A cycle in which the hart puts req on the bus, and one in which it      *)
(* takes the response.                                                     *)
Asks(req) ==
  /\ ~wait /\ ReqReady(FALSE)
  /\ PlicEdge(line, req, FALSE)
  /\ wait' = TRUE
  /\ LinesNext({})

Hears ==
  /\ wait /\ pending
  /\ PlicEdge(line, NoAccess, TRUE)
  /\ wait' = FALSE
  /\ LinesNext({})

Idle ==
  /\ PlicEdge(line, NoAccess, FALSE)
  /\ LinesNext({})
  /\ UNCHANGED << hart, hid, wait >>

Configure ==
  /\ hart = "main"
  /\ \E req \in Configurations \cup Inspections : Asks(req)
  /\ UNCHANGED << hart, hid >>

Configured ==
  /\ hart = "main"
  /\ Hears
  /\ UNCHANGED << hart, hid >>

(* The hart takes the interrupt.                                           *)
Trap ==
  /\ hart = "main" /\ ~wait /\ Meip
  /\ hart' = "claim"
  /\ PlicEdge(line, NoAccess, FALSE)
  /\ LinesNext({})
  /\ UNCHANGED << hid, wait >>

Claim ==
  /\ hart = "claim"
  /\ Asks(Load("claim"))
  /\ UNCHANGED << hart, hid >>

Claimed ==
  /\ hart = "claim"
  /\ Hears
  /\ hid' = rdata_reg
  /\ hart' = "serve"

Serve ==
  /\ hart = "serve"
  /\ hart' = "complete"
  /\ PlicEdge(line, NoAccess, FALSE)
  /\ LinesNext({hid})
  /\ UNCHANGED << hid, wait >>

Finish ==
  /\ hart = "complete"
  /\ Asks(Complete(hid))
  /\ UNCHANGED << hart, hid >>

Finished ==
  /\ hart = "complete"
  /\ Hears
  /\ hart' = "main"
  /\ UNCHANGED hid

Next ==
  \/ Idle \/ Configure \/ Configured \/ Trap
  \/ Claim \/ Claimed \/ Serve \/ Finish \/ Finished

Spec == Init /\ [][Next]_vars

(* Fairness: the clock runs, the bus answers, the handler is executed    *)
(* once entered, and a hart that could take the interrupt again and again  *)
(* takes it in the end.                                                    *)
Handling == Claim \/ Claimed \/ Serve \/ Finish \/ Finished

FairSpec ==
  /\ Spec /\ WF_vars(Next)
  /\ WF_vars(Configured) /\ WF_vars(Handling) /\ SF_vars(Trap)

-----------------------------------------------------------------------------
(* Properties.                                                             *)

(* What the handler claims is a device that asked: it is never sent after  *)
(* id 0, an id left over from the last claim or a request served before.   *)
ClaimIsReal == hart = "serve" => hid \in wanted

(* No request is dropped (sisPlic.sv:56): a source leaves its gateway only *)
(* when the handler that claimed and served it completes it and its line   *)
(* is down; a level source raised again since stays for the next claim.    *)
(* Claim, service and completion are steps of the hart, any number of      *)
(* cycles apart; the lines move between them.                              *)
RequestsKept ==
  [][\A i \in gateway_pending \ gateway_pending' :
       /\ hart = "complete" /\ hid = i
       /\ i \notin line
       /\ i \in Level => i \notin wanted]_vars

(* A claim takes one of the pending, enabled sources above the threshold,  *)
(* and none of higher priority is left behind.                             *)
HighestServed ==
  [][claim_active' /\ ~claim_active =>
       LET asking == {i \in Sources : /\ i \in enabled /\ i \in gateway_pending
                                      /\ irq_prio[i] > threshold}
       IN  /\ claimed_id' \in asking
           /\ \A i \in asking : irq_prio[i] <= irq_prio[claimed_id']]_vars

(* meip goes away by a claim or a reconfiguration only, never by itself:   *)
(* the hart that traps finds something to claim.                           *)
MeipStable ==
  [][Meip /\ ~Meip' => \/ claim_active'
                       \/ << irq_prio, enabled, threshold >>'
                            # << irq_prio, enabled, threshold >>]_vars

(* A level source that outranks every other enabled one is served.         *)
Outranks(i) ==
  /\ i \in enabled /\ irq_prio[i] > threshold
  /\ \A j \in enabled \ {i} : irq_prio[j] < irq_prio[i]

Served ==
  \A i \in Level :
    i \in line /\ Outranks(i) ~> (hart = "serve" /\ hid = i) \/ ~Outranks(i)
=============================================================================
