----------------------------- MODULE PlicProofs -----------------------------
(***************************************************************************)
(* The interrupt controller with any number of sources, priorities and     *)
(* lines, and a hart that serves it: what the winner loop computes, that   *)
(* claims are real, and what a step may not do.                            *)
(***************************************************************************)
EXTENDS PlicService, WellFoundedInduction, TLAPS

-----------------------------------------------------------------------------
(* Induction downwards over the sources.  The induction theorems of the    *)
(* library have an operator as a parameter; the well-foundedness of the    *)
(* natural numbers, which they rest on, is about sets.                     *)

(* A set of natural numbers that is not empty has a least element.         *)
LEMMA LeastElement ==
  ASSUME NEW T, T \subseteq Nat, T # {}
  PROVE  \E n \in T : \A m \in T : n <= m
<1>1. PICK n \in T : \A m \in T : <<m, n>> \notin OpToRel(<, Nat)
  BY NatLessThanWellFounded, WFMin
<1>2. \A m \in T : m \in Nat /\ n \in Nat /\ <<m, n>> \in Nat \X Nat
  BY <1>1
<1>3. \A m \in T : ~(m < n)
  BY <1>1, <1>2 DEF OpToRel
<1>4. \A m \in T : n <= m
  BY <1>2, <1>3
<1>5. QED BY <1>4

(* What holds of 0, and of n + 1 when it holds of n, holds of every n.     *)
LEMMA Induction ==
  ASSUME NEW S, 0 \in S, \A n \in Nat : n \in S => n + 1 \in S
  PROVE  \A n \in Nat : n \in S
<1> DEFINE T == {n \in Nat : n \notin S}
<1>1. SUFFICES ASSUME T # {} PROVE FALSE
  OBVIOUS
<1>2. PICK n \in T : \A m \in T : n <= m
  BY <1>1, LeastElement
<1>3. n \in Nat /\ n \notin S
  OBVIOUS
<1>4. n - 1 \in Nat /\ (n - 1) + 1 = n
  BY <1>3
<1>5. n - 1 \in S
  BY <1>2, <1>4
<1>6. QED BY <1>3, <1>4, <1>5

-----------------------------------------------------------------------------
(* The winner loop.                                                        *)

LEMMA SourceCount == NUM_SOURCES \in Nat /\ NUM_SOURCES >= 1
  BY PlicAssumption

Scan(f, i) ==
  IF i = NUM_SOURCES + 1 THEN 0
  ELSE IF Eligible(i) /\ irq_prio[i] > BestPrio(f[i + 1]) THEN i
  ELSE f[i + 1]

Suffix(n) == NUM_SOURCES + 1 - n .. NUM_SOURCES + 1

(* The results of the last n + 1 steps of the scan.                        *)
Scanned(f, n) ==
  /\ f = [i \in Suffix(n) |-> f[i]]
  /\ \A i \in Suffix(n) : f[i] = Scan(f, i)

LEMMA ScanExists ==
  ASSUME NEW k \in Nat, k <= NUM_SOURCES
  PROVE  \E f : Scanned(f, k)
<1> DEFINE S == {n \in Nat : n <= NUM_SOURCES => \E f : Scanned(f, n)}
<1> USE SourceCount DEF Suffix, Scanned
<1>1. 0 \in S
  <2> DEFINE f == [i \in Suffix(0) |-> 0]
  <2>1. \A i \in Suffix(0) : i = NUM_SOURCES + 1
    OBVIOUS
  <2>2. Scanned(f, 0)
    BY <2>1 DEF Scan
  <2>3. QED BY <2>2
<1>2. ASSUME NEW n \in Nat, n \in S PROVE n + 1 \in S
  <2>1. SUFFICES ASSUME n + 1 <= NUM_SOURCES PROVE \E g : Scanned(g, n + 1)
    OBVIOUS
  <2>2. PICK f : Scanned(f, n)
    BY <1>2, <2>1
  <2> DEFINE top == NUM_SOURCES - n
             g == [i \in Suffix(n + 1) |-> IF i = top THEN Scan(f, top) ELSE f[i]]
  <2>3. top \in Suffix(n + 1) /\ top # NUM_SOURCES + 1 /\ top + 1 \in Suffix(n)
    BY <2>1
  <2>4. \A i \in Suffix(n + 1) : i = top \/ (i \in Suffix(n) /\ i # top)
    BY <2>1
  <2>5. \A i \in Suffix(n) : i \in Suffix(n + 1) /\ i # top /\ g[i] = f[i]
    BY <2>1
  <2>6. \A i \in Suffix(n) : i # NUM_SOURCES + 1 => i + 1 \in Suffix(n)
    BY <2>1
  <2>7. \A i \in Suffix(n) : f[i] = Scan(f, i)
    BY <2>2 DEF Scanned
  <2>8. ASSUME NEW i \in Suffix(n + 1) PROVE g[i] = Scan(g, i)
    <3>1. CASE i = top
      <4>1. g[top + 1] = f[top + 1]
        BY <2>3, <2>5
      <4>2. g[top] = Scan(f, top)
        BY <2>3
      <4>3. Scan(g, top) = Scan(f, top)
        BY <4>1 DEF Scan
      <4>4. QED BY <3>1, <4>2, <4>3
    <3>2. CASE i \in Suffix(n)
      <4>1. g[i] = f[i] /\ f[i] = Scan(f, i)
        BY <2>5, <2>7, <3>2
      <4>2. i # NUM_SOURCES + 1 => g[i + 1] = f[i + 1]
        BY <2>5, <2>6, <3>2
      <4>3. Scan(g, i) = Scan(f, i)
        BY <4>2 DEF Scan
      <4>4. QED BY <4>1, <4>3
    <3>3. QED BY <2>4, <3>1, <3>2
  <2>9. g = [i \in Suffix(n + 1) |-> g[i]]
    OBVIOUS
  <2>10. Scanned(g, n + 1)
    BY <2>8, <2>9 DEF Scanned
  <2>11. QED BY <2>10
<1> HIDE DEF S
<1>3. \A n \in Nat : n \in S
  BY <1>1, <1>2, Induction
<1>4. QED BY <1>3 DEF S

(* The loop computes each step from the one before.                        *)
LEMMA BestIsScan ==
  \A i \in 1 .. NUM_SOURCES + 1 : Best[i] = Scan(Best, i)
<1> DEFINE Loop(f) == f = [i \in 1 .. NUM_SOURCES + 1 |-> Scan(f, i)]
<1>1. PICK f : Scanned(f, NUM_SOURCES)
  BY SourceCount, ScanExists
<1>2. Suffix(NUM_SOURCES) = 1 .. NUM_SOURCES + 1
  BY SourceCount DEF Suffix
<1>3. Loop(f)
  BY <1>1, <1>2 DEF Scanned
<1>4. Best = CHOOSE b : Loop(b)
  BY DEF Best, Scan
<1>5. Loop(Best)
  BY <1>3, <1>4
<1>6. QED BY <1>5
(* The source w wins over j: a priority as high, the last one if equal.    *)
Outdoes(w, j) ==
  /\ irq_prio[j] <= irq_prio[w]
  /\ irq_prio[j] = irq_prio[w] => j <= w

(* After the sources from i upwards: the best of the eligible ones, the    *)
(* last of those of equal priority.                                        *)
BestFrom(i) ==
  /\ Best[i] = 0 => \A j \in i .. NUM_SOURCES : ~Eligible(j)
  /\ Best[i] # 0 =>
       /\ Best[i] \in i .. NUM_SOURCES
       /\ Eligible(Best[i])
       /\ \A j \in i .. NUM_SOURCES :
            Eligible(j) => Outdoes(Best[i], j)

Settings ==
  /\ irq_prio \in [Sources -> Prio]
  /\ threshold \in Prio

LEMMA BestStep ==
  ASSUME Settings, NEW i \in Sources, BestFrom(i + 1)
  PROVE  BestFrom(i)
<1> USE SourceCount
<1>1. i \in Nat /\ i >= 1 /\ i <= NUM_SOURCES
  BY DEF Sources
<1>2. Best[i] = Scan(Best, i) /\ i # NUM_SOURCES + 1
  BY <1>1, BestIsScan
<1>3. \A j \in i .. NUM_SOURCES : j \in Sources /\ (j = i \/ j \in i + 1 .. NUM_SOURCES)
  BY <1>1 DEF Sources
<1>4. \A j \in Sources : irq_prio[j] \in Nat
  BY PlicAssumption DEF Settings
<1>5. threshold \in Nat
  BY PlicAssumption DEF Settings
<1>6. Best[i + 1] # 0 => Best[i + 1] \in Sources /\ Best[i + 1] \in i .. NUM_SOURCES
  BY <1>1 DEF BestFrom, Sources
<1>7. CASE Eligible(i) /\ irq_prio[i] > BestPrio(Best[i + 1])
  <2>1. Best[i] = i
    BY <1>2, <1>7 DEF Scan
  <2>2. ASSUME NEW j \in i + 1 .. NUM_SOURCES, Eligible(j)
        PROVE  irq_prio[j] < irq_prio[i]
    <3>1. Best[i + 1] # 0 /\ irq_prio[j] <= irq_prio[Best[i + 1]]
      BY <2>2 DEF BestFrom, Outdoes
    <3>2. irq_prio[Best[i + 1]] < irq_prio[i]
      BY <1>7, <3>1, <1>4, <1>6 DEF BestPrio
    <3>3. j \in Sources
      BY <1>1 DEF Sources
    <3>4. QED BY <1>4, <1>6, <3>1, <3>2, <3>3
  <2>3. QED BY <1>1, <1>3, <1>4, <1>7, <2>1, <2>2 DEF BestFrom, Outdoes
<1>8. CASE ~(Eligible(i) /\ irq_prio[i] > BestPrio(Best[i + 1]))
  <2>1. Best[i] = Best[i + 1]
    BY <1>2, <1>8 DEF Scan
  <2>2. CASE Best[i + 1] = 0
    <3>1. ~Eligible(i)
      BY <1>8, <1>4, <1>5, <2>2 DEF BestPrio, Eligible
    <3>2. QED BY <1>3, <2>1, <2>2, <3>1 DEF BestFrom
  <2>3. CASE Best[i + 1] # 0
    <3>1. Eligible(i) => irq_prio[i] <= irq_prio[Best[i + 1]]
      BY <1>8, <1>4, <1>6, <2>3 DEF BestPrio
    <3>2. i <= Best[i + 1]
      BY <1>1, <1>6, <2>3
    <3>3. Eligible(i) => Outdoes(Best[i + 1], i)
      BY <3>1, <3>2 DEF Outdoes
    <3>4. QED BY <1>3, <1>6, <2>1, <2>3, <3>3 DEF BestFrom
  <2>4. QED BY <2>2, <2>3
<1>9. QED BY <1>7, <1>8

LEMMA BestIsBest ==
  ASSUME Settings
  PROVE  BestFrom(1)
<1> USE SourceCount
<1> DEFINE S == {n \in Nat : n <= NUM_SOURCES => BestFrom(NUM_SOURCES + 1 - n)}
<1>1. 0 \in S
  <2>1. Best[NUM_SOURCES + 1] = 0
    BY BestIsScan DEF Scan
  <2>2. \A j \in NUM_SOURCES + 1 .. NUM_SOURCES : FALSE
    OBVIOUS
  <2>3. BestFrom(NUM_SOURCES + 1)
    BY <2>1, <2>2 DEF BestFrom
  <2>4. NUM_SOURCES + 1 - 0 = NUM_SOURCES + 1
    OBVIOUS
  <2>5. QED BY <2>3, <2>4
<1>2. ASSUME NEW n \in Nat, n \in S PROVE n + 1 \in S
  <2>1. SUFFICES ASSUME n + 1 <= NUM_SOURCES
                 PROVE  BestFrom(NUM_SOURCES + 1 - (n + 1))
    OBVIOUS
  <2> DEFINE i == NUM_SOURCES + 1 - (n + 1)
  <2>2. i \in Sources /\ i + 1 = NUM_SOURCES + 1 - n
    BY <2>1 DEF Sources
  <2>3. n <= NUM_SOURCES
    BY <2>1
  <2>4. BestFrom(i + 1)
    BY <1>2, <2>2, <2>3
  <2>5. QED BY <2>2, <2>4, BestStep
<1> HIDE DEF S
<1>3. NUM_SOURCES \in S
  BY <1>1, <1>2, Induction
<1>4. NUM_SOURCES + 1 - NUM_SOURCES = 1
  OBVIOUS
<1>5. BestFrom(NUM_SOURCES + 1 - NUM_SOURCES)
  BY <1>3 DEF S
<1>6. QED BY <1>4, <1>5

Candidates == {i \in Sources : Eligible(i)}

WinnerIsBest ==
  /\ Winner = 0 => Candidates = {}
  /\ Winner # 0 => /\ Winner \in Candidates
                   /\ \A j \in Candidates : Outdoes(Winner, j)

(* The loop over the sources finds one of those that ask, and of the       *)
(* highest priority, whenever one asks.                                    *)
THEOREM WinnerCorrect == Settings => WinnerIsBest
  BY BestIsBest DEF WinnerIsBest, BestFrom, Winner, Candidates, Sources
-----------------------------------------------------------------------------
(* The inductive invariant.                                                *)

RegOK ==
  /\ Settings
  /\ gateway_pending \subseteq Sources
  /\ enabled \subseteq Sources
  /\ claimed_id \in {0} \cup Sources
  /\ claim_active \in BOOLEAN
  /\ pending \in BOOLEAN

HartOK ==
  /\ line \subseteq Sources
  /\ hart \in {"main", "claim", "serve", "complete"}
  /\ wait \in BOOLEAN
  /\ wanted \subseteq Sources

(* The slave and the hart agree on the access under way, and the hart      *)
(* waits for no response while it serves the device.                       *)
Port == pending = wait /\ (hart = "serve" => ~wait)

(* A claim is in service from the edge of the claim to that of the         *)
(* completion.                                                             *)
InService ==
  claim_active <=> \/ hart = "claim" /\ wait
                   \/ hart = "serve"
                   \/ hart = "complete" /\ ~wait

(* What is pending was asked for, but for the source just served, which is *)
(* pending until its completion.                                           *)
Asked ==
  /\ line \subseteq wanted
  /\ gateway_pending \subseteq
       wanted \cup (IF hart = "complete" /\ ~wait THEN {hid} ELSE {})

(* The hart in the handler finds a source to claim; the id it reads, keeps *)
(* and completes is the one in service, which stays pending until then.    *)
Holds ==
  /\ hart = "claim" /\ ~wait => Candidates # {}
  /\ hart = "claim" /\ wait =>
       rdata_reg = claimed_id /\ claimed_id \in gateway_pending
  /\ hart = "serve" => hid = claimed_id /\ hid \in gateway_pending
  /\ hart = "complete" /\ ~wait => hid = claimed_id /\ hid \in Sources

IInv == RegOK /\ HartOK /\ Port /\ InService /\ Asked /\ Holds
-----------------------------------------------------------------------------
(* The edges the hart's steps come down to.                                *)

settings == << irq_prio, enabled, threshold >>

(* No access: the gateways latch the lines, nothing else changes.          *)
LEMMA EdgeWithout ==
  ASSUME NEW ready \in BOOLEAN, pending \in BOOLEAN,
         PlicEdge(line, NoAccess, ready)
  PROVE  /\ gateway_pending' = gateway_pending \cup line
         /\ pending' = (pending /\ ~ready)
         /\ UNCHANGED << settings, claimed_id, claim_active, rdata_reg >>
<1>1. ~NoAccess.valid
  BY DEF NoAccess
<1>2. QED BY <1>1 DEF PlicEdge, GatewayNext, settings

(* An access other than to the claim register.                             *)
LEMMA EdgeConfigures ==
  ASSUME ~pending, NEW req \in Configurations \cup Inspections,
         Settings, enabled \subseteq Sources,
         PlicEdge(line, req, FALSE)
  PROVE  /\ gateway_pending' = gateway_pending \cup line
         /\ pending' = TRUE
         /\ Settings' /\ (enabled \subseteq Sources)'
         /\ UNCHANGED << claimed_id, claim_active >>
<1>1. /\ req.valid
      /\ req.reg # "claim"
      /\ req.we => req.reg = "enable" \/ req.reg = "threshold" \/ req.reg = "priority"
      /\ req.we /\ req.reg = "enable" => req.set \subseteq Sources
      /\ req.we /\ req.reg = "threshold" => req.value \in Prio
      /\ req.we /\ req.reg = "priority" => req.id \in Sources /\ req.value \in Prio
  BY DEF Configurations, Inspections, SetEnable, SetThreshold, SetPriority,
         Load, LoadPriority
<1>2. ~Claims(req) /\ ~Completes(req)
  BY <1>1 DEF Claims, Completes
<1>3. ReqReady(FALSE)
  BY DEF ReqReady
<1>4. /\ gateway_pending' = gateway_pending \cup line
      /\ pending' = TRUE
      /\ UNCHANGED << claimed_id, claim_active >>
  BY <1>1, <1>2, <1>3 DEF PlicEdge, GatewayNext
<1>5. enabled' \subseteq Sources
  BY <1>1 DEF PlicEdge, WritesTo
<1>6. threshold' \in Prio
  BY <1>1 DEF PlicEdge, WritesTo, Settings
<1>7. irq_prio' \in [Sources -> Prio]
  BY <1>1 DEF PlicEdge, WritesTo, Settings
<1>8. QED BY <1>4, <1>5, <1>6, <1>7 DEF Settings

(* The load of the claim register, when there is something to claim.       *)
LEMMA EdgeClaims ==
  ASSUME "claim" \in Window, ~pending, ~claim_active, Winner # 0,
         PlicEdge(line, Load("claim"), FALSE)
  PROVE  /\ gateway_pending' = gateway_pending \cup line
         /\ pending' = TRUE
         /\ claim_active' = TRUE
         /\ claimed_id' = Winner /\ rdata_reg' = Winner
         /\ UNCHANGED settings
<1> DEFINE req == Load("claim")
<1>1. req.valid = TRUE /\ req.we = FALSE /\ req.reg = "claim"
  BY DEF Load
<1>2. Hits(req) /\ Claims(req) /\ ~Completes(req)
  BY <1>1 DEF Hits, Claims, Completes
<1>3. ReqReady(FALSE)
  BY DEF ReqReady
<1> HIDE DEF req
<1>4. ReadData(req) = Winner
  BY <1>1, <1>2 DEF ReadData
<1>5. PlicEdge(line, req, FALSE)
  BY DEF req
<1>6. QED BY <1>1, <1>2, <1>3, <1>4, <1>5 DEF PlicEdge, GatewayNext, WritesTo, settings

(* The store that completes the id in service.                             *)
LEMMA EdgeCompletes ==
  ASSUME "claim" \in Window, ~pending, claim_active,
         PlicEdge(line, Complete(claimed_id), FALSE)
  PROVE  /\ gateway_pending' = (gateway_pending \ {claimed_id}) \cup line
         /\ pending' = TRUE
         /\ claim_active' = FALSE
         /\ UNCHANGED << claimed_id, settings >>
<1> DEFINE req == Complete(claimed_id)
<1>1. /\ req.valid = TRUE /\ req.we = TRUE /\ req.reg = "claim"
      /\ req.id = claimed_id
  BY DEF Complete
<1> HIDE DEF req
<1>2. Hits(req) /\ ~Claims(req) /\ Completes(req)
  BY <1>1 DEF Hits, Claims, Completes
<1>3. ReqReady(FALSE)
  BY DEF ReqReady
<1>4. PlicEdge(line, req, FALSE)
  BY DEF req
<1>5. QED BY <1>1, <1>2, <1>3, <1>4 DEF PlicEdge, GatewayNext, WritesTo, settings

(* The lines and the history after a cycle that served S.                  *)
LEMMA LinesKeep ==
  ASSUME NEW S, line \subseteq wanted, wanted \subseteq Sources, LinesNext(S)
  PROVE  /\ line' \subseteq Sources
         /\ wanted' \subseteq Sources
         /\ line' \subseteq wanted'
         /\ wanted \ S \subseteq wanted'
  BY DEF LinesNext

(* More pending sources and the same settings: no candidate goes away.     *)
LEMMA CandidatesStay ==
  ASSUME gateway_pending \subseteq gateway_pending', UNCHANGED settings
  PROVE  /\ Candidates \subseteq Candidates'
         /\ Settings => Settings'
         /\ enabled \subseteq Sources => (enabled \subseteq Sources)'
  BY DEF Candidates, Eligible, settings, Settings
-----------------------------------------------------------------------------
(* Types, for any window.                                                  *)

Requests ==
  {NoAccess, Load("claim"), Complete(hid)} \cup Configurations \cup Inspections

(* Every step is an edge of the PLIC and a cycle of the lines.             *)
LEMMA NextIsEdge ==
  ASSUME Next
  PROVE  /\ \E req \in Requests, ready \in BOOLEAN : PlicEdge(line, req, ready)
         /\ \E S : LinesNext(S)
<1> USE DEF Requests
<1>1. ASSUME NEW req \in Requests, Asks(req)
      PROVE  PlicEdge(line, req, FALSE) /\ LinesNext({})
  BY <1>1 DEF Asks
<1>2. Hears => PlicEdge(line, NoAccess, TRUE) /\ LinesNext({})
  BY DEF Hears
<1>3. CASE Idle
  BY <1>3 DEF Idle
<1>4. CASE Configure
  BY <1>1, <1>4 DEF Configure
<1>5. CASE Configured \/ Claimed \/ Finished
  BY <1>2, <1>5 DEF Configured, Claimed, Finished
<1>6. CASE Trap \/ Serve
  BY <1>6 DEF Trap, Serve
<1>7. CASE Claim
  BY <1>1, <1>7 DEF Claim
<1>8. CASE Finish
  BY <1>1, <1>8 DEF Finish
<1>9. QED BY <1>3, <1>4, <1>5, <1>6, <1>7, <1>8 DEF Next

LEMMA WinnerType == Settings => Winner \in {0} \cup Sources
  BY WinnerCorrect DEF WinnerIsBest, Candidates

(* What any edge does to the claim and to the gateways.                    *)
LEMMA EdgeServes ==
  ASSUME RegOK, NEW req \in Requests, NEW ready \in BOOLEAN,
         PlicEdge(line, req, ready)
  PROVE  /\ line \subseteq gateway_pending'
         /\ gateway_pending' \subseteq gateway_pending \cup line
         /\ ~claim_active => gateway_pending \subseteq gateway_pending'
         /\ ~claim_active /\ claim_active' =>
              Winner # 0 /\ claimed_id' = Winner
         /\ claimed_id' \in {claimed_id, Winner}
         /\ claim_active' \in BOOLEAN
<1> DEFINE accept == req.valid /\ ReqReady(ready)
<1>1. accept \in BOOLEAN
  OBVIOUS
<1>2. gateway_pending' = GatewayNext(line, accept, req)
  BY DEF PlicEdge
<1>3. /\ claim_active' = IF accept /\ Claims(req) /\ Winner # 0 THEN TRUE
                         ELSE IF accept /\ Completes(req) THEN FALSE
                         ELSE claim_active
      /\ claimed_id' = IF accept /\ Claims(req) /\ ~claim_active /\ Winner # 0
                         THEN Winner ELSE claimed_id
  BY DEF PlicEdge
<1>4. claim_active \in BOOLEAN
  BY DEF RegOK
<1> HIDE DEF accept
<1>5. Completes(req) => claim_active
  BY DEF Completes
<1>6. QED BY <1>1, <1>2, <1>3, <1>4, <1>5 DEF GatewayNext

LEMMA EdgeType ==
  ASSUME RegOK, line \subseteq Sources, NEW req \in Requests,
         NEW ready \in BOOLEAN, PlicEdge(line, req, ready)
  PROVE  RegOK'
<1>1. CASE req = NoAccess
  <2>1. UNCHANGED settings /\ UNCHANGED claimed_id /\ UNCHANGED claim_active
    BY <1>1, EdgeWithout DEF RegOK
  <2>2. gateway_pending' = gateway_pending \cup line /\ pending' \in BOOLEAN
    BY <1>1, EdgeWithout DEF RegOK
  <2>3. QED BY <2>1, <2>2 DEF RegOK, Settings, settings
<1>2. CASE req # NoAccess
  <2>1. /\ req.we => \/ req.reg = "enable" /\ req.set \subseteq Sources
                     \/ req.reg = "threshold" /\ req.value \in Prio
                     \/ req.reg = "priority" /\ req.id \in Sources
                                             /\ req.value \in Prio
                     \/ req.reg = "claim"
    BY <1>2 DEF Requests, Configurations, Inspections, SetEnable, SetThreshold,
                SetPriority, Load, LoadPriority, Complete
  <2>2. enabled' \subseteq Sources
    BY <2>1 DEF PlicEdge, WritesTo, RegOK
  <2>3. threshold' \in Prio
    BY <2>1 DEF PlicEdge, WritesTo, RegOK, Settings
  <2>4. irq_prio' \in [Sources -> Prio]
    BY <2>1 DEF PlicEdge, WritesTo, RegOK, Settings
  <2>5. pending' \in BOOLEAN
    BY DEF PlicEdge, RegOK
  <2>6. gateway_pending' \subseteq Sources
    BY EdgeServes DEF RegOK
  <2>7. claimed_id' \in {0} \cup Sources
    BY EdgeServes, WinnerType DEF RegOK
  <2>8. claim_active' \in BOOLEAN
    BY EdgeServes
  <2>9. QED BY <2>2, <2>3, <2>4, <2>5, <2>6, <2>7, <2>8 DEF RegOK, Settings
<1>3. QED BY <1>1, <1>2

Typed == RegOK /\ HartOK

LEMMA InitTyped == Init => Typed
  BY PlicAssumption, ServiceAssumption
  DEF Init, PlicInit, Typed, RegOK, HartOK, Settings, Sources

LEMMA NextTyped == Typed /\ [Next]_vars => Typed'
<1> SUFFICES ASSUME Typed, [Next]_vars PROVE Typed'
  OBVIOUS
<1>1. CASE Next
  <2>1. PICK req \in Requests, ready \in BOOLEAN : PlicEdge(line, req, ready)
    BY <1>1, NextIsEdge
  <2>2. RegOK'
    BY <2>1, EdgeType DEF Typed, HartOK
  <2>3. line' \subseteq Sources /\ wanted' \subseteq Sources
    BY <1>1, NextIsEdge DEF LinesNext, Typed, HartOK
  <2>4. hart' \in {"main", "claim", "serve", "complete"} /\ wait' \in BOOLEAN
    BY <1>1 DEF Next, Idle, Configure, Configured, Trap, Claim, Claimed, Serve,
                Finish, Finished, Asks, Hears, Typed, HartOK
  <2>5. QED BY <2>2, <2>3, <2>4 DEF Typed, HartOK
<1>2. CASE UNCHANGED vars
  BY <1>2 DEF Typed, RegOK, HartOK, Settings, vars, plicVars
<1>3. QED BY <1>1, <1>2

(* The hart holds the id of a source or 0, which it read from the claim    *)
(* register.                                                               *)
HidOK ==
  /\ hid \in {0} \cup Sources
  /\ hart = "claim" /\ wait => rdata_reg \in {0} \cup Sources

LEMMA HidStep == Typed /\ HidOK /\ [Next]_vars => HidOK'
<1> SUFFICES ASSUME Typed, HidOK, [Next]_vars PROVE HidOK'
  OBVIOUS
<1>1. ASSUME NEW ready \in BOOLEAN, PlicEdge(line, NoAccess, ready)
      PROVE  rdata_reg' = rdata_reg
  BY <1>1 DEF PlicEdge, NoAccess
<1>2. CASE Idle
  BY <1>1, <1>2 DEF Idle, HidOK
<1>3. CASE Configure \/ Configured \/ Trap
  <2>1. hid' = hid /\ (hart' = "main" \/ ~wait')
    <3>1. CASE Configure
      BY <3>1 DEF Configure
    <3>2. CASE Configured
      BY <3>2 DEF Configured
    <3>3. CASE Trap
      BY <3>3 DEF Trap
    <3>4. QED BY <1>3, <3>1, <3>2, <3>3
  <2>2. QED BY <2>1 DEF HidOK
<1>4. CASE Claim
  <2>1. /\ PlicEdge(line, Load("claim"), FALSE) /\ ReqReady(FALSE) /\ hid' = hid
    BY <1>4 DEF Claim, Asks
  <2>2. /\ Load("claim").valid /\ ~Load("claim").we /\ Load("claim").reg = "claim"
    BY DEF Load
  <2>3. rdata_reg' = ReadData(Load("claim"))
    BY <2>1, <2>2 DEF PlicEdge
  <2>4. Winner \in {0} \cup Sources
    BY WinnerCorrect DEF WinnerIsBest, Candidates, Typed, RegOK
  <2>5. ReadData(Load("claim")) \in {0, Winner, claimed_id}
    <3> DEFINE req == Load("claim")
    <3>1. req.reg = "claim"
      BY <2>2
    <3> HIDE DEF req
    <3>2. ReadData(req) \in {0, Winner, claimed_id}
      BY <3>1 DEF ReadData
    <3>3. QED BY <3>2 DEF req
  <2>6. QED BY <2>1, <2>3, <2>4, <2>5 DEF HidOK, Typed, RegOK
<1>5. CASE Claimed
  BY <1>5 DEF Claimed, Hears, HidOK
<1>6. CASE Serve \/ Finish \/ Finished
  BY <1>6 DEF Serve, Finish, Finished, Asks, Hears, HidOK
<1>7. CASE UNCHANGED vars
  BY <1>7 DEF HidOK, vars, plicVars
<1>8. QED BY <1>2, <1>3, <1>4, <1>5, <1>6, <1>7 DEF Next

(* The registers of the PLIC hold priorities, sources and flags, and the   *)
(* hart the id of a source or 0, whatever it configures and the lines do.  *)
THEOREM TypesHold == Spec => [](Typed /\ HidOK)
<1>1. Init => HidOK
  BY DEF Init, PlicInit, HidOK
<1>2. QED BY <1>1, InitTyped, NextTyped, HidStep, PTL DEF Spec
-----------------------------------------------------------------------------
(* What a step may not do.                                                 *)

(* A claim takes one of the pending, enabled sources above the threshold,  *)
(* and none of higher priority is left behind.                             *)
THEOREM HighestIsServed == Spec => HighestServed
<1> DEFINE asking == {i \in Sources : /\ i \in enabled /\ i \in gateway_pending
                                      /\ irq_prio[i] > threshold}
           Serves == claim_active' /\ ~claim_active =>
                       /\ claimed_id' \in asking
                       /\ \A i \in asking : irq_prio[i] <= irq_prio[claimed_id']
<1>1. ASSUME Typed, Next PROVE Serves
  <2>1. SUFFICES ASSUME claim_active', ~claim_active
                 PROVE  /\ claimed_id' \in asking
                        /\ \A i \in asking : irq_prio[i] <= irq_prio[claimed_id']
    OBVIOUS
  <2>2. Winner # 0 /\ claimed_id' = Winner
    BY <1>1, <2>1, NextIsEdge, EdgeServes DEF Typed
  <2>3. WinnerIsBest
    BY <1>1, WinnerCorrect DEF Typed, RegOK
  <2>4. asking = Candidates
    BY DEF Candidates, Eligible
  <2>5. QED BY <2>2, <2>3, <2>4 DEF WinnerIsBest, Outdoes
<1>2. Typed /\ [Next]_vars => [Serves]_vars
  BY <1>1
<1>3. QED BY <1>2, TypesHold, PTL DEF Spec, HighestServed

(* meip goes away by a claim or a reconfiguration only, never by itself:   *)
(* the hart that traps finds something to claim.                           *)
THEOREM MeipIsStable == Spec => MeipStable
<1> DEFINE Lowered == Meip /\ ~Meip' => \/ claim_active'
                                        \/ settings' # settings
<1>1. ASSUME Typed, Typed', Next PROVE Lowered
  <2>1. SUFFICES ASSUME Meip, ~claim_active', UNCHANGED settings PROVE Meip'
    BY DEF settings
  <2>2. gateway_pending \subseteq gateway_pending'
    BY <1>1, <2>1, NextIsEdge, EdgeServes DEF Typed, Meip
  <2>3. Candidates \subseteq Candidates'
    BY <2>1, <2>2, CandidatesStay
  <2>4. Candidates # {}
    BY <1>1, <2>1, WinnerCorrect DEF Typed, RegOK, WinnerIsBest, Meip
  <2>5. WinnerIsBest'
    <3>1. Settings' => WinnerIsBest'
      BY WinnerCorrect, PTL
    <3>2. QED BY <1>1, <3>1 DEF Typed, RegOK
  <2>6. Winner' # 0
    BY <2>3, <2>4, <2>5 DEF WinnerIsBest
  <2>7. QED BY <2>1, <2>6 DEF Meip
<1>2. Typed /\ Typed' /\ [Next]_vars => [Lowered]_vars
  BY <1>1
<1>3. QED BY <1>2, TypesHold, PTL DEF Spec, MeipStable, settings

-----------------------------------------------------------------------------
(* The handler.                                                            *)

LEMMA InitIInv == Init => IInv
<1> SUFFICES ASSUME Init PROVE IInv
  OBVIOUS
<1>1. RegOK /\ HartOK
  BY InitTyped DEF Typed
<1>2. QED BY <1>1 DEF Init, PlicInit, IInv, Port, InService, Asked, Holds

(* The candidates of the next state stay when none of the gateways is      *)
(* cleared and nothing is configured.                                      *)
LEMMA WithoutAccess ==
  ASSUME IInv, NEW ready \in BOOLEAN, PlicEdge(line, NoAccess, ready)
  PROVE  /\ gateway_pending' = gateway_pending \cup line
         /\ pending' = (pending /\ ~ready)
         /\ UNCHANGED << claimed_id, claim_active, rdata_reg >>
         /\ Candidates \subseteq Candidates'
<1>1. pending \in BOOLEAN
  BY DEF IInv, RegOK
<1>2. QED BY <1>1, EdgeWithout, CandidatesStay

LEMMA LinesAsked ==
  ASSUME IInv, NEW S, LinesNext(S)
  PROVE  line' \subseteq wanted' /\ wanted \ S \subseteq wanted' /\ line \subseteq wanted
  BY LinesKeep DEF IInv, Asked, HartOK

LEMMA NextIInv ==
  ASSUME "claim" \in Window
  PROVE  IInv /\ [Next]_vars => IInv'
<1> SUFFICES ASSUME IInv, [Next]_vars PROVE IInv'
  OBVIOUS
<1>1. RegOK' /\ HartOK'
  BY NextTyped DEF IInv, Typed
<1>2. CASE Idle
  <2>1. /\ gateway_pending' = gateway_pending \cup line
        /\ pending' = pending
        /\ UNCHANGED << claimed_id, claim_active, rdata_reg >>
        /\ Candidates \subseteq Candidates'
    BY <1>2, WithoutAccess DEF Idle, IInv, RegOK
  <2>2. line' \subseteq wanted' /\ wanted \subseteq wanted' /\ line \subseteq wanted
    BY <1>2, LinesAsked DEF Idle
  <2>3. UNCHANGED << hart, hid, wait >>
    BY <1>2 DEF Idle
  <2>4. Port' /\ InService'
    BY <2>1, <2>3 DEF IInv, Port, InService
  <2>5. Asked'
    BY <2>1, <2>2, <2>3 DEF IInv, Asked
  <2>6. Holds'
    BY <2>1, <2>3 DEF IInv, Holds
  <2>7. QED BY <1>1, <2>4, <2>5, <2>6 DEF IInv
<1>3. CASE Configure
  <2>1. PICK req \in Configurations \cup Inspections : Asks(req)
    BY <1>3 DEF Configure
  <2>2. /\ ~wait /\ wait' = TRUE /\ hart = "main"
        /\ PlicEdge(line, req, FALSE) /\ LinesNext({})
        /\ UNCHANGED << hart, hid >>
    BY <1>3, <2>1 DEF Configure, Asks
  <2>3. ~pending
    BY <2>2 DEF IInv, Port
  <2>4. /\ gateway_pending' = gateway_pending \cup line
        /\ pending' = TRUE
        /\ UNCHANGED << claimed_id, claim_active >>
    BY <2>2, <2>3, EdgeConfigures DEF IInv, RegOK
  <2>5. line' \subseteq wanted' /\ wanted \subseteq wanted' /\ line \subseteq wanted
    BY <2>2, LinesAsked
  <2>6. Port' /\ InService'
    BY <2>2, <2>4 DEF IInv, Port, InService
  <2>7. Asked' /\ Holds'
    BY <2>2, <2>4, <2>5 DEF IInv, Asked, Holds
  <2>8. QED BY <1>1, <2>6, <2>7 DEF IInv
<1>4. CASE Configured
  <2>1. /\ hart = "main" /\ wait' = FALSE /\ UNCHANGED << hart, hid >>
        /\ PlicEdge(line, NoAccess, TRUE) /\ LinesNext({})
    BY <1>4 DEF Configured, Hears
  <2>2. /\ gateway_pending' = gateway_pending \cup line
        /\ pending' = FALSE
        /\ UNCHANGED << claimed_id, claim_active >>
    BY <2>1, WithoutAccess
  <2>3. line' \subseteq wanted' /\ wanted \subseteq wanted' /\ line \subseteq wanted
    BY <2>1, LinesAsked
  <2>4. Port' /\ InService'
    BY <2>1, <2>2 DEF IInv, Port, InService
  <2>5. Asked' /\ Holds'
    BY <2>1, <2>2, <2>3 DEF IInv, Asked, Holds
  <2>6. QED BY <1>1, <2>4, <2>5 DEF IInv
<1>5. CASE Trap
  <2>1. /\ hart = "main" /\ hart' = "claim" /\ ~wait /\ Meip
        /\ UNCHANGED << hid, wait >>
        /\ PlicEdge(line, NoAccess, FALSE) /\ LinesNext({})
    BY <1>5 DEF Trap
  <2>2. /\ gateway_pending' = gateway_pending \cup line
        /\ pending' = pending
        /\ UNCHANGED << claimed_id, claim_active >>
        /\ Candidates \subseteq Candidates'
    BY <2>1, WithoutAccess DEF IInv, RegOK
  <2>3. line' \subseteq wanted' /\ wanted \subseteq wanted' /\ line \subseteq wanted
    BY <2>1, LinesAsked
  <2>4. Candidates # {}
    BY <2>1, WinnerCorrect DEF IInv, RegOK, WinnerIsBest, Meip
  <2>5. Port' /\ InService'
    BY <2>1, <2>2 DEF IInv, Port, InService
  <2>6. Asked'
    BY <2>1, <2>2, <2>3 DEF IInv, Asked
  <2>7. Holds'
    BY <2>1, <2>2, <2>4 DEF IInv, Holds
  <2>8. QED BY <1>1, <2>5, <2>6, <2>7 DEF IInv
<1>6. CASE Claim
  <2>1. /\ hart = "claim" /\ ~wait /\ wait' = TRUE /\ UNCHANGED << hart, hid >>
        /\ PlicEdge(line, Load("claim"), FALSE) /\ LinesNext({})
    BY <1>6 DEF Claim, Asks
  <2>2. ~pending /\ ~claim_active /\ Candidates # {}
    BY <2>1 DEF IInv, Port, InService, Holds
  <2>3. Winner \in Candidates /\ Winner # 0
    BY <2>2, WinnerCorrect DEF IInv, RegOK, WinnerIsBest
  <2>4. /\ gateway_pending' = gateway_pending \cup line
        /\ pending' = TRUE /\ claim_active' = TRUE
        /\ claimed_id' = Winner /\ rdata_reg' = Winner
    BY <2>1, <2>2, <2>3, EdgeClaims
  <2>5. line' \subseteq wanted' /\ wanted \subseteq wanted' /\ line \subseteq wanted
    BY <2>1, LinesAsked
  <2>6. Port' /\ InService'
    BY <2>1, <2>4 DEF Port, InService
  <2>7. Asked'
    BY <2>1, <2>4, <2>5 DEF IInv, Asked
  <2>8. Winner \in gateway_pending
    BY <2>3 DEF Candidates, Eligible
  <2>9. Holds'
    BY <2>1, <2>4, <2>8 DEF Holds
  <2>10. QED BY <1>1, <2>6, <2>7, <2>9 DEF IInv
<1>7. CASE Claimed
  <2>1. /\ hart = "claim" /\ wait /\ wait' = FALSE /\ hart' = "serve"
        /\ hid' = rdata_reg
        /\ PlicEdge(line, NoAccess, TRUE) /\ LinesNext({})
    BY <1>7 DEF Claimed, Hears
  <2>2. /\ gateway_pending' = gateway_pending \cup line
        /\ pending' = FALSE
        /\ UNCHANGED << claimed_id, claim_active >>
    BY <2>1, WithoutAccess
  <2>3. line' \subseteq wanted' /\ wanted \subseteq wanted' /\ line \subseteq wanted
    BY <2>1, LinesAsked
  <2>4. Port' /\ InService'
    BY <2>1, <2>2 DEF IInv, Port, InService
  <2>5. Asked' /\ Holds'
    BY <2>1, <2>2, <2>3 DEF IInv, Asked, Holds
  <2>6. QED BY <1>1, <2>4, <2>5 DEF IInv
<1>8. CASE Serve
  <2>1. /\ hart = "serve" /\ hart' = "complete" /\ UNCHANGED << hid, wait >>
        /\ PlicEdge(line, NoAccess, FALSE) /\ LinesNext({hid})
    BY <1>8 DEF Serve
  <2>2. /\ gateway_pending' = gateway_pending \cup line
        /\ pending' = pending
        /\ UNCHANGED << claimed_id, claim_active >>
    BY <2>1, WithoutAccess DEF IInv, RegOK
  <2>3. line' \subseteq wanted' /\ wanted \ {hid} \subseteq wanted' /\ line \subseteq wanted
    BY <2>1, LinesAsked
  <2>4. Port' /\ InService'
    BY <2>1, <2>2 DEF IInv, Port, InService
  <2>5. ~wait'
    BY <2>1 DEF IInv, Port
  <2>6. Asked'
    BY <2>1, <2>2, <2>3, <2>5 DEF IInv, Asked
  <2>7. Holds'
    BY <2>1, <2>2 DEF IInv, Holds, RegOK
  <2>8. QED BY <1>1, <2>4, <2>6, <2>7 DEF IInv
<1>9. CASE Finish
  <2>1. /\ hart = "complete" /\ ~wait /\ wait' = TRUE /\ UNCHANGED << hart, hid >>
        /\ PlicEdge(line, Complete(hid), FALSE) /\ LinesNext({})
    BY <1>9 DEF Finish, Asks
  <2>2. ~pending /\ claim_active /\ hid = claimed_id
    BY <2>1 DEF IInv, Port, InService, Holds
  <2>3. /\ gateway_pending' = (gateway_pending \ {claimed_id}) \cup line
        /\ pending' = TRUE /\ claim_active' = FALSE
    BY <2>1, <2>2, EdgeCompletes
  <2>4. line' \subseteq wanted' /\ wanted \subseteq wanted' /\ line \subseteq wanted
    BY <2>1, LinesAsked
  <2>5. Port' /\ InService'
    BY <2>1, <2>3 DEF Port, InService
  <2>6. Asked'
    BY <2>1, <2>2, <2>3, <2>4 DEF IInv, Asked
  <2>7. Holds'
    BY <2>1 DEF Holds
  <2>8. QED BY <1>1, <2>5, <2>6, <2>7 DEF IInv
<1>10. CASE Finished
  <2>1. /\ hart = "complete" /\ wait /\ wait' = FALSE /\ hart' = "main"
        /\ UNCHANGED hid
        /\ PlicEdge(line, NoAccess, TRUE) /\ LinesNext({})
    BY <1>10 DEF Finished, Hears
  <2>2. /\ gateway_pending' = gateway_pending \cup line
        /\ pending' = FALSE
        /\ UNCHANGED << claimed_id, claim_active >>
    BY <2>1, WithoutAccess
  <2>3. line' \subseteq wanted' /\ wanted \subseteq wanted' /\ line \subseteq wanted
    BY <2>1, LinesAsked
  <2>4. Port' /\ InService'
    BY <2>1, <2>2 DEF IInv, Port, InService
  <2>5. Asked' /\ Holds'
    BY <2>1, <2>2, <2>3 DEF IInv, Asked, Holds
  <2>6. QED BY <1>1, <2>4, <2>5 DEF IInv
<1>11. CASE UNCHANGED vars
  BY <1>1, <1>11 DEF IInv, Port, InService, Asked, Holds, Candidates, Eligible,
                     vars, plicVars
<1>12. QED BY <1>2, <1>3, <1>4, <1>5, <1>6, <1>7, <1>8, <1>9, <1>10, <1>11
           DEF Next

(* With the claim register behind the address decode, as in the copy of    *)
(* the PLIC in sisAxiLiteSlave, the handler's view and the PLIC's agree.   *)
THEOREM HandlerAgrees ==
  ASSUME "claim" \in Window
  PROVE  Spec => []IInv
<1>1. IInv /\ [Next]_vars => IInv'
  BY NextIInv
<1>2. QED BY <1>1, InitIInv, PTL DEF Spec

(* What the handler claims is a device that asked: it is never sent after  *)
(* id 0, an id left over from the last claim or a request served before.   *)
THEOREM ClaimsAreReal ==
  ASSUME "claim" \in Window
  PROVE  Spec => []ClaimIsReal
<1>1. IInv => ClaimIsReal
  BY DEF IInv, Holds, Asked, ClaimIsReal
<1>2. QED BY <1>1, HandlerAgrees, PTL

(* A level source not served since it was raised is still up.              *)
LevelsUp == wanted \cap Level \subseteq line

LEMMA LevelsUpStep == LevelsUp /\ [Next]_vars => LevelsUp'
<1>1. ASSUME LevelsUp, Next PROVE LevelsUp'
  <2>1. PICK S : LinesNext(S)
    BY <1>1, NextIsEdge
  <2>2. QED BY <1>1, <2>1 DEF LevelsUp, LinesNext
<1>2. ASSUME LevelsUp, UNCHANGED vars PROVE LevelsUp'
  BY <1>2 DEF LevelsUp, vars
<1>3. QED BY <1>1, <1>2

(* Only the completion clears a gateway, and only that of the id in the    *)
(* hart's hands.                                                           *)
LEMMA ClearedByFinish ==
  ASSUME "claim" \in Window, IInv, Next
  PROVE  \/ gateway_pending \subseteq gateway_pending'
         \/ /\ hart = "complete"
            /\ gateway_pending' = (gateway_pending \ {hid}) \cup line
<1>1. CASE Idle \/ Trap \/ Serve
  <2>1. PlicEdge(line, NoAccess, FALSE)
    BY <1>1 DEF Idle, Trap, Serve
  <2>2. QED BY <2>1, WithoutAccess
<1>2. CASE Configured \/ Claimed \/ Finished
  <2>1. PlicEdge(line, NoAccess, TRUE)
    BY <1>2 DEF Configured, Claimed, Finished, Hears
  <2>2. QED BY <2>1, WithoutAccess
<1>3. CASE Configure
  <2>1. PICK req \in Configurations \cup Inspections : Asks(req)
    BY <1>3 DEF Configure
  <2>2. ~wait /\ PlicEdge(line, req, FALSE)
    BY <2>1 DEF Asks
  <2>3. QED BY <2>2, EdgeConfigures DEF IInv, RegOK, Port
<1>4. CASE Claim
  <2>1. hart = "claim" /\ ~wait /\ PlicEdge(line, Load("claim"), FALSE)
    BY <1>4 DEF Claim, Asks
  <2>2. ~claim_active
    BY <2>1 DEF IInv, InService
  <2>3. QED BY <2>1, <2>2, EdgeServes DEF IInv, Requests
<1>5. CASE Finish
  <2>1. hart = "complete" /\ ~wait /\ PlicEdge(line, Complete(hid), FALSE)
    BY <1>5 DEF Finish, Asks
  <2>2. ~pending /\ claim_active /\ hid = claimed_id
    BY <2>1 DEF IInv, Port, InService, Holds
  <2>3. QED BY <2>1, <2>2, EdgeCompletes
<1>6. QED BY <1>1, <1>2, <1>3, <1>4, <1>5 DEF Next

(* No request is dropped: a source leaves its gateway only when the        *)
(* handler that claimed and served it completes it and its line is down; a *)
(* level source raised again since stays for the next claim.               *)
THEOREM RequestsAreKept ==
  ASSUME "claim" \in Window
  PROVE  Spec => RequestsKept
<1> DEFINE Kept == \A i \in gateway_pending \ gateway_pending' :
                     /\ hart = "complete" /\ hid = i
                     /\ i \notin line
                     /\ i \in Level => i \notin wanted
<1>1. ASSUME IInv, LevelsUp, Next PROVE Kept
  BY <1>1, ClearedByFinish DEF LevelsUp
<1>2. IInv /\ LevelsUp /\ [Next]_vars => [Kept]_vars
  BY <1>1
<1>3. Init => LevelsUp
  BY DEF Init, LevelsUp
<1>4. QED BY <1>2, <1>3, LevelsUpStep, HandlerAgrees, PTL DEF Spec, RequestsKept
=============================================================================
