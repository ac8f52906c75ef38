----------------------------- MODULE PortMemory -----------------------------
(***************************************************************************)
(* What a memory system promises to the two ports of the core: one request *)
(* is served at a time, the access happens at one instant between its      *)
(* acceptance and its response, exactly once, and its answer goes to the   *)
(* port that asked.                                                        *)
(***************************************************************************)
EXTENDS CoreBus

VARIABLES
  mem,
  asked,   \* the request each port waits for
  heard,   \* the response each port got since the last request was taken
  answer   \* the response of the request in service, once it has happened

vars == << mem, asked, heard, answer >>

Init ==
  /\ mem \in [Addr -> Val]
  /\ asked = [p \in Port |-> NoReq]
  /\ heard = [p \in Port |-> NoRsp]
  /\ answer = NoRsp

Ask(p) ==
  /\ \A q \in Port : ~asked[q].valid
  /\ \E r \in Requests(p) : asked' = [asked EXCEPT ![p] = r]
  /\ heard' = [q \in Port |-> NoRsp]
  /\ UNCHANGED << mem, answer >>

Perform(p) ==
  /\ asked[p].valid
  /\ ~answer.valid
  /\ IF asked[p].we
       THEN /\ mem' = Stored(mem, asked[p].addr, asked[p].data)
            /\ answer' = Written(asked[p].addr)
       ELSE /\ mem' = mem
            /\ answer' = Loaded(mem, asked[p].addr)
  /\ UNCHANGED << asked, heard >>

Tell(p) ==
  /\ asked[p].valid
  /\ answer.valid
  /\ asked' = [asked EXCEPT ![p] = NoReq]
  /\ heard' = [heard EXCEPT ![p] = answer]
  /\ answer' = NoRsp
  /\ UNCHANGED mem

(* A memory that answers in the next cycle accepts and performs a request  *)
(* at once, also in the cycle in which the port takes its last answer.     *)
Serve(p) ==
  /\ \A q \in Port : asked[q].valid => q = p /\ answer.valid
  /\ \E r \in Requests(p) :
       /\ asked' = [asked EXCEPT ![p] = r]
       /\ mem' = IF r.we THEN Stored(mem, r.addr, r.data) ELSE mem
       /\ answer' = IF r.we THEN Written(r.addr) ELSE Loaded(mem, r.addr)
  /\ heard' = [q \in Port |-> IF asked[q].valid THEN answer ELSE NoRsp]

Next == \E p \in Port : Ask(p) \/ Perform(p) \/ Tell(p) \/ Serve(p)

Spec == Init /\ [][Next]_vars
=============================================================================
