------------------------------- MODULE CoreBus -------------------------------
(***************************************************************************)
(* Requests and responses of the corebus of sisRV and the memory behind    *)
(* it: words that can be written, words of a ROM, for which a write is     *)
(* accepted and has no effect, and addresses no device answers to.         *)
(***************************************************************************)
CONSTANTS
  Addr,
  RomAddr,   \* addresses of the ROM
  BadAddr,   \* addresses that decode to no device
  ResetAddr, \* 32'h0, what address registers hold after reset
  Val,
  Zero,      \* 32'h0
  Poison     \* what a read that decodes to nothing returns

ASSUME CoreBusAssumption ==
  /\ RomAddr \subseteq Addr
  /\ BadAddr \subseteq Addr
  /\ ResetAddr \in Addr
  /\ Zero \in Val
  /\ Poison \in Val

Port == {"I", "D"}

NoReq       == [valid |-> FALSE]
Read(a)     == [valid |-> TRUE, we |-> FALSE, addr |-> a, data |-> Zero]
Write(a, v) == [valid |-> TRUE, we |-> TRUE, addr |-> a, data |-> v]
ReqSet      == [valid : {TRUE}, we : BOOLEAN, addr : Addr, data : Val]
Requests(p) == {Read(a) : a \in Addr}
                 \cup (IF p = "D" THEN {Write(a, v) : a \in Addr, v \in Val}
                                  ELSE {})

NoRsp        == [valid |-> FALSE]
Rsp(v, err)  == [valid |-> TRUE, data |-> v, err |-> err]
RspSet       == [valid : {TRUE}, data : Val, err : BOOLEAN]

(* What a memory answers, and holds after a write.                         *)
Loaded(mem, a) ==
  IF a \in BadAddr THEN Rsp(Poison, TRUE) ELSE Rsp(mem[a], FALSE)

Written(a) == Rsp(Zero, a \in BadAddr)

Stored(mem, a, v) ==
  IF a \in RomAddr \cup BadAddr THEN mem ELSE [mem EXCEPT ![a] = v]
=============================================================================
