------------------------------ MODULE MCBackEnd ------------------------------
(***************************************************************************)
(* BackEnd on three program counters that wrap around, the exception       *)
(* vector, the interrupt vector and the reset vector, or on two, where the *)
(* program starts at the interrupt vector, and menus of instructions for   *)
(* the questions asked.                                                    *)
(***************************************************************************)
EXTENDS BackEnd

MCSeq4 == [p \in PC |-> (p + 1) % 3]

TwoPCs == [p \in PC |-> 1 - p]

Computing == {Plain("alu"), Jump(0)}
Trapping  == {Plain("bad"), Plain("ecall"), Plain("mret")}
Writing   == {MieWrite(b) : b \in BOOLEAN} \cup {MppWrite(p) : p \in Priv}
               \cup {MepcWrite(p) : p \in {0}}

TrapMenu == Computing \cup Trapping \cup Writing

(* The accesses of all kinds among what touches the trap state: a failing  *)
(* SC is an instruction that only computes, CSR and MRET in U mode fault,  *)
(* a legal load differs from LR only in the reservation.                   *)
PathMenu ==
  {Jump(0), Plain("ecall"), Plain("mret"), MieWrite(TRUE), MppWrite("U")}
    \cup {Mem(op, 1) : op \in MemOps \ {"load"}} \cup {IllMem("load", 1)}

StepMemMenu == Computing \cup {Mem("store", 1)}

(* The load half of an AMO is answered, its store half may not be.         *)
Refusals == {<<"lr", "r">>, <<"amo", "w">>}
=============================================================================
