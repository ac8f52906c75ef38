----------------------------- MODULE FetchStream -----------------------------
(***************************************************************************)
(* What the IF stage of sisRvCore promises to the rest of the pipeline,    *)
(* with no bus, no buffers and no latency: the IF/ID register receives, in *)
(* program order and without a gap, exactly the instructions memory holds  *)
(* from the last redirect target on, each checked under the privilege the  *)
(* hart has from that redirect on, and an instruction stays in the         *)
(* register until ID takes it or a flush removes it.                       *)
(***************************************************************************)
EXTENDS InstrMem

VARIABLES
  wide,      \* the program
  next_pc,   \* PC of the next instruction to enter the register
  mode,      \* privilege the hart has for it
  slot,      \* the IF/ID register
  taken      \* ID took the register's instruction in the last cycle

vars == << wide, next_pc, mode, slot, taken >>

Init ==
  /\ wide \subseteq PC
  /\ next_pc \in PC
  /\ mode = "M"
  /\ slot = Empty
  /\ taken = FALSE

(* The next instruction enters an empty or a just emptied register.        *)
Deliver ==
  /\ ~slot.valid \/ taken'
  /\ taken' => slot.valid
  /\ slot' = InstructionAt(next_pc, mode, wide)
  /\ next_pc' = NextPC(slot')
  /\ UNCHANGED << wide, mode >>

(* ID takes the instruction and nothing follows yet.                       *)
Take ==
  /\ slot.valid
  /\ taken'
  /\ slot' = Empty
  /\ UNCHANGED << wide, next_pc, mode >>

(* Nothing enters and nothing leaves.                                      *)
Wait ==
  /\ ~taken'
  /\ UNCHANGED << wide, next_pc, mode, slot >>

(* EX or a finished single step sends fetch elsewhere.                     *)
Flush ==
  /\ ~taken'
  /\ slot' = Empty
  /\ next_pc' \in PC
  /\ mode' \in Priv
  /\ UNCHANGED wide

Next == taken' \in BOOLEAN /\ (Deliver \/ Take \/ Wait \/ Flush)

Spec == Init /\ [][Next]_vars
=============================================================================
