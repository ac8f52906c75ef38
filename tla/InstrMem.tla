------------------------------ MODULE InstrMem ------------------------------
(***************************************************************************)
(* The instruction address space as the fetch path of sisRvCore sees it.   *)
(*                                                                         *)
(* A program counter names a halfword: PC[31:2] is its word and PC[1] says *)
(* which half (PC[0] is always 0).  Words wrap the way 32-bit addresses    *)
(* do, so the address space is any set of words with a successor function. *)
(* What a halfword holds matters to the fetch stage in one bit only:       *)
(* whether its two low bits are 11, the start of a 32-bit encoding.  The   *)
(* content of a word is therefore named by the place it was read from, and *)
(* an instruction by the halfwords it was put together from: a word taken  *)
(* from the wrong place is a wrong value.                                  *)
(***************************************************************************)
EXTENDS Naturals

CONSTANTS
  Word,       \* instruction words, PC[31:2]
  NextWord,   \* the word at address + 4 (modulo 2^32)
  BadWords,   \* words whose fetch the bus answers with rsp_err
  UserWords   \* words on which PMP grants U-mode the X permission

ASSUME InstrMemAssumption ==
  /\ NextWord \in [Word -> Word]
  /\ BadWords \subseteq Word
  /\ UserWords \subseteq Word

Priv == {"M", "U"}
PC   == [word : Word, hi : BOOLEAN]

(* PC + 4, PC + 2.                                                         *)
Plus4(pc) == [pc EXCEPT !.word = NextWord[pc.word]]
Plus2(pc) == IF pc.hi THEN [word |-> NextWord[pc.word], hi |-> FALSE]
                      ELSE [pc EXCEPT !.hi = TRUE]

(* The two halfwords of the word that was read from place w.               *)
LowHalf(w)  == [word |-> w, hi |-> FALSE]
HighHalf(w) == [word |-> w, hi |-> TRUE]

(* The sisPmp instance u_pmp_i: M-mode is unrestricted by unlocked         *)
(* entries, U-mode needs an entry that grants X.                           *)
PmpAllow(w, priv) == priv = "M" \/ w \in UserWords

(* A fetch of w faults under priv: bus error or PMP denial.                *)
Fault(w, priv) == w \in BadWords \/ ~PmpAllow(w, priv)

(***************************************************************************)
(* The IF/ID register: nothing, or an instruction with the halfwords it    *)
(* was put together from.  An error slot carries the NOP placeholder.      *)
(***************************************************************************)
NopRaw     == [len |-> 0]
Short(h)   == [len |-> 2, lo |-> h]
Long(l, u) == [len |-> 4, lo |-> l, up |-> u]
RawSet     == {NopRaw} \cup [len : {2}, lo : PC]
                       \cup [len : {4}, lo : PC, up : PC]

Empty == [valid |-> FALSE]
Slot(pc, raw, err) == [valid |-> TRUE, pc |-> pc, raw |-> raw, err |-> err]
SlotSet == {Empty} \cup [valid : {TRUE}, pc : PC, raw : RawSet, err : BOOLEAN]

(* Where sequential fetch continues after an instruction.                  *)
NextPC(slot) == IF slot.raw.len = 2 THEN Plus2(slot.pc) ELSE Plus4(slot.pc)

(***************************************************************************)
(* What memory holds at pc, fetched under priv, when the halfwords of wide *)
(* start 32-bit encodings: the reference the pipeline is compared with.    *)
(***************************************************************************)
InstructionAt(pc, priv, wide) ==
  IF Fault(pc.word, priv)  THEN Slot(pc, NopRaw, TRUE)
  ELSE IF pc \notin wide   THEN Slot(pc, Short(pc), FALSE)
  ELSE Slot(pc, Long(pc, Plus2(pc)), Fault(Plus2(pc).word, priv))
=============================================================================
