----------------------------- MODULE MCFetchUnit -----------------------------
(***************************************************************************)
(* FetchUnit on an address space of three words that wraps: a faulting     *)
(* word, a word U-mode may not execute and a word both modes may.          *)
(***************************************************************************)
EXTENDS FetchUnit

MCNextWord == [w \in Word |-> (w + 1) % 3]

MCReset == LowHalf(0)

(* Every mix of an aligned 32-bit encoding, one that straddles into the    *)
(* word closed to U-mode and one that straddles into the faulting word.    *)
MCPrograms == SUBSET {LowHalf(0), HighHalf(0), HighHalf(1)}
=============================================================================
