------------------------------- MODULE MCPmp -------------------------------
(* Addresses of 6 bits, 64 bytes: the words of pmpaddr below name regions  *)
(* in the middle, at the top and over all of them.                         *)
EXTENDS Pmp

Byte(l, a, permits) == [l |-> l, a |-> a, permits |-> permits]

MCCfgBytes ==
  {Byte(FALSE, OFF, {}), Byte(FALSE, NAPOT, {"r", "w"}), Byte(TRUE, NAPOT, {"r"}),
   Byte(TRUE, TOR, {"r"}), Byte(FALSE, NA4, {"x"})}

MCAddrWords == {1, 4, 11}
=============================================================================
