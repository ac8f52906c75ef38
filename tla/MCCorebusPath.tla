--------------------------- MODULE MCCorebusPath ---------------------------
(***************************************************************************)
(* CorebusPath with a word of ROM and one of RAM, a register in each of    *)
(* two devices of the MMIO router, one of which is only read, and an       *)
(* address nothing decodes.                                                *)
(***************************************************************************)
EXTENDS CorebusPath

CONSTANTS rom, ram, gpio, uart, hole

MCDecode ==
  [a \in Addr |-> CASE a = rom -> "rom" [] a = ram -> "ram"
                    [] a = gpio -> "gpio" [] a = uart -> "uart"
                    [] a = hole -> "none"]

MCFetches == {Read(rom), Read(ram)}
MCLoads   == {Read(a) : a \in Addr}
MCStores  == {Write(a, Poison) : a \in Addr \ {uart}}
=============================================================================
