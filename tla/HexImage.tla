------------------------------ MODULE HexImage ------------------------------
(***************************************************************************)
(* verification/riscof/scripts/elf2sisrv.py: the ROM and RAM hex images of *)
(* an ELF file.  An image is a function from byte addresses to bytes; a    *)
(* hex file is a sequence of words of four bytes, the first one at the     *)
(* base of its region.  ROM starts at address 0.                           *)
(*                                                                         *)
(* An ELF file is [elf, class, segs]: whether magic number, class and      *)
(* machine are right, 32 or 64, and the program headers in order.  A       *)
(* header is [load, vaddr, bytes]: PT_LOAD or not, its address and what    *)
(* the file holds of it, which is less than p_filesz in a truncated file.  *)
(***************************************************************************)
EXTENDS Integers, Sequences

CONSTANTS RamBase,             \* first address of the RAM
          Limit,               \* 2^32
          RomBytes, RamBytes   \* what the simulated ROM and RAM hold

ASSUME HexAssumption ==
  /\ RamBase \in Nat /\ RamBase % 4 = 0
  /\ RomBytes \in Nat /\ RomBytes <= RamBase
  /\ Limit \in Nat /\ RamBytes \in Nat /\ RamBase + RamBytes <= Limit

SegmentSet == [load : BOOLEAN, vaddr : Nat, bytes : Seq(Nat)]

NoBytes == [a \in {} |-> 0]
Covered(seg) == seg.vaddr .. seg.vaddr + Len(seg.bytes) - 1

\* Variant: what is there already wins.
_load_bytes_under(seg, image) ==
  [a \in DOMAIN image \cup Covered(seg) |->
     IF a \in DOMAIN image THEN image[a] ELSE seg.bytes[a - seg.vaddr + 1]]

\* The segment's bytes over what is there already.
_load_bytes(seg, image) ==
  [a \in DOMAIN image \cup Covered(seg) |->
     IF a \in Covered(seg) THEN seg.bytes[a - seg.vaddr + 1] ELSE image[a]]

\* ValueError: not an ELF file of this machine, or a 64-bit one with a
\* segment outside the 32-bit address space.
Accepted(file) ==
  /\ file.elf
  /\ file.class = 64 =>
       \A i \in DOMAIN file.segs : file.segs[i].load => file.segs[i].vaddr < Limit

\* The loadable segments in the order of their headers.
load_segments(file) ==
  LET After[i \in 0 .. Len(file.segs)] ==
        IF i = 0 THEN NoBytes
        ELSE IF file.segs[i].load THEN _load_bytes(file.segs[i], After[i - 1])
        ELSE After[i - 1]
  IN After[Len(file.segs)]

RomPart(image) == [a \in {b \in DOMAIN image : b < RamBase} |-> image[a]]
RamPart(image) == [a \in {b \in DOMAIN image : b >= RamBase} |-> image[a]]

\* Words from the region's base to the last byte, bytes nobody wrote 0.
write_hex(image, base) ==
  IF DOMAIN image = {} THEN <<>>
  ELSE LET last == CHOOSE a \in DOMAIN image : \A b \in DOMAIN image : b <= a
           stop == ((last + 4) \div 4) * 4
       IN [i \in 1 .. (stop - base) \div 4 |->
             [b \in 0 .. 3 |-> LET a == base + 4 * (i - 1) + b
                               IN IF a \in DOMAIN image THEN image[a] ELSE 0]]

RomHex(file) == write_hex(RomPart(load_segments(file)), 0)
RamHex(file) == write_hex(RamPart(load_segments(file)), RamBase)

-----------------------------------------------------------------------------
(* The memories of the simulator, filled before $readmemh, and an ELF      *)
(* loader.                                                                 *)

Addresses == (0 .. RomBytes - 1) \cup (RamBase .. RamBase + RamBytes - 1)

\* Every word of the ROM is the NOP 00000013, every word of the RAM 0.
FillByte(a) == IF a < RamBase /\ a % 4 = 0 THEN 19 ELSE 0

\* The byte the simulator starts with at one of its addresses.
MemoryByte(rom, ram, a) ==
  LET base == IF a < RamBase THEN 0 ELSE RamBase
      hex  == IF a < RamBase THEN rom ELSE ram
      i    == (a - base) \div 4 + 1
  IN IF i \in DOMAIN hex THEN hex[i][(a - base) % 4] ELSE FillByte(a)

Placing(file, a) ==
  {i \in DOMAIN file.segs : file.segs[i].load /\ a \in Covered(file.segs[i])}

\* An ELF loader puts the last segment over address a there, and 0, for what
\* only .bss covers, where there is none.
Placed(file, a) == Placing(file, a) # {}

LoaderByte(file, a) ==
  IF ~Placed(file, a) THEN 0
  ELSE LET i == CHOOSE j \in Placing(file, a) : \A k \in Placing(file, a) : k <= j
       IN file.segs[i].bytes[a - file.segs[i].vaddr + 1]

\* $readmemh has room for every byte of the file.
Fits(file) ==
  \A i \in DOMAIN file.segs :
    file.segs[i].load => Covered(file.segs[i]) \subseteq Addresses
=============================================================================
