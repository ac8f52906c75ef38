-------------------------------- MODULE Pmp --------------------------------
(***************************************************************************)
(* Physical memory protection: the matcher sisPmp and the registers it     *)
(* reads, pmpcfg and pmpaddr of sisCsr, as machine mode writes them.       *)
(* Addresses and pmpaddr have W bits, 32 in the core; a pmpcfg byte is its *)
(* lock, its mode A and the set of accesses it permits.  Shifts and sums   *)
(* are those of W-bit registers.                                           *)
(***************************************************************************)
EXTENDS Integers

CONSTANTS W,          \* bits of an address
          Entries,    \* PMP_ENTRIES
          CfgBytes,   \* what software writes to a byte of pmpcfg
          AddrWords   \* what it writes to a pmpaddr

OFF == 0
TOR == 1
NA4 == 2
NAPOT == 3

Index    == 0 .. Entries - 1
CfgSet   == [l : BOOLEAN, a : OFF .. NAPOT, permits : SUBSET {"r", "w", "x"}]
Word     == 0 .. 2 ^ W - 1
NoAccess == [l |-> FALSE, a |-> OFF, permits |-> {}]

VARIABLES pmpcfg, pmpaddr
pmpVars == <<pmpcfg, pmpaddr>>

PmpInit ==
  /\ pmpcfg = [i \in Index |-> NoAccess]
  /\ pmpaddr = [i \in Index |-> 0]

-----------------------------------------------------------------------------
(* sisCsr: the writes *)

pmpcfg_locked(i) == i \in Index /\ pmpcfg[i].l

\* The bound below a locked TOR entry is locked with it.
pmpaddr_write_blocked(i) ==
  \/ pmpcfg_locked(i)
  \/ pmpcfg_locked(i + 1) /\ pmpcfg[i + 1].a = TOR

\* One CSR holds four entries; a write changes those that are not locked.
WritePmpcfg(slot, new) ==
  /\ pmpcfg' = [i \in Index |->
                  IF i \div 4 = slot /\ ~pmpcfg_locked(i) THEN new[i % 4] ELSE pmpcfg[i]]
  /\ UNCHANGED pmpaddr

WritePmpaddr(i, new) ==
  /\ pmpaddr' = IF pmpaddr_write_blocked(i) THEN pmpaddr ELSE [pmpaddr EXCEPT ![i] = new]
  /\ UNCHANGED pmpcfg

PmpNext ==
  \/ \E slot \in 0 .. (Entries + 3) \div 4 - 1, new \in [0 .. 3 -> CfgBytes] : WritePmpcfg(slot, new)
  \/ \E i \in Index, new \in AddrWords : WritePmpaddr(i, new)

PmpSpec == PmpInit /\ [][PmpNext]_pmpVars

-----------------------------------------------------------------------------
(* sisPmp: the check of an access *)

TrailingOnes(pa) ==
  CHOOSE t \in 0 .. W :
    /\ pa % 2 ^ t = 2 ^ t - 1
    /\ t < W => (pa \div 2 ^ t) % 2 = 0

\* Zero when the shift leaves the register.
napot_size_bytes(pa) ==
  IF pa = 2 ^ W - 1 THEN 2 ^ W - 1 ELSE (8 * 2 ^ TrailingOnes(pa)) % 2 ^ W

\* (pa << 2) & ~(size - 1)
napot_base_byte(pa) ==
  LET size == napot_size_bytes(pa)
      byte == (4 * pa) % 2 ^ W
  IN IF size \in {0, 2 ^ W - 1} THEN 0 ELSE byte - (byte % size)

\* The low W - 2 bits of the bounds count.
Bound(pa) == pa % 2 ^ (W - 2)
Previous(i) == IF i = 0 THEN 0 ELSE pmpaddr[i - 1]

entry_matches(i, byte_addr) ==
  LET word == byte_addr \div 4
      pa   == pmpaddr[i]
      base == napot_base_byte(pa)
  IN \/ pmpcfg[i].a = TOR /\ Bound(Previous(i)) <= word /\ word < Bound(pa)
     \/ pmpcfg[i].a = NA4 /\ word = Bound(pa)
     \/ /\ pmpcfg[i].a = NAPOT
        /\ base <= byte_addr /\ byte_addr < (base + napot_size_bytes(pa)) % 2 ^ W

\* The lowest entry that matches decides; machine mode passes entries that
\* are not locked, and is allowed what no entry matches.
Decides(priv, access, matching) ==
  IF matching = {} THEN priv = "M"
  ELSE \E i \in matching :
         /\ \A j \in matching : i <= j
         /\ (pmpcfg[i].l \/ priv = "U") => access \in pmpcfg[i].permits

allow(byte_addr, priv, access) ==
  Decides(priv, access, {i \in Index : entry_matches(i, byte_addr)})

-----------------------------------------------------------------------------
(* Properties *)

PmpTypeOK == pmpcfg \in [Index -> CfgSet] /\ pmpaddr \in [Index -> Word]

\* What a locked entry says of every address, mode and access is fixed until
\* reset: no write to its byte, to its address, to the address below it that
\* bounds a TOR region, or to a CSR it shares with entries still unlocked
\* changes it (sisCsr.sv:160-179, 421-429).
LockedAction ==
  \A i \in Index :
    pmpcfg[i].l =>
      /\ pmpcfg'[i] = pmpcfg[i]
      /\ \A byte_addr \in Word : entry_matches(i, byte_addr)' = entry_matches(i, byte_addr)
LockedKept == [][LockedAction]_pmpVars

\* The decode of docs/UMODE_PMP_PLAN.md:105-114 on addr[33:2].
PlannedMatch(i, byte_addr) ==
  LET word == byte_addr \div 4
      pa   == pmpaddr[i]
      size == 2 ^ (TrailingOnes(pa) + 1)
  IN \/ pmpcfg[i].a = TOR /\ Previous(i) <= word /\ word < pa
     \/ pmpcfg[i].a = NA4 /\ word = pa
     \/ pmpcfg[i].a = NAPOT /\ word \div size = pa \div size

\* Every access is decided as the plan of the unit, "must implement exactly",
\* decides it (docs/UMODE_PMP_PLAN.md:86-114): regions that end at the top of
\* the address space, and bounds beyond it, are where a W-bit sum goes wrong.
AsPlanned ==
  \A byte_addr \in Word, priv \in {"M", "U"}, access \in {"r", "w", "x"} :
    allow(byte_addr, priv, access)
      = Decides(priv, access, {i \in Index : PlannedMatch(i, byte_addr)})
=============================================================================
