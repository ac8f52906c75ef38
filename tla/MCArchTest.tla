----------------------------- MODULE MCArchTest -----------------------------
(* A suite in which every rule of the filters has something to decide, and *)
(* ELF files with segments that overlap, leave gaps, start and end between *)
(* words, lie across the start of the RAM or beyond the address space.     *)
EXTENDS ArchTest

Test(parts, match, prefer, hint) ==
  [parts |-> parts, match |-> match, prefer |-> prefer, hint |-> hint]

MCSuite ==
  << Test({}, TRUE, FALSE, TRUE),              \* rv32i_m/I/hints/add-01
     Test({}, TRUE, TRUE, FALSE),              \* rv32i_m/I/src/add-01
     Test({"/pmp/"}, FALSE, FALSE, FALSE),
     Test({"/vm_pmp/", "/vm_"}, FALSE, FALSE, FALSE) >>

Segments == [load : BOOLEAN, vaddr : {2, 6, 7, 9, 16}, bytes : {<<1>>, <<2, 3, 4>>}]
Labelled(class, segs) == [elf |-> TRUE, class |-> class, segs |-> segs, labels |-> TRUE]

MCFiles ==
  {Labelled(32, <<s>>) : s \in Segments}
    \cup {Labelled(64, <<s, r>>) : s, r \in {q \in Segments : q.load}}
    \cup {[Labelled(32, <<>>) EXCEPT !.labels = FALSE]}
=============================================================================
