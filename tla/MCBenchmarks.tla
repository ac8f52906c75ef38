---------------------------- MODULE MCBenchmarks ----------------------------
(* The literals of the script scaled down: 10 seconds of CoreMark are 150  *)
(* cycles in a publish run and 10 in a smoke run.  A cost of 3 is too      *)
(* little for a calibrated or capped run, 74 is just within the margin of  *)
(* 2 % that the overhead of 1 needs, 450 never ends within the limit.      *)
EXTENDS Benchmarks

MCIsaLists == {<<"imc", "im">>, <<"im">>, <<>>}
MCCosts    == {[i \in {"imc", "im"} |-> IF i = "imc" THEN c ELSE [c EXCEPT !["performance"] = 74]] :
                 c \in [Programs -> {3, 74, 450}]}
MCTicks     == [publish |-> 15, smoke |-> 1]
MCCoreMin   == [publish |-> 150, smoke |-> 10]
MCDhryMin   == [publish |-> 60, smoke |-> 40]
MCPilotIter == [publish |-> 4, smoke |-> 2]
=============================================================================
