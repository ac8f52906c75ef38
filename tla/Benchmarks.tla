----------------------------- MODULE Benchmarks -----------------------------
(***************************************************************************)
(* scripts/run_benchmarks.py: build, calibrate, run and summarize CoreMark *)
(* and Dhrystone.  Invocations follow one another in one checkout: the     *)
(* images under build/bench, rom.hex and summary.json outlive each of      *)
(* them.  gcc, objcopy, the programs and the simulator are modelled by     *)
(* what the script sees of them; a program costs the same number of cycles *)
(* per iteration every time, and Overhead once.                            *)
(***************************************************************************)
EXTENDS Integers, Sequences

CONSTANTS IsaLists,     \* the values of --isas
          CostChoices,  \* cycles per iteration, by ISA and program
          Overhead,     \* cycles of a run outside its iterations
          TicksPerSec,  \* of CoreMark, by mode
          CoreMin,      \* min_cycles of CoreMark, by mode
          DhryMin,      \* min_cycles of Dhrystone, by mode
          PilotIter,    \* pilot_iter, by mode
          Timeout,      \* --timeout-cycles
          MaxRuns       \* bound: invocations

Modes    == {"publish", "smoke"}
Programs == {"performance", "validation", "dhrystone"}
Isas     == UNION {{l[i] : i \in DOMAIN l} : l \in IsaLists}

ASSUME BenchAssumption ==
  /\ IsaLists \subseteq Seq(STRING)
  /\ CostChoices \subseteq [Isas -> [Programs -> Nat \ {0}]]
  /\ Overhead \in Nat /\ Timeout \in Nat /\ MaxRuns \in Nat
  /\ TicksPerSec \in [Modes -> Nat \ {0}]
  /\ CoreMin \in [Modes -> Nat] /\ DhryMin \in [Modes -> Nat]
  /\ PilotIter \in [Modes -> Nat \ {0}]
  /\ \A m \in Modes : CoreMin[m] <= 10 * TicksPerSec[m]

Args == [benchmark : {"all", "coremark", "dhrystone"}, mode : Modes, isas : IsaLists]

CoremarkStages  == <<"coremark_pilot", "performance", "validation">>
DhrystoneStages == <<"dhrystone_pilot", "dhrystone">>
Stages(benchmark) ==
  IF benchmark = "all" THEN CoremarkStages \o DhrystoneStages
  ELSE IF benchmark = "coremark" THEN CoremarkStages ELSE DhrystoneStages

\* The loops of main: all stages of the first ISA, then of the next.
WorkList(a) ==
  LET stages == Stages(a.benchmark)
      n      == Len(stages)
  IN [k \in 1 .. n * Len(a.isas) |->
        [isa |-> a.isas[((k - 1) \div n) + 1], stage |-> stages[((k - 1) % n) + 1]]]

Pilot(stage)    == stage \in {"coremark_pilot", "dhrystone_pilot"}
Coremark(stage) == stage \in {CoremarkStages[i] : i \in DOMAIN CoremarkStages}

\* The pilot has the seeds of the performance run.
Program(stage) ==
  IF stage = "coremark_pilot" THEN "performance"
  ELSE IF stage = "dhrystone_pilot" THEN "dhrystone" ELSE stage

-----------------------------------------------------------------------------
VARIABLES cost,        \* of the programs, in CostChoices
          runs,        \* invocations so far
          args, todo,  \* of this one, and the stages still to do
          pc,          \* the step of the stage
          iterations,  \* as calibrated
          hex,         \* the images under build/bench
          rom,         \* rom.hex in the working directory
          log,         \* of the stage
          results,     \* the rows so far
          summary,     \* summary.json
          exit         \* how this invocation ended

vars == <<cost, runs, args, todo, pc, iterations, hex, rom, log, results, summary, exit>>

NoImage   == [isa |-> "none", program |-> "none", iterations |-> 0, tps |-> 0, by |-> 0]
NoLog     == [image |-> NoImage, cycles |-> 0, complete |-> FALSE, validated |-> FALSE]
NoSummary == [by |-> 0, args |-> [benchmark |-> "all", mode |-> "smoke", isas |-> <<>>],
              results |-> <<>>]
Ended     == {"ok", "tool", "build", "simulator", "missing", "short", "invalid"}

Init ==
  /\ cost \in CostChoices
  /\ runs = 0 /\ args \in Args /\ todo = <<>>
  /\ pc = "idle" /\ iterations = 1
  /\ hex = [path \in {} |-> NoImage] /\ rom = NoImage /\ log = NoLog
  /\ results = <<>> /\ summary = NoSummary /\ exit = "ok"

Stage   == Head(todo).stage
ThisIsa == Head(todo).isa

\* SystemExit, RuntimeError or an error nobody catches: main never comes to
\* write_summary.
Fails(why) ==
  /\ pc' = "idle" /\ exit' = why
  /\ UNCHANGED <<results, summary>>

\* main: a failing git or gcc is "unknown", one that is not there ends it.
Start(a) ==
  /\ pc = "idle" /\ runs < MaxRuns
  /\ runs' = runs + 1
  /\ args' = a /\ todo' = WorkList(a)
  /\ results' = <<>> /\ iterations' = 1
  /\ \/ exit' = "running" /\ pc' = IF todo' = <<>> THEN "write" ELSE "build"
     \/ exit' = "tool" /\ pc' = "idle"
  /\ UNCHANGED <<cost, hex, rom, log, summary>>

-----------------------------------------------------------------------------
(* One stage: build_coremark or build_dhrystone, run_sim, the checks *)

StageIterations ==
  IF Stage = "coremark_pilot" THEN 1
  ELSE IF Stage = "dhrystone_pilot" THEN PilotIter[args.mode]
  ELSE iterations

Path == <<ThisIsa, IF Coremark(Stage) THEN Stage ELSE "dhrystone",
          IF Coremark(Stage) THEN 0 ELSE StageIterations>>

\* Dhrystone is built without COREMARK_TICKS_PER_SEC.
Image ==
  [isa |-> ThisIsa, program |-> Program(Stage), iterations |-> StageIterations,
   tps |-> IF Coremark(Stage) THEN TicksPerSec[args.mode] ELSE 0, by |-> runs]

Put(f, x, v) == [y \in DOMAIN f \cup {x} |-> IF y = x THEN v ELSE f[y]]

\* Variant: an image that is there is not built again.
BuiltOnce == IF Path \in DOMAIN hex THEN hex ELSE Put(hex, Path, Image)

Built == Put(hex, Path, Image)

Build ==
  /\ pc = "build"
  /\ \/ hex' = Built /\ pc' = "stage" /\ UNCHANGED <<results, summary, exit>>
     \/ Fails("build") /\ UNCHANGED hex
  /\ UNCHANGED <<cost, runs, args, todo, iterations, rom, log>>

\* main.cpp copies the image to rom.hex, which is what the design loads.
StageHex ==
  /\ pc = "stage"
  /\ rom' = hex[Path]
  /\ pc' = "simulate"
  /\ UNCHANGED <<cost, runs, args, todo, iterations, hex, log, results, summary, exit>>

Cycles(image) == Overhead + image.iterations * cost[image.isa][image.program]
Secs(image)   == Cycles(image) \div image.tps

\* What the program in rom.hex prints, its answers being right or not and its
\* lines there or not.  CoreMark asks for 10 seconds and ends as passed in any
\* case, Dhrystone fails when it is not valid.
Logs ==
  {[image |-> rom, cycles |-> Cycles(rom), complete |-> c,
    validated |-> right /\ (rom.program # "dhrystone" => Secs(rom) >= 10)] :
      c, right \in BOOLEAN}

TimesOut == Cycles(rom) > Timeout

\* Variant: no cycle limit.
SimulateForever ==
  /\ pc = "simulate" /\ ~TimesOut
  /\ log' \in Logs
  /\ \/ /\ rom.program = "dhrystone" => log'.validated
        /\ pc' = "check" /\ UNCHANGED <<results, summary, exit>>
     \/ Fails("simulator")
  /\ UNCHANGED <<cost, runs, args, todo, iterations, hex, rom>>

Simulate ==
  /\ pc = "simulate"
  /\ log' \in Logs
  /\ \/ /\ ~TimesOut /\ (rom.program = "dhrystone" => log'.validated)
        /\ pc' = "check" /\ UNCHANGED <<results, summary, exit>>
     \/ Fails("simulator")
  /\ UNCHANGED <<cost, runs, args, todo, iterations, hex, rom>>

MinCycles == IF Coremark(Stage) THEN CoreMin[args.mode] ELSE DhryMin[args.mode]

Larger(a, b)  == IF a > b THEN a ELSE b
Smaller(a, b) == IF a < b THEN a ELSE b
CeilDiv(a, b) == (a + b - 1) \div b

\* Cycles of one iteration, as the pilot has them.
PerIteration == IF Coremark(Stage) THEN log.cycles ELSE log.cycles \div PilotIter[args.mode]

\* Variant: no 2 % above the minimum.
NeededExactly == Larger(1, CeilDiv(MinCycles, Larger(1, PerIteration)))

Needed == Larger(1, CeilDiv(CeilDiv(102 * MinCycles, 100), Larger(1, PerIteration)))

\* A smoke run stops at 2 iterations of CoreMark, 10 of Dhrystone.
Capped(n) ==
  IF args.mode = "publish" THEN n
  ELSE IF Coremark(Stage) THEN Larger(1, Smaller(n, 2)) ELSE Larger(2, Smaller(n, 10))

Calibrate ==
  /\ pc = "check" /\ Pilot(Stage)
  /\ \/ /\ log.complete
        /\ iterations' = Capped(Needed)
        /\ todo' = Tail(todo) /\ pc' = "build"
        /\ UNCHANGED <<results, summary, exit>>
     \/ /\ ~log.complete /\ Fails("missing")
        /\ UNCHANGED <<todo, iterations>>
  /\ UNCHANGED <<cost, runs, args, hex, rom, log>>

TooShort == args.mode = "publish" /\ log.cycles < MinCycles

Row ==
  [isa |-> ThisIsa, stage |-> Stage, iterations |-> log.image.iterations,
   cycles |-> log.cycles, validated |-> log.validated, image |-> log.image]

\* Variant: the rows of one ISA take the place of those before.
Replaced == IF Stage = "performance" THEN <<Row>> ELSE Append(results, Row)

Extended == Append(results, Row)

\* CoreMark is refused for its cycles first, Dhrystone for its answer.
Record ==
  /\ pc = "check" /\ ~Pilot(Stage)
  /\ \/ /\ log.complete /\ ~TooShort /\ log.validated
        /\ results' = Extended
        /\ todo' = Tail(todo) /\ pc' = IF todo' = <<>> THEN "write" ELSE "build"
        /\ UNCHANGED <<summary, exit>>
     \/ /\ \/ ~log.complete /\ Fails("missing")
           \/ log.complete /\ TooShort /\ (Coremark(Stage) \/ log.validated) /\ Fails("short")
           \/ log.complete /\ ~log.validated /\ (Coremark(Stage) => ~TooShort) /\ Fails("invalid")
        /\ UNCHANGED todo
  /\ UNCHANGED <<cost, runs, args, iterations, hex, rom, log>>

write_summary ==
  /\ pc = "write"
  /\ summary' = [by |-> runs, args |-> args, results |-> results]
  /\ pc' = "idle" /\ exit' = "ok"
  /\ UNCHANGED <<cost, runs, args, todo, iterations, hex, rom, log, results>>

Script == Build \/ StageHex \/ Simulate \/ Calibrate \/ Record \/ write_summary
Next == Script \/ \E a \in Args : Start(a)

Spec == Init /\ [][Next]_vars

\* Every command the script waits for ends; the simulator at its cycle limit.
FairSpec == Spec /\ WF_vars(Script)

-----------------------------------------------------------------------------
(* Properties *)

\* The state's shape; a smoke run has few iterations whatever the pilot took.
TypeOK ==
  /\ runs \in 0 .. MaxRuns /\ args \in Args
  /\ pc \in {"idle", "build", "stage", "simulate", "check", "write"}
  /\ exit \in Ended \cup {"running"} /\ (pc = "idle" <=> exit # "running")
  /\ iterations \in Nat \ {0} /\ (args.mode = "smoke" => iterations <= 10)

\* What a list of work has measured stages of, in its order.
Asked(w) ==
  LET upTo[k \in 0 .. Len(w)] ==
        IF k = 0 THEN <<>>
        ELSE IF Pilot(w[k].stage) THEN upTo[k - 1] ELSE Append(upTo[k - 1], w[k])
  IN upTo[Len(w)]

\* The summary on disk has one row for every ISA and benchmark its own
\* invocation was asked for, in the order asked: no invocation that failed on
\* the way, and none before it, left a part of one.
SummaryComplete ==
  summary.by # 0 =>
    [i \in DOMAIN summary.results |->
       [isa |-> summary.results[i].isa, stage |-> summary.results[i].stage]] =
    Asked(WorkList(summary.args))

\* A row was measured on the image this invocation compiled for its ISA, its
\* seeds and its mode, though images of earlier ones lie at the same paths.
\* It is valid and, in a publish run, no shorter than the rules ask; a
\* CoreMark row has its 10 seconds even in a smoke run.
RowsMeasured ==
  \A i \in DOMAIN results :
    LET r == results[i]
    IN /\ r.image.by = runs /\ r.image.isa = r.isa /\ r.image.program = Program(r.stage)
       /\ r.validated /\ r.cycles = Cycles(r.image) /\ r.cycles <= Timeout
       /\ Coremark(r.stage) =>
            /\ r.image.tps = TicksPerSec[args.mode] /\ Secs(r.image) >= 10
            /\ r.cycles >= CoreMin[args.mode]
       /\ args.mode = "publish" /\ ~Coremark(r.stage) => r.cycles >= DhryMin[args.mode]

\* Calibration suffices: a publish run is refused as too short only if the
\* pilot's iteration took over 2 % more than one of the measured run.
CalibrationSuffices ==
  exit = "short" =>
    LET c     == cost[ThisIsa][Program(Stage)]
        pilot == IF Coremark(Stage) THEN Overhead + cost[ThisIsa]["performance"]
                 ELSE c + Overhead \div PilotIter[args.mode]
    IN 102 * c < 100 * pilot

\* Every invocation ends, a program that never halts included.
Ends == exit = "running" ~> exit # "running"
=============================================================================
