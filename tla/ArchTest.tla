------------------------------ MODULE ArchTest ------------------------------
(***************************************************************************)
(* The architecture tests: the list filters filter_testlist.py and         *)
(* filter_act_testlist.py, and a RISCOF run with the plugins               *)
(* riscof_sisrv.py (the core under Verilator) and riscof_spike.py (the     *)
(* reference).  RISCOF itself, gcc, nm, make, Spike and the simulator are  *)
(* modelled by what the plugins make of them.                              *)
(*                                                                         *)
(* Tests are numbered in the order of their keys.  Suite[t] says what the  *)
(* filters look at: the excluded parts of its path, whether it matches the *)
(* name asked for, the preferred directory and the hints.                  *)
(***************************************************************************)
EXTENDS HexImage, FiniteSets, FiniteSetsExt

CONSTANTS Suite,       \* the tests of test_list.yaml
          Files,       \* the ELF files a compiler may leave
          Configured   \* toolchain_prefix

ASSUME ArchAssumption ==
  /\ DOMAIN Suite \subseteq Nat /\ IsFiniteSet(DOMAIN Suite)
  /\ \A t \in DOMAIN Suite :
       /\ Suite[t].match \in BOOLEAN /\ Suite[t].prefer \in BOOLEAN
       /\ Suite[t].hint \in BOOLEAN
  /\ \A f \in Files : f.segs \in Seq(SegmentSet)

Tests == DOMAIN Suite
First(S) == CHOOSE t \in S : \A u \in S : t <= u

-----------------------------------------------------------------------------
(* The filters *)

EXCLUDE_PATH_PARTS ==
  <<"/pmp/", "/A/", "/privilege/", "/vm_pmp/", "/pmps/", "/pmpzicbo/", "/vm_sv", "/vm_">>
FULL_PATH_PARTS == SubSeq(EXCLUDE_PATH_PARTS, 4, 8)

exclude_parts(goal) == IF goal = "act-full" THEN FULL_PATH_PARTS ELSE EXCLUDE_PATH_PARTS
Hits(t, parts) == {i \in DOMAIN parts : parts[i] \in Suite[t].parts}
should_exclude(t, parts) == Hits(t, parts) # {}

\* Variant: a test is counted under every part it hits.
BreakdownEvery(parts) == [i \in DOMAIN parts |-> Cardinality({t \in Tests : i \in Hits(t, parts)})]

\* A test is counted under the first part it hits.
Breakdown(parts) ==
  [i \in DOMAIN parts |->
     Cardinality({t \in Tests : should_exclude(t, parts) /\ First(Hits(t, parts)) = i})]

\* Variant: the first of the tests with the stem.
pick_first(keys) == First(keys)

\* Of several tests with the stem, one in the preferred directory, then one
\* that is no hint, then any; of several of these the first.
pick_match(keys) ==
  LET preferred == {t \in keys : Suite[t].prefer}
      non_hints == {t \in keys : ~Suite[t].hint}
  IN IF preferred # {} THEN First(preferred)
     ELSE IF non_hints # {} THEN First(non_hints)
     ELSE First(keys)

Matches == {t \in Tests : Suite[t].match}

-----------------------------------------------------------------------------
VARIABLES goal,        \* the make target
          target_run,  \* whether the core is to be run at all
          host,        \* what is installed
          stage,       \* how far the run is
          selected,    \* the tests of the filtered list
          counts,      \* what filter_act_testlist reports
          prefix,      \* the compiler in each plugin's command line
          todo,        \* the tests the present loop has still to do
          file,        \* the ELF file of the test the core is at, and
          hex,         \* its rom.hex and ram.hex; later tests read neither
          outcome,     \* what the simulator did with each test
          sig,         \* the signature files
          verdict      \* RISCOF's comparison

vars == <<goal, target_run, host, stage, selected, counts, prefix, todo, file,
          hex, outcome, sig, verdict>>

Prefixes == {"riscv64-unknown-elf-", "riscv64-linux-gnu-"} \cup {Configured}
Host     == Prefixes \cup {"simulator", "elf2sisrv", "spike"}
Plugins  == {"dut", "ref"}
NoFile   == [elf |-> FALSE, class |-> 0, segs |-> <<>>, labels |-> FALSE]
NoHex    == [written |-> FALSE, rom |-> <<>>, ram |-> <<>>]
NoCounts == [kept |-> 0, excluded |-> 0, breakdown |-> <<>>]
Ends     == {"filter failed", "exit 1", "exit 0", "report"}

Init ==
  /\ goal \in {"smoke", "act", "act-full"}
  /\ target_run \in BOOLEAN
  /\ host \in {Host \ Missing : Missing \in {{}, {Configured}, Prefixes, {"spike"},
                                          {"simulator"}, {"elf2sisrv"}}}
              \cup {Host \ {Configured, "riscv64-unknown-elf-"}}
  /\ stage = "filter"
  /\ selected = {} /\ todo = {}
  /\ counts = NoCounts
  /\ prefix = [p \in Plugins |-> Configured]
  /\ file = NoFile /\ hex = NoHex
  /\ outcome = [t \in Tests |-> "not run"]
  /\ sig = [p \in Plugins |-> [t \in Tests |-> "none"]]
  /\ verdict = [t \in Tests |-> "none"]

\* filter_testlist.py: one test, or an error.
FilterSmoke ==
  /\ stage = "filter" /\ goal = "smoke"
  /\ \/ Matches = {} /\ stage' = "filter failed" /\ UNCHANGED selected
     \/ Matches # {} /\ stage' = "build" /\ selected' = {pick_match(Matches)}
  /\ UNCHANGED <<goal, target_run, host, counts, prefix, todo, file, hex, outcome, sig, verdict>>

\* filter_act_testlist.py
FilterAct ==
  /\ stage = "filter" /\ goal # "smoke"
  /\ LET parts == exclude_parts(goal)
         kept  == {t \in Tests : ~should_exclude(t, parts)}
     IN /\ selected' = kept
        /\ counts' = [kept |-> Cardinality(kept),
                      excluded |-> Cardinality(Tests) - Cardinality(kept),
                      breakdown |-> Breakdown(parts)]
  /\ stage' = "build"
  /\ UNCHANGED <<goal, target_run, host, prefix, todo, file, hex, outcome, sig, verdict>>

\* The compiler as configured, or the first fallback there is.
Resolved(p) ==
  IF p \in host THEN p
  ELSE IF "riscv64-unknown-elf-" \in host THEN "riscv64-unknown-elf-"
  ELSE "riscv64-linux-gnu-"

\* Variant: the fallback is found but not put into the command.
CommandKept(p) == p

\* The compiler in the plugin's command line after build().
Command(p) == Resolved(p)

\* build() of both plugins: SystemExit(1) if anything needed is missing.
Build ==
  /\ stage = "build"
  /\ IF /\ \A p \in Plugins : Resolved(prefix[p]) \in host
        /\ {"simulator", "elf2sisrv", "spike"} \subseteq host
     THEN /\ prefix' = [p \in Plugins |-> Command(prefix[p])]
          /\ stage' = "compile" /\ todo' = selected
     ELSE stage' = "exit 1" /\ UNCHANGED <<prefix, todo>>
  /\ UNCHANGED <<goal, target_run, host, selected, counts, file, hex, outcome, sig, verdict>>

-----------------------------------------------------------------------------
(* sisrv.runTests, one test after the other *)

\* The compiler leaves an ELF file, or fails and leaves none; nobody looks at
\* its exit status.
Compile ==
  /\ stage = "compile" /\ todo # {}
  /\ \/ target_run /\ file' \in Files \cup {NoFile} /\ stage' = "convert" /\ UNCHANGED todo
     \/ ~target_run /\ todo' = todo \ {First(todo)} /\ UNCHANGED <<file, stage>>
  /\ UNCHANGED <<goal, target_run, host, selected, counts, prefix, hex, outcome, sig, verdict>>

\* Variant: a file elf2sisrv refuses is compiled again.
ConvertAgain ==
  /\ stage = "convert"
  /\ hex' = IF Accepted(file)
            THEN [written |-> TRUE, rom |-> RomHex(file), ram |-> RamHex(file)]
            ELSE NoHex
  /\ stage' = IF Accepted(file) THEN "symbols" ELSE "compile"
  /\ UNCHANGED <<goal, target_run, host, selected, counts, prefix, todo, file, outcome, sig, verdict>>

\* elf2sisrv writes both images or, on an exception, neither.
Convert ==
  /\ stage = "convert"
  /\ hex' = IF Accepted(file)
            THEN [written |-> TRUE, rom |-> RomHex(file), ram |-> RamHex(file)]
            ELSE NoHex
  /\ stage' = "symbols"
  /\ UNCHANGED <<goal, target_run, host, selected, counts, prefix, todo, file, outcome, sig, verdict>>

\* nm finds both signature labels, or the whole run ends.
_symbol_addr ==
  /\ stage = "symbols"
  /\ stage' = IF file.elf /\ file.labels THEN "simulate" ELSE "exit 1"
  /\ UNCHANGED <<goal, target_run, host, selected, counts, prefix, todo, file, hex, outcome, sig, verdict>>

\* The program is in memory, and the RAM around it is 0.
SameMemory ==
  \A a \in Addresses :
    Placed(file, a) \/ a >= RamBase =>
      MemoryByte(hex.rom, hex.ram, a) = LoaderByte(file, a)

\* How a simulation can end: a program that is in memory as it should be may
\* halt or not; without images there is no program.
Outcomes == IF hex.written THEN {"halt", "other code", "timeout"} ELSE {"timeout"}

\* Variant: at any end of the simulation.
DumpsAlways(how) == BOOLEAN

\* Whether the signature is written: at the RISCOF halt only, and not if the
\* file cannot be opened.
DumpsSignature(how) == IF how = "halt" THEN BOOLEAN ELSE {FALSE}

\* A program that does not fit into the memories is not what is simulated.
Simulate ==
  /\ stage = "simulate"
  /\ LET t == First(todo)
     IN \E how \in Outcomes : \E right \in BOOLEAN, dumped \in DumpsSignature(how) :
          /\ right => SameMemory /\ Fits(file)
          /\ outcome' = [outcome EXCEPT ![t] = how]
          /\ sig' = IF dumped
                    THEN [sig EXCEPT !["dut"][t] = IF right THEN "right" ELSE "wrong"]
                    ELSE sig
          /\ todo' = todo \ {t}
  /\ stage' = "compile"
  /\ file' = NoFile /\ hex' = NoHex
  /\ UNCHANGED <<goal, target_run, host, selected, counts, prefix, verdict>>

\* After the last test; without target_run the whole run ends here.
DutDone ==
  /\ stage = "compile" /\ todo = {}
  /\ IF target_run THEN stage' = "reference" /\ todo' = selected
     ELSE stage' = "exit 0" /\ UNCHANGED todo
  /\ UNCHANGED <<goal, target_run, host, selected, counts, prefix, file, hex, outcome, sig, verdict>>

-----------------------------------------------------------------------------
(* spike.runTests: one make target per test, in any order; then RISCOF *)

\* Compiling, then Spike, which leaves a signature unless one of them fails.
RefTarget(t) ==
  /\ stage = "reference" /\ t \in todo
  /\ todo' = todo \ {t}
  /\ \/ sig' = [sig EXCEPT !["ref"][t] = "right"]
     \/ UNCHANGED sig
  /\ UNCHANGED <<goal, target_run, host, stage, selected, counts, prefix, file, hex, outcome, verdict>>

\* Variant: only tests the core left a signature of are compared.
RefDoneSigned ==
  /\ stage = "reference" /\ todo = {}
  /\ stage' = "compare" /\ todo' = {t \in selected : sig["dut"][t] # "none"}
  /\ UNCHANGED <<goal, target_run, host, selected, counts, prefix, file, hex, outcome, sig, verdict>>

RefDone ==
  /\ stage = "reference" /\ todo = {}
  /\ stage' = "compare" /\ todo' = selected
  /\ UNCHANGED <<goal, target_run, host, selected, counts, prefix, file, hex, outcome, sig, verdict>>

\* A missing signature ends the run, two that differ fail the test.
Compare ==
  /\ stage = "compare" /\ todo # {}
  /\ LET t == First(todo)
     IN IF "none" \in {sig[p][t] : p \in Plugins}
        THEN stage' = "exit 1" /\ UNCHANGED <<todo, verdict>>
        ELSE /\ verdict' = [verdict EXCEPT ![t] =
                              IF sig["dut"][t] = sig["ref"][t] THEN "Passed" ELSE "Failed"]
             /\ todo' = todo \ {t}
             /\ UNCHANGED stage
  /\ UNCHANGED <<goal, target_run, host, selected, counts, prefix, file, hex, outcome, sig>>

Report ==
  /\ stage = "compare" /\ todo = {}
  /\ stage' = "report"
  /\ UNCHANGED <<goal, target_run, host, selected, counts, prefix, todo, file, hex, outcome, sig, verdict>>

Ended == stage \in Ends /\ UNCHANGED vars

Running == FilterSmoke \/ FilterAct \/ Build \/ Compile \/ Convert \/ _symbol_addr
             \/ Simulate \/ DutDone \/ (\E t \in Tests : RefTarget(t)) \/ RefDone
             \/ Compare \/ Report
Next == Running \/ Ended

Spec == Init /\ [][Next]_vars

\* Every tool ends: the simulator has a cycle limit, the tests halt on Spike.
FairSpec == Spec /\ WF_vars(Running)

-----------------------------------------------------------------------------
(* Properties *)

TypeOK ==
  /\ stage \in {"filter", "build", "compile", "convert", "symbols", "simulate",
                "reference", "compare"} \cup Ends
  /\ selected \subseteq Tests /\ todo \subseteq selected
  /\ counts.kept \in Nat /\ counts.excluded \in Nat
  /\ prefix \in [Plugins -> Prefixes]
  /\ file \in Files \cup {NoFile}
  /\ outcome \in [Tests -> {"not run", "halt", "other code", "timeout"}]
  /\ sig \in [Plugins -> [Tests -> {"none", "right", "wrong"}]]
  /\ verdict \in [Tests -> {"none", "Passed", "Failed"}]

\* Wherever the file has a byte, the simulator's memory has it too, and the
\* rest of the RAM, where .bss lies, is 0: overlapping segments, gaps, segments
\* that start between words, end between words or lie across the start of the
\* RAM (elf2sisrv.py:78-115), on the fill of sisRom.sv:31 and sisRam.sv:43.
ImageFaithful == hex.written => SameMemory

\* A test passes only if the core ran it to the halt in this run and computed
\* what the reference computed; every failure on the way, a compiler error
\* nobody looks at included, shows (riscof_sisrv.py:114-156).
PassedMeansRan ==
  \A t \in Tests : verdict[t] = "Passed" =>
     outcome[t] = "halt" /\ sig["dut"][t] = "right" /\ sig["ref"][t] = "right"

\* The report has a verdict on every test of the list and on no other.
ReportComplete ==
  stage = "report" => {t \in Tests : verdict[t] # "none"} = selected

Total(f) == MapThenSumSet(LAMBDA i : f[i], DOMAIN f)

\* Every test is kept or accounted for under one part of its path, and what
\* is kept for CI is kept by --full too (filter_act_testlist.py:59-78).
FilterAccounts ==
  goal # "smoke" /\ stage # "filter" =>
    /\ counts.kept + counts.excluded = Cardinality(Tests)
    /\ counts.excluded = Total(counts.breakdown)
    /\ \A t \in selected :
         \A i \in DOMAIN FULL_PATH_PARTS : FULL_PATH_PARTS[i] \notin Suite[t].parts
    /\ goal = "act" =>
         \A t \in selected :
           \A i \in DOMAIN EXCLUDE_PATH_PARTS : EXCLUDE_PATH_PARTS[i] \notin Suite[t].parts

\* The smoke test runs one test, a match, from the preferred directory if
\* there is one there and a hint only if there is nothing else
\* (filter_testlist.py:12-31).
SmokePicks ==
  goal = "smoke" /\ selected # {} =>
    \E t \in Matches :
      /\ selected = {t}
      /\ (\E u \in Matches : Suite[u].prefer) => Suite[t].prefer
      /\ Suite[t].hint => \A u \in Matches : Suite[u].hint \/ Suite[t].prefer

\* Nothing is compiled, converted or looked up with a compiler that is not
\* installed, whichever prefix had to be replaced (riscof_sisrv.py:76-87,
\* riscof_spike.py:54-74).
CompilerFound ==
  stage \in {"compile", "convert", "symbols", "simulate", "reference", "compare", "report"} =>
    \A p \in Plugins : prefix[p] \in host

\* Every run ends, in a report or with an exit status.
RunEnds == <>(stage \in Ends)
=============================================================================
