------------------------------ MODULE Lockstep ------------------------------
(***************************************************************************)
(* verification/cosim/spike_lockstep.py: a pool of workers runs one random *)
(* program per seed on Spike and on the Verilator model of the core and    *)
(* compares the instructions the two retire.                               *)
(*                                                                         *)
(* A retired instruction is the pair (pc, insn).  Addresses are counted    *)
(* from the reset vector: the program's n-th instruction is at pc n, and   *)
(* Spike's boot code is below Reset.  Registers and data are left out: the *)
(* script reads neither from the logs.                                     *)
(***************************************************************************)
EXTENDS Integers, Sequences

CONSTANTS NumSeeds,      \* --seeds
          Insns,         \* --insns, which is also the least number to compare
          Profile,       \* --profile
          RequireSpike,  \* --require-spike
          ChunkSize,     \* chunksize of imap_unordered
          Workers,       \* the processes of the pool, --jobs of them
          SpikeStops,    \* bound: what Spike has logged when it is stopped
          RtlStops,      \* bound: what the core has retired at the cycle limit
          Defects,       \* bound: where the core goes wrong, if it does
          MaxDeaths      \* bound: worker processes killed from outside

Profiles == {"rv32im", "rv32imac", "rv32imac-u-pmp"}

ASSUME LockstepAssumption ==
  /\ NumSeeds \in Nat /\ Insns \in Nat /\ MaxDeaths \in Nat
  /\ SpikeStops \subseteq Nat /\ RtlStops \subseteq Nat /\ Defects \subseteq Nat \ {0}
  /\ ChunkSize \in Nat \ {0}
  /\ Profile \in Profiles
  /\ RequireSpike \in BOOLEAN

Seeds    == 0 .. NumSeeds - 1
Chunk(s) == s \div ChunkSize

\* Variant: the last, shorter chunk is never made.
FullChunks == {Chunk(s) : s \in {t \in Seeds : t % ChunkSize = ChunkSize - 1}}

Chunks   == {Chunk(s) : s \in Seeds}
SeedsOf(k) == {s \in Seeds : Chunk(s) = k}
Lesser(a, b) == IF a < b THEN a ELSE b
IsFirst(s, S) == s \in S /\ \A t \in S : s <= t

-----------------------------------------------------------------------------
(* Programs and logs *)

\* Instructions in front of the random ones: setting up the base registers
\* and, for u-pmp, opening PMP entry 0 and leaving machine mode.
Preamble ==
  [p \in Profiles |-> IF p = "rv32im" THEN 0 ELSE IF p = "rv32imac" THEN 4 ELSE 17]

Body == Preamble[Profile] + Insns
Reset == 1

\* What a correct hart retires: the program, then its tail loop for ever.
Trace(i) == LET at == Lesser(i, Body + 1) IN [pc |-> at, insn |-> at]
Retires(n) == [i \in 1 .. n |-> Trace(i)]

Boot == [pc |-> 0, insn |-> 0]
SpikeLogs ==
  {<<Boot>> \o Retires(n) : n \in SpikeStops}

\* Variant: the boot code is left in.
spike_all_commits(log) == log

spike_program_commits(log) ==
  LET upTo[n \in 0 .. Len(log)] ==
        IF n = 0 THEN <<>>
        ELSE IF log[n].pc >= Reset THEN Append(upTo[n - 1], log[n]) ELSE upTo[n - 1]
  IN upTo[Len(log)]

\* The j-th commit of a core that is right before its i-th instruction and
\* there retires another one, leaves one out or retires one twice.
Other(i, j) == IF j = i THEN [pc |-> Trace(j).pc, insn |-> 0] ELSE Trace(j)
Skip(i, j)  == IF j < i THEN Trace(j) ELSE Trace(j + 1)
Again(i, j) == IF j > i THEN Trace(j - 1) ELSE Trace(j)

RtlLogs ==
  {Retires(n) : n \in RtlStops}
    \cup {[j \in 1 .. n |-> Other(i, j)] : i \in Defects, n \in RtlStops}
    \cup {[j \in 1 .. n |-> Skip(i, j)]  : i \in Defects, n \in RtlStops}
    \cup {[j \in 1 .. n |-> Again(i, j)] : i \in Defects, n \in RtlStops}

\* The verdict on a seed; everything but "agree" is an error message.
Verdicts == {"agree", "no spike", "no rtl", "short", "mismatch"}

\* Variant: no least number of instructions to compare.
compare_any_number(spike, rtl) ==
  IF \E i \in 1 .. Lesser(Len(spike), Len(rtl)) : spike[i] # rtl[i] THEN "mismatch"
  ELSE "agree"

compare_commits(spike, rtl) ==
  LET limit == Lesser(Len(spike), Len(rtl))
  IN IF spike = <<>> THEN "no spike"
     ELSE IF rtl = <<>> THEN "no rtl"
     ELSE IF limit < Insns THEN "short"
     ELSE IF \E i \in 1 .. limit : spike[i] # rtl[i] THEN "mismatch"
     ELSE "agree"

-----------------------------------------------------------------------------
VARIABLES main,       \* where main() is: see Ends for how it returns
          tools,      \* what the host has installed
          queue,      \* chunks no worker has taken yet
          worker,     \* what each process of the pool is doing
          logs,       \* each seed's commit logs, in its own directory
          results,    \* finished chunks on their way to main(), unordered
          current,    \* the chunk main() is going through
          collected,  \* chunks main() has taken
          completed,  \* the counter main() reports
          report,     \* the error main() printed
          deaths

vars == <<main, tools, queue, worker, logs, results, current, collected,
          completed, report, deaths>>

NotRun   == <<[pc |-> -1, insn |-> -1]>>   \* no log yet
NoReport == [seed |-> -1, error |-> "none"]
NoChunk  == -1
Ends    == {"pass", "fail", "raised"}
NoResults == [s \in {} |-> "agree"]
With(res, s, verdict) == [t \in DOMAIN res \cup {s} |-> IF t = s THEN verdict ELSE res[t]]
Idle      == [stage |-> "idle", chunk |-> NoChunk, seed |-> NoChunk, res |-> NoResults]
Working(k, s, res) == [stage |-> "build", chunk |-> k, seed |-> s, res |-> res]
NoCurrent == [left |-> {}, res |-> NoResults]

Init ==
  /\ main = "check"
  /\ tools \in SUBSET {"simulator", "gcc", "spike"}
  /\ queue = Chunks
  /\ worker = [w \in Workers |-> Idle]
  /\ logs = [s \in Seeds |-> [spike |-> NotRun, rtl |-> NotRun]]
  /\ results = {}
  /\ current = NoCurrent
  /\ collected = {}
  /\ completed = 0
  /\ report = NoReport
  /\ deaths = 0

find_toolchain == "gcc" \in tools
ToolsFound == /\ "simulator" \in tools
              /\ find_toolchain
              /\ RequireSpike => "spike" \in tools

\* The checks before the pool is made: without its tools main() returns 1.
CheckTools ==
  /\ main = "check"
  /\ \/ ToolsFound /\ main' = "collect"
     \/ ~ToolsFound /\ main' = "fail"
  /\ UNCHANGED <<tools, queue, worker, logs, results, current, collected,
                 completed, report, deaths>>

-----------------------------------------------------------------------------
(* A worker of the pool *)

At(w, stage) == main = "collect" /\ worker[w].stage = stage

\* Variant: the chunk stays in the queue.
TakeChunkAndKeep(w) ==
  /\ At(w, "idle")
  /\ \E k \in queue : \E s \in SeedsOf(k) :
       worker' = [worker EXCEPT ![w] = Working(k, s, NoResults)]
  /\ UNCHANGED <<main, tools, queue, logs, results, current, collected,
                 completed, report, deaths>>

\* The queue of tasks hands out the chunks in order.
TakeChunk(w) ==
  /\ At(w, "idle")
  /\ \E k \in queue : \E s \in SeedsOf(k) :
       /\ IsFirst(k, queue) /\ IsFirst(s, SeedsOf(k))
       /\ queue' = queue \ {k}
       /\ worker' = [worker EXCEPT ![w] = Working(k, s, NoResults)]
  /\ UNCHANGED <<main, tools, logs, results, current, collected, completed,
                 report, deaths>>

\* gen_program_asm, write_elf and elf_to_hex succeed.
BuildProgram(w) ==
  /\ At(w, "build")
  /\ worker' = [worker EXCEPT ![w].stage = "spike"]
  /\ UNCHANGED <<main, tools, queue, logs, results, current, collected,
                 completed, report, deaths>>

\* Spike runs into its time limit in the tail loop, with as much of the log
\* as it had written, or ends by itself and has retired something.
run_spike(w) ==
  /\ At(w, "spike")
  /\ "spike" \in tools
  /\ \E log \in SpikeLogs :
       logs' = [logs EXCEPT ![worker[w].seed].spike = spike_program_commits(log)]
  /\ worker' = [worker EXCEPT ![w].stage = "rtl"]
  /\ UNCHANGED <<main, tools, queue, results, current, collected, completed,
                 report, deaths>>

\* The simulator stops at its cycle limit, its log complete.
run_verilator(w) ==
  /\ At(w, "rtl")
  /\ \E log \in RtlLogs : logs' = [logs EXCEPT ![worker[w].seed].rtl = log]
  /\ worker' = [worker EXCEPT ![w].stage = "compare"]
  /\ UNCHANGED <<main, tools, queue, results, current, collected, completed,
                 report, deaths>>

\* The seed's verdict joins the results of the chunk; with the last one the
\* chunk is handed back.
CompareSeed(w) ==
  LET s    == worker[w].seed
      k    == worker[w].chunk
      res  == With(worker[w].res, s, compare_commits(logs[s].spike, logs[s].rtl))
      left == SeedsOf(k) \ DOMAIN res
  IN /\ At(w, "compare")
     /\ \/ /\ \E next \in left :
                /\ IsFirst(next, left)
                /\ worker' = [worker EXCEPT ![w] = Working(k, next, res)]
           /\ UNCHANGED results
        \/ /\ left = {}
           /\ worker' = [worker EXCEPT ![w] = Idle]
           /\ results' = results \cup {[chunk |-> k, raised |-> FALSE, res |-> res]}
     /\ UNCHANGED <<main, tools, queue, logs, current, collected, completed,
                    report, deaths>>

\* Variant: the exception is swallowed in the worker.
RaiseUnseen(w) ==
  /\ \E stage \in {"build", "spike", "rtl"} : At(w, stage)
  /\ worker' = [worker EXCEPT ![w] = Idle]
  /\ UNCHANGED <<main, tools, queue, logs, results, current, collected,
                 completed, report, deaths>>

\* gcc, elf2sisrv, Spike or the simulator failed: the exception ends the
\* whole chunk and is handed back in place of its results.
RaiseInWorker(w) ==
  /\ \E stage \in {"build", "spike", "rtl"} : At(w, stage)
  /\ results' = results \cup {[chunk |-> worker[w].chunk, raised |-> TRUE,
                               res |-> NoResults]}
  /\ worker' = [worker EXCEPT ![w] = Idle]
  /\ UNCHANGED <<main, tools, queue, logs, current, collected, completed,
                 report, deaths>>

\* The process is killed from outside.  The pool starts another one, but
\* nobody takes up the chunk again.
WorkerDies(w) ==
  /\ main = "collect" /\ worker[w].stage # "idle"
  /\ deaths < MaxDeaths
  /\ deaths' = deaths + 1
  /\ worker' = [worker EXCEPT ![w] = Idle]
  /\ UNCHANGED <<main, tools, queue, logs, results, current, collected,
                 completed, report>>

-----------------------------------------------------------------------------
(* main(): the loop over imap_unordered *)

CollectChunk ==
  /\ main = "collect" /\ current = NoCurrent
  /\ \E r \in results :
       /\ results' = results \ {r}
       /\ \/ r.raised /\ main' = "raised" /\ UNCHANGED <<current, collected>>
          \/ /\ ~r.raised
             /\ current' = [left |-> SeedsOf(r.chunk), res |-> r.res]
             /\ collected' = collected \cup {r.chunk}
             /\ UNCHANGED main
  /\ UNCHANGED <<tools, queue, worker, logs, completed, report, deaths>>

\* One verdict after the other: an error ends the run, any other is counted.
NextResult ==
  /\ main = "collect" /\ current # NoCurrent
  /\ \E s \in current.left :
       /\ IsFirst(s, current.left)
       /\ \/ /\ current.res[s] # "agree"
             /\ main' = "fail"
             /\ report' = [seed |-> s, error |-> current.res[s]]
             /\ UNCHANGED current
          \/ /\ current.res[s] = "agree"
             /\ current' = IF current.left = {s} THEN NoCurrent
                           ELSE [current EXCEPT !.left = @ \ {s}]
             /\ UNCHANGED <<main, report>>
  /\ completed' = completed + 1
  /\ UNCHANGED <<tools, queue, worker, logs, results, collected, deaths>>

\* The iterator is exhausted when it has delivered every chunk.
Pass ==
  /\ main = "collect" /\ current = NoCurrent
  /\ collected = Chunks
  /\ main' = "pass"
  /\ UNCHANGED <<tools, queue, worker, logs, results, current, collected,
                 completed, report, deaths>>

RunSeed(w) ==
  TakeChunk(w) \/ BuildProgram(w) \/ run_spike(w) \/ run_verilator(w)
    \/ CompareSeed(w) \/ RaiseInWorker(w)
Collect == CheckTools \/ CollectChunk \/ NextResult \/ Pass

Next == Collect \/ \E w \in Workers : RunSeed(w) \/ WorkerDies(w)

Spec == Init /\ [][Next]_vars

\* The operating system runs every process; Spike is stopped after a second
\* and the simulator after 1500 cycles.
FairSpec == Spec /\ WF_vars(Collect) /\ \A w \in Workers : WF_vars(RunSeed(w))
-----------------------------------------------------------------------------
(* Properties *)

\* A parser returns a list of commits.
Commits == [pc : Nat, insn : Nat]
Logs == Seq(Commits) \cup {NotRun}
PartialResults == UNION {[S -> Verdicts] : S \in SUBSET Seeds}
Stages  == {"idle", "build", "spike", "rtl", "compare"}

TypeOK ==
  /\ main \in {"check", "collect"} \cup Ends
  /\ tools \subseteq {"simulator", "gcc", "spike"}
  /\ queue \subseteq Chunks /\ collected \subseteq Chunks
  /\ worker \in [Workers -> [stage : Stages, chunk : Chunks \cup {NoChunk},
                             seed : Seeds \cup {NoChunk}, res : PartialResults]]
  /\ \A s \in Seeds : logs[s].spike \in Logs /\ logs[s].rtl \in Logs
  /\ results \subseteq [chunk : Chunks, raised : BOOLEAN, res : PartialResults]
  /\ current.left \subseteq Seeds /\ current.res \in PartialResults
  /\ completed \in 0 .. NumSeeds
  /\ report = NoReport \/ report \in [seed : Seeds, error : Verdicts]
  /\ deaths \in 0 .. MaxDeaths

\* Spike and the core retired the same instructions on seed s, at least as
\* many as were asked for and as far as both logs go.
Agreed(s) ==
  LET spike == logs[s].spike
      rtl   == logs[s].rtl
  IN /\ spike # NotRun /\ rtl # NotRun
     /\ Len(spike) >= Insns /\ Len(rtl) >= Insns
     /\ \A i \in DOMAIN spike \cap DOMAIN rtl : spike[i] = rtl[i]

\* main() returns 0 only if every seed was run and agreed, whatever the
\* order in which chunks were handed back, whichever worker failed or was
\* killed on the way (spike_lockstep.py:370-384).
PassSound == main = "pass" => \A s \in Seeds : Agreed(s)

\* The number of seeds main() has counted is the number whose verdict it has
\* looked at: with "pass" it is all of them (line 372 and the report).
CountsSeeds == main = "pass" => completed = NumSeeds

\* A mismatch main() reports is a deviation of that seed's core from the
\* program: Spike's log being cut short by its time limit, or the
\* simulator's by its cycle limit, is never reported as one.
NoFalseMismatch ==
  report.error = "mismatch" =>
    LET rtl == logs[report.seed].rtl IN \E i \in DOMAIN rtl : rtl[i] # Trace(i)

\* No seed is run a second time, and the logs a verdict came from stay what
\* they were: no worker touches another worker's directory (lines 318-337).
LogsKept ==
  \A s \in Seeds : /\ logs[s].spike # NotRun => UNCHANGED logs[s].spike
                  /\ logs[s].rtl # NotRun => UNCHANGED logs[s].rtl
RunOnce == [][LogsKept]_vars

\* If no worker is killed main() returns, whatever fails in the workers.
Returns == [](deaths = 0) => <>(main \in Ends)
=============================================================================
