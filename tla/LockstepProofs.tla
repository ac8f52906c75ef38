--------------------------- MODULE LockstepProofs ---------------------------
(***************************************************************************)
(* Theorems about Lockstep, for any number of seeds, chunk size, number of *)
(* workers, profile and logs.  The invariant follows each chunk from the   *)
(* queue through a worker and the results to main(): it is in at most one  *)
(* of these places, the verdicts that travel with it are the verdicts on   *)
(* the logs as they are, and the seeds still to come have not been run.    *)
(***************************************************************************)
EXTENDS Lockstep, FiniteSetTheorems, SequenceTheorems, WellFoundedInduction, TLAPS

Busy(w) == worker[w].stage # "idle"
Verdict(s) == compare_commits(logs[s].spike, logs[s].rtl)
Ran(s) == /\ logs[s].spike \in Seq(Commits) /\ logs[s].spike # NotRun
          /\ logs[s].rtl \in Seq(Commits) /\ logs[s].rtl # NotRun
Fresh(s) == logs[s].spike = NotRun /\ logs[s].rtl = NotRun
Faithful(res) == \A s \in DOMAIN res : Ran(s) /\ res[s] = Verdict(s)

\* A chunk has one holder: the queue, a worker, the results or main().
Owned ==
  /\ queue \subseteq Chunks
  /\ \A k \in queue : k \notin collected
  /\ \A w \in Workers : Busy(w) =>
       /\ worker[w].chunk \in Chunks
       /\ worker[w].chunk \notin queue
       /\ worker[w].chunk \notin collected
       /\ \A r \in results : r.chunk # worker[w].chunk
       /\ \A v \in Workers : v # w /\ Busy(v) => worker[v].chunk # worker[w].chunk
  /\ \A r \in results : r.chunk \in Chunks /\ r.chunk \notin queue /\ r.chunk \notin collected
  /\ \A r, q \in results : r.chunk = q.chunk => r = q

\* What a worker has in hand.
WorkerOK(w) ==
  LET p == worker[w]
  IN /\ p.seed \in SeedsOf(p.chunk)
     /\ DOMAIN p.res \subseteq SeedsOf(p.chunk) \ {p.seed}
     /\ Faithful(p.res)
     /\ p.stage \in {"build", "spike"} => Fresh(p.seed)
     /\ p.stage = "rtl" => /\ logs[p.seed].spike \in Seq(Commits)
                           /\ logs[p.seed].spike # NotRun
                           /\ logs[p.seed].rtl = NotRun
     /\ p.stage = "compare" => Ran(p.seed)
     /\ \A s \in SeedsOf(p.chunk) \ (DOMAIN p.res \cup {p.seed}) : Fresh(s)

\* What is on its way to main(), and what main() has seen.
ResultsOK ==
  \A r \in results : ~r.raised => DOMAIN r.res = SeedsOf(r.chunk) /\ Faithful(r.res)
CurrentOK ==
  /\ current # NoCurrent => current.left # {}
  /\ current.left \subseteq DOMAIN current.res
  /\ Faithful(current.res)
  /\ \A s \in DOMAIN current.res : s \in Seeds /\ Chunk(s) \in collected
CollectedOK ==
  \A s \in Seeds : Chunk(s) \in collected =>
     s \in current.left \/ (Ran(s) /\ Verdict(s) = "agree")

WorkersType ==
  worker \in [Workers -> [stage : {"idle", "build", "spike", "rtl", "compare"},
                          chunk : Chunks \cup {NoChunk}, seed : Seeds \cup {NoChunk},
                          res : PartialResults]]
LogsType ==
  /\ DOMAIN logs = Seeds
  /\ \A s \in Seeds : logs[s] = [spike |-> logs[s].spike, rtl |-> logs[s].rtl]
QueueFresh == \A k \in queue : \A s \in SeedsOf(k) : Fresh(s)
WorkersOK  == \A w \in Workers : Busy(w) => WorkerOK(w)
EndsOK     == /\ main = "check" => collected = {}
              /\ main = "pass" => current = NoCurrent /\ collected = Chunks

IInv ==
  /\ WorkersType /\ LogsType /\ Owned /\ QueueFresh /\ WorkersOK
  /\ ResultsOK /\ CurrentOK /\ CollectedOK /\ EndsOK

-----------------------------------------------------------------------------
(* Seeds, chunks and logs.                                                 *)

\* Every seed is in one chunk.
LEMMA SeedsInChunks ==
  /\ \A s \in Seeds : Chunk(s) \in Chunks
  /\ \A k : \A s : s \in SeedsOf(k) <=> s \in Seeds /\ Chunk(s) = k
  /\ NoChunk \notin Seeds
BY DEF Chunks, SeedsOf, NoChunk, Seeds

-----------------------------------------------------------------------------
(* Induction.  The induction theorems of the library have an operator as a *)
(* parameter; the well-foundedness of the natural numbers, which they rest *)
(* on, is about sets.                                                      *)

(* A set of natural numbers that is not empty has a least element.         *)
LEMMA LeastElement ==
  ASSUME NEW T, T \subseteq Nat, T # {}
  PROVE  \E n \in T : \A m \in T : n <= m
<1>1. PICK n \in T : \A m \in T : <<m, n>> \notin OpToRel(<, Nat)
  BY NatLessThanWellFounded, WFMin
<1>2. \A m \in T : m \in Nat /\ n \in Nat /\ <<m, n>> \in Nat \X Nat
  BY <1>1
<1>3. \A m \in T : ~(m < n)
  BY <1>1, <1>2 DEF OpToRel
<1>4. \A m \in T : n <= m
  BY <1>2, <1>3
<1>5. QED BY <1>4

(* What holds of 0, and of n + 1 when it holds of n, holds of every n.     *)
LEMMA Induction ==
  ASSUME NEW S, 0 \in S, \A n \in Nat : n \in S => n + 1 \in S
  PROVE  \A n \in Nat : n \in S
<1> DEFINE T == {n \in Nat : n \notin S}
<1>1. SUFFICES ASSUME T # {} PROVE FALSE
  OBVIOUS
<1>2. PICK n \in T : \A m \in T : n <= m
  BY <1>1, LeastElement
<1>3. n \in Nat /\ n \notin S
  OBVIOUS
<1>4. n - 1 \in Nat /\ (n - 1) + 1 = n
  BY <1>3
<1>5. n - 1 \in S
  BY <1>2, <1>4
<1>6. QED BY <1>3, <1>4, <1>5

-----------------------------------------------------------------------------
(* Logs.                                                                   *)

LEMMA TraceTyped ==
  /\ Body \in Nat
  /\ \A j \in Nat : Trace(j) \in Commits /\ Trace(j).pc \in Nat /\ (j >= 1 => Trace(j).pc >= 1)
<1>1. Body \in Nat
  BY LockstepAssumption DEF Body, Preamble, Profiles
<1>2. QED BY <1>1 DEF Trace, Lesser, Commits

LEMMA RetiresLists ==
  ASSUME NEW n \in Nat
  PROVE  /\ Retires(n) \in Seq(Commits) /\ Len(Retires(n)) = n
         /\ \A i \in 1 .. n : Retires(n)[i] = Trace(i)
         /\ Append(Retires(n), Trace(n + 1)) = Retires(n + 1)
<1>1. \A m \in Nat : Retires(m) \in Seq(Commits) /\ Len(Retires(m)) = m
  BY TraceTyped DEF Retires
<1>2. Trace(n + 1) \in Commits
  BY TraceTyped
<1>3. Append(Retires(n), Trace(n + 1)) =
        [i \in 1 .. n + 1 |-> IF i <= n THEN Retires(n)[i] ELSE Trace(n + 1)]
  BY <1>1, <1>2
<1>4. \A i \in 1 .. n + 1 : (IF i <= n THEN Retires(n)[i] ELSE Trace(n + 1)) = Trace(i)
  BY DEF Retires
<1>5. QED BY <1>1, <1>3, <1>4 DEF Retires

(* The rule by which the parser's function of how far it is is defined.    *)
Parses(log, f) ==
  \A n \in 0 .. Len(log) :
    f[n] = IF n = 0 THEN <<>>
           ELSE IF log[n].pc >= Reset THEN Append(f[n - 1], log[n]) ELSE f[n - 1]

(* Of a log that Spike writes the parser drops the boot code and keeps the *)
(* rest: what it has kept after entry n + 1 are the first n instructions   *)
(* of the program.                                                         *)
LEMMA BootDropped ==
  ASSUME NEW m \in Nat, NEW log, log = <<Boot>> \o Retires(m)
  PROVE  spike_program_commits(log) = Retires(m)
<1>1. /\ Len(log) = m + 1 /\ log[1] = Boot
      /\ \A n \in 1 .. m : log[n + 1] = Trace(n)
  <2>1. Boot \in Commits
    BY DEF Boot, Commits
  <2>2. <<Boot>> \in Seq(Commits) /\ Len(<<Boot>>) = 1 /\ <<Boot>>[1] = Boot
    BY <2>1
  <2>3. /\ Len(<<Boot>> \o Retires(m)) = 1 + m
        /\ \A i \in 1 .. 1 + m : (<<Boot>> \o Retires(m))[i] =
             IF i <= 1 THEN <<Boot>>[i] ELSE Retires(m)[i - 1]
    <3>1. PICK t \in Seq(Commits), u \in Seq(Commits) : t = <<Boot>> /\ u = Retires(m)
      BY <2>2, RetiresLists
    <3>2. Len(t) = 1 /\ Len(u) = m
      BY <2>2, <3>1, RetiresLists
    <3>3. /\ Len(t \o u) = Len(t) + Len(u)
          /\ \A i \in 1 .. Len(t) + Len(u) : (t \o u)[i] =
               IF i <= Len(t) THEN t[i] ELSE u[i - Len(t)]
      BY ConcatProperties, Zenon
    <3>4. QED BY <3>1, <3>2, <3>3, Zenon
  <2>4. log[1] = Boot
    BY <2>2, <2>3
  <2>5. ASSUME NEW n \in 1 .. m PROVE log[n + 1] = Trace(n)
    <3>1. n + 1 \in 1 .. 1 + m /\ ~(n + 1 <= 1) /\ (n + 1) - 1 = n
      OBVIOUS
    <3>2. QED BY <2>3, <3>1, RetiresLists
  <2>6. QED BY <2>3, <2>4, <2>5
<1>2. Boot.pc = 0 /\ Reset = 1
  BY DEF Boot, Reset
<1>3. \A n \in 1 .. m : Trace(n).pc \in Nat /\ Trace(n).pc >= 1
  BY TraceTyped
<1> DEFINE g == [n \in 0 .. m + 1 |-> IF n = 0 THEN <<>> ELSE Retires(n - 1)]
<1>4. Retires(0) = <<>>
  BY RetiresLists
<1>5. Parses(log, g)
  <2>1. SUFFICES ASSUME NEW n \in 0 .. m + 1
                 PROVE  g[n] = IF n = 0 THEN <<>>
                               ELSE IF log[n].pc >= Reset THEN Append(g[n - 1], log[n]) ELSE g[n - 1]
    BY <1>1 DEF Parses
  <2>2. CASE n = 0
    BY <2>2
  <2>3. CASE n = 1
    <3>1. g[1] = Retires(0) /\ g[0] = <<>>
      OBVIOUS
    <3>2. ~(log[1].pc >= Reset)
      BY <1>1, <1>2
    <3>3. QED BY <2>3, <3>1, <3>2, <1>4
  <2>4. CASE n \in 2 .. m + 1
    <3>1. PICK j \in 1 .. m : n = j + 1
      <4>1. n - 1 \in 1 .. m /\ n = (n - 1) + 1
        BY <2>4
      <4>2. QED BY <4>1
    <3>2. g[j + 1] = Retires(j) /\ g[j] = Retires(j - 1)
      BY <3>1
    <3>3. log[j + 1] = Trace(j) /\ Trace(j).pc >= Reset
      BY <1>1, <1>2, <1>3
    <3>4. Append(Retires(j - 1), Trace((j - 1) + 1)) = Retires((j - 1) + 1)
      <4>1. j - 1 \in Nat
        OBVIOUS
      <4>2. QED BY <4>1, RetiresLists
    <3>5. (j - 1) + 1 = j /\ (j + 1) - 1 = j /\ j + 1 # 0
      OBVIOUS
    <3>6. Append(g[j], log[j + 1]) = Retires(j)
      BY <3>2, <3>3, <3>4, <3>5
    <3> HIDE DEF g
    <3>7. QED BY <3>1, <3>2, <3>3, <3>5, <3>6
  <2>5. n = 0 \/ n = 1 \/ n \in 2 .. m + 1
    OBVIOUS
  <2>6. QED BY <2>2, <2>3, <2>4, <2>5, Zenon
<1> DEFINE f == CHOOSE f : f = [n \in 0 .. Len(log) |->
                  IF n = 0 THEN <<>>
                  ELSE IF log[n].pc >= Reset THEN Append(f[n - 1], log[n]) ELSE f[n - 1]]
<1>6. spike_program_commits(log) = f[Len(log)]
  BY DEF spike_program_commits
<1>7. Parses(log, f)
  <2>1. g = [n \in 0 .. Len(log) |->
               IF n = 0 THEN <<>>
               ELSE IF log[n].pc >= Reset THEN Append(g[n - 1], log[n]) ELSE g[n - 1]]
    <3>1. g = [n \in 0 .. Len(log) |-> g[n]]
      BY <1>1
    <3> HIDE DEF g
    <3>2. QED BY <1>5, <3>1 DEF Parses
  <2> HIDE DEF g
  <2>2. f = [n \in 0 .. Len(log) |->
               IF n = 0 THEN <<>>
               ELSE IF log[n].pc >= Reset THEN Append(f[n - 1], log[n]) ELSE f[n - 1]]
    BY <2>1
  <2> HIDE DEF f
  <2>3. ASSUME NEW n \in 0 .. Len(log)
        PROVE  f[n] = IF n = 0 THEN <<>>
                      ELSE IF log[n].pc >= Reset THEN Append(f[n - 1], log[n]) ELSE f[n - 1]
    BY <2>2
  <2>4. QED BY <2>3 DEF Parses
<1> DEFINE S == {n \in Nat : n <= m + 1 => f[n] = g[n]}
<1> HIDE DEF f, g
<1>8. 0 \in S
  <2>1. 0 \in 0 .. Len(log)
    BY <1>1
  <2>2. f[0] = <<>> /\ g[0] = <<>>
    BY <1>5, <1>7, <2>1 DEF Parses
  <2>3. QED BY <2>2
<1>9. ASSUME NEW n \in Nat, n \in S PROVE n + 1 \in S
  <2>1. SUFFICES ASSUME n + 1 <= m + 1 PROVE f[n + 1] = g[n + 1]
    OBVIOUS
  <2>2. f[n] = g[n]
    BY <1>9, <2>1
  <2>3. n + 1 \in 0 .. Len(log) /\ n + 1 # 0 /\ (n + 1) - 1 = n
    BY <1>1, <2>1
  <2>4. f[n + 1] = IF log[n + 1].pc >= Reset THEN Append(f[n], log[n + 1]) ELSE f[n]
    BY <1>7, <2>3 DEF Parses
  <2>5. g[n + 1] = IF log[n + 1].pc >= Reset THEN Append(g[n], log[n + 1]) ELSE g[n]
    BY <1>5, <2>3 DEF Parses
  <2>6. QED BY <2>2, <2>4, <2>5
<1> HIDE DEF S
<1>10. m + 1 \in S
  BY <1>8, <1>9, Induction
<1>11. f[m + 1] = g[m + 1]
  BY <1>10 DEF S
<1>12. g[m + 1] = Retires(m)
  BY DEF g
<1>13. QED BY <1>1, <1>6, <1>11, <1>12

(* What Spike is taken to have retired is the program, as far as its log   *)
(* goes.                                                                   *)
LEMMA SpikeRetires ==
  ASSUME NEW log \in SpikeLogs
  PROVE  \E n \in Nat : spike_program_commits(log) = Retires(n)
<1>1. PICK n \in SpikeStops : log = <<Boot>> \o Retires(n)
  BY DEF SpikeLogs
<1>2. n \in Nat
  BY LockstepAssumption
<1>3. QED BY <1>1, <1>2, BootDropped

\* A log is a list of commits, and none is the one that says "not run".
LEMMA LogsAreLists ==
  /\ \A log \in SpikeLogs : spike_program_commits(log) \in Seq(Commits)
  /\ \A log \in RtlLogs : log \in Seq(Commits)
  /\ \A log \in Seq(Commits) : log # NotRun
<1>1. Body \in Nat
  BY LockstepAssumption DEF Body, Preamble, Profiles
<1>2. \A j \in Nat : Trace(j) \in Commits /\ Trace(j).pc \in Nat
  BY <1>1 DEF Trace, Lesser, Commits
<1>3. ASSUME NEW log \in RtlLogs PROVE log \in Seq(Commits)
  <2>1. ASSUME NEW i \in Defects, NEW j \in Nat \ {0}
        PROVE  Other(i, j) \in Commits /\ Skip(i, j) \in Commits /\ Again(i, j) \in Commits
    <3>1. /\ Trace(j) \in Commits /\ Trace(j).pc \in Nat
          /\ Trace(j + 1) \in Commits /\ Trace(j - 1) \in Commits
      BY <1>2
    <3>2. Other(i, j) \in Commits
      BY <3>1 DEF Other, Commits
    <3>3. QED BY <3>1, <3>2 DEF Skip, Again
  <2>2. \A n \in RtlStops : Retires(n) \in Seq(Commits)
    BY <1>2, LockstepAssumption DEF Retires
  <2>3. \A i \in Defects, n \in RtlStops :
          /\ [j \in 1 .. n |-> Other(i, j)] \in [1 .. n -> Commits]
          /\ [j \in 1 .. n |-> Skip(i, j)] \in [1 .. n -> Commits]
          /\ [j \in 1 .. n |-> Again(i, j)] \in [1 .. n -> Commits]
    BY <2>1, LockstepAssumption
  <2>4. \A n \in RtlStops : \A f \in [1 .. n -> Commits] : f \in Seq(Commits)
    BY LockstepAssumption
  <2>5. QED BY <2>2, <2>3, <2>4 DEF RtlLogs
<1>4. ASSUME NEW log \in Seq(Commits) PROVE log # NotRun
  <2>1. SUFFICES ASSUME log = NotRun PROVE FALSE
    OBVIOUS
  <2>2. Len(log) = 1 /\ log[1].pc = -1
    BY <2>1 DEF NotRun
  <2>3. log[1] \in Commits
    <3>1. \A i \in 1 .. Len(log) : log[i] \in Commits
      OBVIOUS
    <3>2. QED BY <3>1, <2>2
  <2>4. QED BY <2>2, <2>3 DEF Commits
<1>5. QED BY <1>3, <1>4, SpikeRetires, RetiresLists

-----------------------------------------------------------------------------
(* IInv is inductive.                                                      *)

LEMMA ResultsType ==
  /\ NoResults \in PartialResults /\ DOMAIN NoResults = {}
  /\ \A res \in PartialResults : \A s \in Seeds : \A verdict \in Verdicts :
       /\ With(res, s, verdict) \in PartialResults
       /\ DOMAIN With(res, s, verdict) = DOMAIN res \cup {s}
<1>1. NoResults \in [{} -> Verdicts]
  BY DEF NoResults
<1>2. ASSUME NEW res \in PartialResults, NEW s \in Seeds, NEW verdict \in Verdicts
      PROVE  /\ With(res, s, verdict) \in PartialResults
             /\ DOMAIN With(res, s, verdict) = DOMAIN res \cup {s}
  <2>1. PICK S \in SUBSET Seeds : res \in [S -> Verdicts]
    BY DEF PartialResults
  <2>2. With(res, s, verdict) \in [S \cup {s} -> Verdicts]
    BY <2>1 DEF With
  <2>3. S \cup {s} \in SUBSET Seeds
    OBVIOUS
  <2>4. QED BY <2>1, <2>2, <2>3 DEF PartialResults
<1>3. QED BY <1>1, <1>2 DEF PartialResults

LEMMA InitIInv == Init => IInv
<1> SUFFICES ASSUME Init PROVE IInv
  OBVIOUS
<1>1. WorkersType
  BY ResultsType DEF Init, WorkersType, Idle
<1>2. LogsType /\ QueueFresh
  BY SeedsInChunks DEF Init, LogsType, QueueFresh, Fresh
<1>3. Owned /\ WorkersOK /\ ResultsOK /\ EndsOK
  BY DEF Init, Owned, WorkersOK, Busy, Idle, ResultsOK, EndsOK
<1>4. CurrentOK /\ CollectedOK
  BY ResultsType DEF Init, CurrentOK, CollectedOK, NoCurrent, Faithful
<1>5. QED BY <1>1, <1>2, <1>3, <1>4 DEF IInv

\* A worker keeps what is known of it while it and the logs stay.
LEMMA WorkerKept ==
  ASSUME NEW v \in Workers, WorkerOK(v), worker'[v] = worker[v], logs' = logs
  PROVE  WorkerOK(v)'
BY DEF WorkerOK, Fresh, Ran, Faithful, Verdict

LEMMA TakeChunkStep ==
  ASSUME IInv, NEW w \in Workers, TakeChunk(w)
  PROVE  IInv'
<1> USE DEF IInv
<1>1. PICK k \in queue : \E s \in SeedsOf(k) :
         queue' = queue \ {k} /\ worker' = [worker EXCEPT ![w] = Working(k, s, NoResults)]
  BY DEF TakeChunk
<1>2. PICK s \in SeedsOf(k) : worker' = [worker EXCEPT ![w] = Working(k, s, NoResults)]
  BY <1>1
<1>3. UNCHANGED <<main, logs, results, current, collected>> /\ queue' = queue \ {k}
  BY <1>1 DEF TakeChunk
<1>4. /\ worker'[w] = Working(k, s, NoResults)
      /\ \A v \in Workers \ {w} : worker'[v] = worker[v]
      /\ k \in Chunks
      /\ NoResults \in [{} -> Verdicts]
  BY <1>2 DEF WorkersType, Owned, NoResults
<1>5. WorkersType'
  <2>1. Working(k, s, NoResults) \in
          [stage : {"idle", "build", "spike", "rtl", "compare"}, chunk : Chunks \cup {NoChunk},
           seed : Seeds \cup {NoChunk}, res : PartialResults]
    BY <1>4, SeedsInChunks, ResultsType DEF Working
  <2>2. QED BY <1>2, <2>1 DEF WorkersType
<1>6. LogsType'
  BY <1>3 DEF LogsType
<1>7. Owned'
  BY <1>3, <1>4 DEF Owned, Busy, Working
<1>8. QueueFresh'
  BY <1>3 DEF QueueFresh, Fresh
<1>9. WorkersOK'
  <2>1. ASSUME NEW v \in Workers \ {w}, Busy(v)' PROVE WorkerOK(v)'
    <3>1. WorkerOK(v) /\ worker'[v] = worker[v] /\ logs' = logs
      BY <2>1, <1>3, <1>4 DEF WorkersOK, Busy
    <3>2. QED BY ONLY <3>1, WorkerKept
  <2>2. WorkerOK(w)'
    <3>1. \A t \in SeedsOf(k) : Fresh(t)
      BY <1>3 DEF QueueFresh
    <3>2. worker'[w] = Working(k, s, NoResults) /\ DOMAIN NoResults = {}
      BY <1>4 DEF NoResults
    <3> HIDE DEF IInv
    <3>3. QED BY <3>1, <3>2, <1>3 DEF WorkerOK, Working, Fresh, Faithful
  <2>3. QED BY <2>1, <2>2 DEF WorkersOK
<1>10. ResultsOK' /\ CurrentOK' /\ CollectedOK' /\ EndsOK'
  BY <1>3 DEF ResultsOK, CurrentOK, CollectedOK, EndsOK, Faithful, Ran, Verdict
<1>11. QED BY <1>5, <1>6, <1>7, <1>8, <1>9, <1>10
\* A worker that goes on to the next stage, leaving everything else alone.
LEMMA BuildStep ==
  ASSUME IInv, NEW w \in Workers, BuildProgram(w)
  PROVE  IInv'
<1> USE DEF IInv
<1>1. UNCHANGED <<main, queue, logs, results, current, collected>>
  BY DEF BuildProgram
<1>2. /\ worker' = [worker EXCEPT ![w].stage = "spike"]
      /\ worker[w].stage = "build"
  BY DEF BuildProgram, At
<1>3. /\ worker'[w] = [worker[w] EXCEPT !.stage = "spike"]
      /\ \A v \in Workers \ {w} : worker'[v] = worker[v]
      /\ worker'[w].stage = "spike" /\ worker'[w].chunk = worker[w].chunk
      /\ worker'[w].seed = worker[w].seed /\ worker'[w].res = worker[w].res
  BY <1>2 DEF WorkersType
<1>4. WorkersType'
  BY <1>2 DEF WorkersType
<1>5. Owned'
  BY <1>1, <1>2, <1>3 DEF Owned, Busy
<1>6. WorkersOK'
  <2>1. ASSUME NEW v \in Workers \ {w}, Busy(v)' PROVE WorkerOK(v)'
    <3>1. WorkerOK(v) /\ worker'[v] = worker[v] /\ logs' = logs
      BY <2>1, <1>1, <1>3 DEF WorkersOK, Busy
    <3>2. QED BY ONLY <3>1, WorkerKept
  <2>2. WorkerOK(w)
    BY <1>2 DEF WorkersOK, Busy
  <2>3. WorkerOK(w)'
    <3> HIDE DEF IInv
    <3>1. logs' = logs
      BY <1>1
    <3>2. QED BY ONLY <2>2, <3>1, <1>2, <1>3 DEF WorkerOK, Fresh, Ran, Faithful, Verdict
  <2>4. QED BY <2>1, <2>3 DEF WorkersOK
<1>7. LogsType' /\ QueueFresh' /\ ResultsOK' /\ CurrentOK' /\ CollectedOK' /\ EndsOK'
  BY <1>1 DEF LogsType, QueueFresh, ResultsOK, CurrentOK, CollectedOK, EndsOK, Faithful,
              Fresh, Ran, Verdict
<1>8. QED BY <1>4, <1>5, <1>6, <1>7

\* Writing the log of the seed a worker has in hand leaves the seeds of all
\* other chunks, and those of its own that have a verdict, alone.
LEMMA LogStep ==
  ASSUME IInv, NEW w \in Workers, Busy(w), WorkersType', LogsType',
         UNCHANGED <<main, queue, results, current, collected>>,
         worker'[w].chunk = worker[w].chunk, worker'[w].stage # "idle",
         \A v \in Workers \ {w} : worker'[v] = worker[v],
         \A s \in Seeds \ {worker[w].seed} : logs'[s] = logs[s],
         WorkerOK(w)'
  PROVE  IInv'
<1> USE DEF IInv
<1> DEFINE k == worker[w].chunk
<1>1. worker[w].seed \in Seeds /\ Chunk(worker[w].seed) = k
  BY SeedsInChunks DEF WorkersOK, WorkerOK
<1>2. /\ k \notin queue /\ k \notin collected /\ (\A r \in results : r.chunk # k)
      /\ \A v \in Workers : v # w /\ Busy(v) => worker[v].chunk # k
  BY DEF Owned
<1>3. \A s \in Seeds : Chunk(s) # k =>
        (Ran(s)' <=> Ran(s)) /\ Verdict(s)' = Verdict(s) /\ (Fresh(s)' <=> Fresh(s))
  BY <1>1 DEF Ran, Verdict, Fresh
<1>4. Owned'
  BY DEF Owned, Busy
<1>5. QueueFresh'
  BY <1>2, <1>3, SeedsInChunks DEF QueueFresh
<1>6. WorkersOK'
  <2>1. ASSUME NEW v \in Workers \ {w}, Busy(v)' PROVE WorkerOK(v)'
    <3>1. WorkerOK(v) /\ worker[v].chunk # k
      BY <2>1, <1>2 DEF WorkersOK, Busy
    <3>2. \A s \in SeedsOf(worker[v].chunk) : s \in Seeds /\ logs'[s] = logs[s]
      BY <3>1, <1>1, SeedsInChunks
    <3>3. worker'[v] = worker[v]
      BY <2>1
    <3>4. Faithful(worker[v].res)'
      BY ONLY <3>1, <3>2, <3>3 DEF WorkerOK, Faithful, Ran, Verdict
    <3>5. QED BY ONLY <3>1, <3>2, <3>3, <3>4 DEF WorkerOK, Fresh, Ran, Faithful, Verdict
  <2>2. QED BY <2>1 DEF WorkersOK
<1>7. ResultsOK'
  BY <1>2, <1>3, SeedsInChunks DEF ResultsOK, Faithful
<1>8. CurrentOK'
  <2>1. \A s \in DOMAIN current.res : Ran(s) /\ Chunk(s) # k
    BY <1>2 DEF CurrentOK, Faithful
  <2>2. DOMAIN current.res \subseteq Seeds
    BY DEF CurrentOK
  <2>3. QED BY <2>1, <1>3, <2>2 DEF CurrentOK, Faithful
<1>9. CollectedOK'
  BY <1>2, <1>3 DEF CollectedOK
<1>10. EndsOK'
  BY DEF EndsOK
<1>11. QED BY <1>4, <1>5, <1>6, <1>7, <1>8, <1>9, <1>10
LEMMA SpikeStep ==
  ASSUME IInv, NEW w \in Workers, run_spike(w)
  PROVE  IInv'
<1> USE DEF IInv
<1> DEFINE s == worker[w].seed
<1>1. PICK log \in Seq(Commits) : log # NotRun /\ logs' = [logs EXCEPT ![s].spike = log]
  BY LogsAreLists DEF run_spike
<1>2. /\ worker' = [worker EXCEPT ![w].stage = "rtl"]
      /\ worker[w].stage = "spike" /\ Busy(w)
      /\ UNCHANGED <<main, queue, results, current, collected>>
  BY DEF run_spike, At, Busy
<1>3. /\ \A v \in Workers \ {w} : worker'[v] = worker[v]
      /\ worker'[w].stage = "rtl" /\ worker'[w].chunk = worker[w].chunk
      /\ worker'[w].seed = s /\ worker'[w].res = worker[w].res
  BY <1>2 DEF WorkersType
<1>4. WorkerOK(w) /\ s \in Seeds
  BY <1>2, SeedsInChunks DEF WorkersOK, WorkerOK
<1>5. /\ \A t \in Seeds \ {s} : logs'[t] = logs[t]
      /\ logs'[s] = [logs[s] EXCEPT !.spike = log]
  BY <1>1, <1>4 DEF LogsType
<1>6. logs'[s].spike = log /\ logs'[s].rtl = logs[s].rtl
  <2>1. logs[s] = [spike |-> logs[s].spike, rtl |-> logs[s].rtl]
    BY <1>4 DEF LogsType
  <2>2. QED BY <2>1, <1>5
<1>7. WorkersType'
  BY <1>2 DEF WorkersType
<1>8. LogsType'
  <2>1. DOMAIN logs' = Seeds
    BY <1>1 DEF LogsType
  <2>2. logs'[s] = [spike |-> logs'[s].spike, rtl |-> logs'[s].rtl]
    <3>1. logs[s] = [spike |-> logs[s].spike, rtl |-> logs[s].rtl]
      BY <1>4 DEF LogsType
    <3>2. QED BY <3>1, <1>5
  <2>3. QED BY <2>1, <2>2, <1>5 DEF LogsType
<1>9. WorkerOK(w)'
  <2>1. \A t \in SeedsOf(worker[w].chunk) : t \in Seeds
    BY SeedsInChunks
  <2>2. \A t \in DOMAIN worker[w].res : t # s /\ t \in Seeds /\ logs'[t] = logs[t]
    BY <1>4, <1>5, <2>1 DEF WorkerOK
  <2>3. Faithful(worker[w].res)'
    BY <2>2, <1>3, <1>4 DEF WorkerOK, Faithful, Ran, Verdict
  <2>4. \A t \in SeedsOf(worker[w].chunk) \ (DOMAIN worker[w].res \cup {s}) : Fresh(t)'
    BY <1>4, <1>5, <2>1 DEF WorkerOK, Fresh
  <2>5. /\ s \in SeedsOf(worker[w].chunk)
        /\ DOMAIN worker[w].res \subseteq SeedsOf(worker[w].chunk) \ {s}
        /\ logs[s].rtl = NotRun
    BY <1>2, <1>4 DEF WorkerOK, Fresh
  <2>6. /\ logs'[s].spike \in Seq(Commits) /\ logs'[s].spike # NotRun
        /\ logs'[s].rtl = NotRun
    BY <2>5, <1>1, <1>6
  <2> HIDE DEF s, IInv
  <2>7. QED BY ONLY <2>3, <2>4, <2>5, <2>6, <1>3 DEF WorkerOK, Faithful, Ran, Fresh, Verdict
<1>10. QED BY <1>2, <1>3, <1>5, <1>7, <1>8, <1>9, LogStep

LEMMA RtlStep ==
  ASSUME IInv, NEW w \in Workers, run_verilator(w)
  PROVE  IInv'
<1> USE DEF IInv
<1> DEFINE s == worker[w].seed
<1>1. PICK log \in Seq(Commits) : log # NotRun /\ logs' = [logs EXCEPT ![s].rtl = log]
  BY LogsAreLists DEF run_verilator
<1>2. /\ worker' = [worker EXCEPT ![w].stage = "compare"]
      /\ worker[w].stage = "rtl" /\ Busy(w)
      /\ UNCHANGED <<main, queue, results, current, collected>>
  BY DEF run_verilator, At, Busy
<1>3. /\ \A v \in Workers \ {w} : worker'[v] = worker[v]
      /\ worker'[w].stage = "compare" /\ worker'[w].chunk = worker[w].chunk
      /\ worker'[w].seed = s /\ worker'[w].res = worker[w].res
  BY <1>2 DEF WorkersType
<1>4. WorkerOK(w) /\ s \in Seeds
  BY <1>2, SeedsInChunks DEF WorkersOK, WorkerOK
<1>5. /\ \A t \in Seeds \ {s} : logs'[t] = logs[t]
      /\ logs'[s] = [logs[s] EXCEPT !.rtl = log]
  BY <1>1, <1>4 DEF LogsType
<1>6. logs'[s].rtl = log /\ logs'[s].spike = logs[s].spike
  <2>1. logs[s] = [spike |-> logs[s].spike, rtl |-> logs[s].rtl]
    BY <1>4 DEF LogsType
  <2>2. QED BY <2>1, <1>5
<1>7. WorkersType'
  BY <1>2 DEF WorkersType
<1>8. LogsType'
  <2>1. DOMAIN logs' = Seeds
    BY <1>1 DEF LogsType
  <2>2. logs'[s] = [spike |-> logs'[s].spike, rtl |-> logs'[s].rtl]
    <3>1. logs[s] = [spike |-> logs[s].spike, rtl |-> logs[s].rtl]
      BY <1>4 DEF LogsType
    <3>2. QED BY <3>1, <1>5
  <2>3. QED BY <2>1, <2>2, <1>5 DEF LogsType
<1>9. WorkerOK(w)'
  <2>1. \A t \in SeedsOf(worker[w].chunk) : t \in Seeds
    BY SeedsInChunks
  <2>2. \A t \in DOMAIN worker[w].res : t # s /\ t \in Seeds /\ logs'[t] = logs[t]
    BY <1>4, <1>5, <2>1 DEF WorkerOK
  <2>3. Faithful(worker[w].res)'
    BY <2>2, <1>3, <1>4 DEF WorkerOK, Faithful, Ran, Verdict
  <2>4. \A t \in SeedsOf(worker[w].chunk) \ (DOMAIN worker[w].res \cup {s}) : Fresh(t)'
    BY <1>4, <1>5, <2>1 DEF WorkerOK, Fresh
  <2>5. /\ s \in SeedsOf(worker[w].chunk)
        /\ DOMAIN worker[w].res \subseteq SeedsOf(worker[w].chunk) \ {s}
        /\ logs[s].spike \in Seq(Commits) /\ logs[s].spike # NotRun
    BY <1>2, <1>4 DEF WorkerOK
  <2>6. /\ logs'[s].spike \in Seq(Commits) /\ logs'[s].spike # NotRun
        /\ logs'[s].rtl \in Seq(Commits) /\ logs'[s].rtl # NotRun
    BY <2>5, <1>1, <1>6
  <2> HIDE DEF s, IInv
  <2>7. QED BY ONLY <2>3, <2>4, <2>5, <2>6, <1>3 DEF WorkerOK, Faithful, Ran, Fresh, Verdict
<1>10. QED BY <1>2, <1>3, <1>5, <1>7, <1>8, <1>9, LogStep

\* A worker that lets go of its chunk.
LEMMA LetGoStep ==
  ASSUME IInv, NEW w \in Workers, Busy(w), worker' = [worker EXCEPT ![w] = Idle],
         UNCHANGED <<main, queue, logs, current, collected>>,
         \/ UNCHANGED results
         \/ \E r : /\ results' = results \cup {r}
                   /\ r.chunk = worker[w].chunk
                   /\ ~r.raised => /\ DOMAIN r.res = SeedsOf(r.chunk)
                                   /\ Faithful(r.res)
  PROVE  IInv'
<1> USE DEF IInv
<1>1. /\ \A v \in Workers \ {w} : worker'[v] = worker[v]
      /\ worker'[w] = Idle /\ ~Busy(w)'
  BY DEF WorkersType, Busy, Idle
<1>2. WorkersType'
  BY ResultsType DEF WorkersType, Idle
<1>3. Owned'
  BY <1>1 DEF Owned, Busy
<1>4. WorkersOK'
  <2>1. ASSUME NEW v \in Workers, Busy(v)' PROVE WorkerOK(v)'
    <3>1. v # w /\ worker'[v] = worker[v] /\ Busy(v)
      BY <2>1, <1>1 DEF Busy
    <3>2. WorkerOK(v) /\ logs' = logs
      BY <3>1 DEF WorkersOK
    <3>3. QED BY ONLY <3>1, <3>2, WorkerKept
  <2>2. QED BY <2>1 DEF WorkersOK
<1>5. ResultsOK'
  BY DEF ResultsOK, Faithful, Ran, Verdict
<1>6. LogsType' /\ QueueFresh'
  BY DEF LogsType, QueueFresh, Fresh
<1>7. CurrentOK' /\ CollectedOK' /\ EndsOK'
  BY DEF CurrentOK, CollectedOK, EndsOK, Faithful, Ran, Verdict
<1>8. QED BY <1>2, <1>3, <1>4, <1>5, <1>6, <1>7

LEMMA RaiseStep ==
  ASSUME IInv, NEW w \in Workers, RaiseInWorker(w)
  PROVE  IInv'
<1> DEFINE r == [chunk |-> worker[w].chunk, raised |-> TRUE, res |-> NoResults]
<1>1. results' = results \cup {r} /\ r.chunk = worker[w].chunk /\ r.raised
  BY DEF RaiseInWorker
<1>2. /\ Busy(w) /\ worker' = [worker EXCEPT ![w] = Idle]
      /\ UNCHANGED <<main, queue, logs, current, collected>>
  BY DEF RaiseInWorker, At, Busy
<1> HIDE DEF r
<1>3. QED BY <1>1, <1>2, LetGoStep

LEMMA DeathStep ==
  ASSUME IInv, NEW w \in Workers, WorkerDies(w)
  PROVE  IInv'
BY LetGoStep DEF WorkerDies, Busy

LEMMA CompareStep ==
  ASSUME IInv, NEW w \in Workers, CompareSeed(w)
  PROVE  IInv'
<1> USE DEF IInv
<1> DEFINE s    == worker[w].seed
           k    == worker[w].chunk
           res  == With(worker[w].res, s, Verdict(s))
           left == SeedsOf(k) \ DOMAIN res
<1>1. /\ worker[w].stage = "compare" /\ Busy(w)
      /\ UNCHANGED <<main, queue, logs, current, collected>>
      /\ \/ /\ \E next \in left : worker' = [worker EXCEPT ![w] = Working(k, next, res)]
            /\ UNCHANGED results
         \/ /\ left = {}
            /\ worker' = [worker EXCEPT ![w] = Idle]
            /\ results' = results \cup {[chunk |-> k, raised |-> FALSE, res |-> res]}
  BY DEF CompareSeed, At, Busy, Verdict
<1>2. WorkerOK(w) /\ Ran(s) /\ s \in SeedsOf(k)
  BY <1>1 DEF WorkersOK, WorkerOK
<1>3. /\ s \in Seeds /\ worker[w].res \in PartialResults /\ k \in Chunks
      /\ Verdict(s) \in Verdicts
  BY <1>1, <1>2, SeedsInChunks DEF WorkersType, Owned, Verdict, compare_commits, Verdicts
<1>4. res \in PartialResults /\ DOMAIN res = DOMAIN worker[w].res \cup {s}
  BY <1>3, ResultsType
<1>5. Faithful(res) /\ DOMAIN res \subseteq SeedsOf(k)
  BY <1>2, <1>4 DEF WorkerOK, Faithful, With
<1>6. CASE left = {} /\ worker' = [worker EXCEPT ![w] = Idle]
            /\ results' = results \cup {[chunk |-> k, raised |-> FALSE, res |-> res]}
  <2> DEFINE r == [chunk |-> k, raised |-> FALSE, res |-> res]
  <2>1. r.chunk = k /\ DOMAIN r.res = SeedsOf(r.chunk) /\ Faithful(r.res)
    BY <1>5, <1>6
  <2>2. results' = results \cup {r}
    BY <1>6
  <2> HIDE DEF r
  <2>3. QED BY <1>1, <1>6, <2>1, <2>2, LetGoStep
<1>7. CASE /\ \E next \in left : worker' = [worker EXCEPT ![w] = Working(k, next, res)]
           /\ UNCHANGED results
  <2>1. PICK next \in left : worker' = [worker EXCEPT ![w] = Working(k, next, res)]
    BY <1>7
  <2>2. /\ \A v \in Workers \ {w} : worker'[v] = worker[v]
        /\ worker'[w] = Working(k, next, res)
        /\ next \in SeedsOf(k) /\ next \notin DOMAIN res /\ next \in Seeds
    BY <2>1, SeedsInChunks DEF WorkersType
  <2>3. /\ worker'[w].stage = "build" /\ worker'[w].chunk = k
        /\ worker'[w].seed = next /\ worker'[w].res = res
    BY <2>2 DEF Working
  <2>4. WorkersType'
    <3>1. Working(k, next, res) \in
            [stage : {"idle", "build", "spike", "rtl", "compare"}, chunk : Chunks \cup {NoChunk},
             seed : Seeds \cup {NoChunk}, res : PartialResults]
      BY <1>3, <1>4, <2>2 DEF Working
    <3>2. QED BY <2>1, <3>1 DEF WorkersType
  <2>5. Owned'
    <3>1. \A v \in Workers : worker'[v].chunk = worker[v].chunk /\ (Busy(v)' <=> Busy(v))
      BY <1>1, <2>2, <2>3 DEF Busy
    <3>2. UNCHANGED <<queue, results, collected>>
      BY <1>1, <1>7
    <3>3. Owned
      OBVIOUS
    <3> HIDE DEF IInv, left, res, s, k
    <3>4. QED BY <3>1, <3>2, <3>3 DEF Owned
  <2>6. WorkersOK'
    <3>1. ASSUME NEW v \in Workers \ {w}, Busy(v)' PROVE WorkerOK(v)'
      <4>1. WorkerOK(v) /\ worker'[v] = worker[v] /\ logs' = logs
        BY <3>1, <1>1, <2>2 DEF WorkersOK, Busy
      <4>2. QED BY ONLY <4>1, WorkerKept
    <3>2. \A t \in SeedsOf(k) \ DOMAIN res : Fresh(t)
      BY <1>2, <1>4 DEF WorkerOK
    <3>3. WorkerOK(w)'
      BY <3>2, <1>1, <1>5, <2>2, <2>3 DEF WorkerOK, Fresh, Ran, Faithful, Verdict
    <3>4. QED BY <3>1, <3>3 DEF WorkersOK
  <2>7. /\ UNCHANGED <<main, queue, logs, results, current, collected>>
        /\ LogsType /\ QueueFresh /\ ResultsOK /\ CurrentOK /\ CollectedOK /\ EndsOK
    BY <1>1, <1>7
  <2>8. LogsType' /\ QueueFresh' /\ ResultsOK' /\ CurrentOK' /\ CollectedOK' /\ EndsOK'
    <3>1. LogsType' /\ QueueFresh'
      BY ONLY <2>7 DEF LogsType, QueueFresh, Fresh
    <3>2. ResultsOK'
      BY ONLY <2>7 DEF ResultsOK, Faithful, Ran, Verdict
    <3>3. CurrentOK' /\ CollectedOK' /\ EndsOK'
      BY ONLY <2>7 DEF CurrentOK, CollectedOK, EndsOK, Faithful, Ran, Verdict
    <3>4. QED BY <3>1, <3>2, <3>3
  <2>9. QED BY <2>4, <2>5, <2>6, <2>8
<1>8. QED BY <1>1, <1>6, <1>7
LEMMA CheckStep == IInv /\ CheckTools => IInv'
<1> SUFFICES ASSUME IInv, CheckTools PROVE IInv'
  OBVIOUS
<1> USE DEF IInv
<1>1. /\ UNCHANGED <<queue, worker, logs, results, current, collected>>
      /\ main' \in {"collect", "fail"}
  BY DEF CheckTools
<1>2. WorkersType' /\ LogsType' /\ Owned' /\ QueueFresh'
  BY <1>1 DEF WorkersType, LogsType, Owned, QueueFresh, Busy, Fresh
<1>3. WorkersOK' /\ ResultsOK' /\ CurrentOK' /\ CollectedOK' /\ EndsOK'
  BY <1>1 DEF WorkersOK, WorkerOK, ResultsOK, CurrentOK, CollectedOK, EndsOK, Busy,
     Faithful, Fresh, Ran, Verdict
<1>4. QED BY <1>2, <1>3

LEMMA CollectStep == IInv /\ CollectChunk => IInv'
<1> SUFFICES ASSUME IInv, CollectChunk PROVE IInv'
  OBVIOUS
<1> USE DEF IInv
<1>1. PICK r \in results :
        /\ results' = results \ {r}
        /\ \/ r.raised /\ main' = "raised" /\ UNCHANGED <<current, collected>>
           \/ /\ ~r.raised
              /\ current' = [left |-> SeedsOf(r.chunk), res |-> r.res]
              /\ collected' = collected \cup {r.chunk}
              /\ UNCHANGED main
  BY DEF CollectChunk
<1>2. /\ UNCHANGED <<queue, worker, logs>>
      /\ main = "collect" /\ current = NoCurrent
  BY DEF CollectChunk
<1>3. WorkersType' /\ LogsType' /\ QueueFresh'
  BY <1>2 DEF WorkersType, LogsType, QueueFresh, Fresh
<1>4. Owned'
  BY <1>1, <1>2 DEF Owned, Busy
<1>5. WorkersOK'
  BY <1>2 DEF WorkersOK, WorkerOK, Busy, Faithful, Fresh, Ran, Verdict
<1>6. ResultsOK'
  BY <1>1, <1>2 DEF ResultsOK, Faithful, Ran, Verdict
<1>7. CASE r.raised /\ main' = "raised" /\ UNCHANGED <<current, collected>>
  BY <1>2, <1>3, <1>4, <1>5, <1>6, <1>7
     DEF CurrentOK, CollectedOK, EndsOK, Faithful, Ran, Verdict
<1>8. CASE /\ ~r.raised
           /\ current' = [left |-> SeedsOf(r.chunk), res |-> r.res]
           /\ collected' = collected \cup {r.chunk}
           /\ UNCHANGED main
  <2>1. /\ DOMAIN r.res = SeedsOf(r.chunk) /\ Faithful(r.res)
        /\ r.chunk \in Chunks
    BY <1>8 DEF ResultsOK, Owned
  <2>2. SeedsOf(r.chunk) # {}
    BY <2>1 DEF Chunks, SeedsOf
  <2>3. /\ current'.left = SeedsOf(r.chunk) /\ current'.res = r.res
        /\ logs' = logs
    BY <1>2, <1>8
  <2>4. CurrentOK'
    BY <2>1, <2>2, <2>3, <1>8, SeedsInChunks DEF CurrentOK, Faithful, Ran, Verdict
  <2>5. CollectedOK'
    <3>1. current.left = {}
      BY <1>2 DEF NoCurrent
    <3>2. QED BY <3>1, <2>3, <1>8, SeedsInChunks DEF CollectedOK, Ran, Verdict
  <2>6. EndsOK'
    BY <1>2, <1>8 DEF EndsOK
  <2>7. QED BY <1>3, <1>4, <1>5, <1>6, <2>4, <2>5, <2>6
<1>9. QED BY <1>1, <1>7, <1>8

LEMMA NextResultStep == IInv /\ NextResult => IInv'
<1> SUFFICES ASSUME IInv, NextResult PROVE IInv'
  OBVIOUS
<1> USE DEF IInv
<1>1. /\ UNCHANGED <<queue, worker, logs, results, collected>>
      /\ main = "collect" /\ current # NoCurrent
  BY DEF NextResult
<1>2. PICK s \in current.left :
        \/ main' = "fail" /\ UNCHANGED current
        \/ /\ current.res[s] = "agree"
           /\ current' = IF current.left = {s} THEN NoCurrent
                         ELSE [current EXCEPT !.left = @ \ {s}]
           /\ UNCHANGED main
  BY DEF NextResult
<1>3. WorkersType' /\ LogsType' /\ Owned' /\ QueueFresh'
  BY <1>1 DEF WorkersType, LogsType, Owned, QueueFresh, Busy, Fresh
<1>4. WorkersOK' /\ ResultsOK' /\ EndsOK'
  BY <1>1, <1>2 DEF WorkersOK, WorkerOK, ResultsOK, EndsOK, Busy, Faithful, Fresh, Ran, Verdict
<1>5. CASE main' = "fail" /\ UNCHANGED current
  BY <1>1, <1>3, <1>4, <1>5 DEF CurrentOK, CollectedOK, Faithful, Ran, Verdict
<1>6. CASE /\ current.res[s] = "agree" /\ current.left = {s} /\ current' = NoCurrent
  <2>1. Ran(s) /\ Verdict(s) = "agree"
    BY <1>6 DEF CurrentOK, Faithful
  <2>2. CurrentOK'
    BY <1>6, ResultsType DEF CurrentOK, NoCurrent, Faithful
  <2>3. CollectedOK'
    BY <1>1, <1>6, <2>1 DEF CollectedOK, Ran, Verdict
  <2>4. QED BY <1>3, <1>4, <2>2, <2>3
<1>7. CASE /\ current.res[s] = "agree" /\ current.left # {s}
           /\ current' = [current EXCEPT !.left = @ \ {s}]
  <2>1. Ran(s) /\ Verdict(s) = "agree"
    BY <1>7 DEF CurrentOK, Faithful
  <2>2. current'.left = current.left \ {s} /\ current'.res = current.res
    BY <1>7
  <2>3. CurrentOK'
    BY <1>1, <1>7, <2>2 DEF CurrentOK, Faithful, Ran, Verdict
  <2>4. CollectedOK'
    BY <1>1, <2>1, <2>2 DEF CollectedOK, Ran, Verdict
  <2>5. QED BY <1>3, <1>4, <2>3, <2>4
<1>8. QED BY <1>2, <1>5, <1>6, <1>7

LEMMA PassStep == IInv /\ Pass => IInv'
<1> SUFFICES ASSUME IInv, Pass PROVE IInv'
  OBVIOUS
<1> USE DEF IInv
<1>1. /\ UNCHANGED <<queue, worker, logs, results, current, collected>>
      /\ main' = "pass" /\ current = NoCurrent /\ collected = Chunks
  BY DEF Pass
<1>2. WorkersType' /\ LogsType' /\ Owned' /\ QueueFresh'
  BY <1>1 DEF WorkersType, LogsType, Owned, QueueFresh, Busy, Fresh
<1>3. WorkersOK' /\ ResultsOK' /\ CurrentOK' /\ CollectedOK' /\ EndsOK'
  BY <1>1 DEF WorkersOK, WorkerOK, ResultsOK, CurrentOK, CollectedOK, EndsOK, Busy,
     Faithful, Fresh, Ran, Verdict
<1>4. QED BY <1>2, <1>3

LEMMA StutterStep == IInv /\ UNCHANGED vars => IInv'
<1> SUFFICES ASSUME IInv, UNCHANGED vars PROVE IInv'
  OBVIOUS
<1> USE DEF IInv, vars
<1>1. WorkersType' /\ LogsType' /\ Owned' /\ QueueFresh'
  BY DEF WorkersType, LogsType, Owned, QueueFresh, Busy, Fresh
<1>2. WorkersOK' /\ ResultsOK' /\ CurrentOK' /\ CollectedOK' /\ EndsOK'
  BY DEF WorkersOK, WorkerOK, ResultsOK, CurrentOK, CollectedOK, EndsOK, Busy,
     Faithful, Fresh, Ran, Verdict
<1>3. QED BY <1>1, <1>2

\* In every reachable state each chunk has one holder and the verdicts that
\* travel with it are those on its seeds' logs.
THEOREM Inductive == Spec => []IInv
<1>1. IInv /\ [Next]_vars => IInv'
  <2> SUFFICES ASSUME IInv, [Next]_vars PROVE IInv'
    OBVIOUS
  <2>1. CASE Collect
    BY <2>1, CheckStep, CollectStep, NextResultStep, PassStep DEF Collect
  <2>2. CASE \E w \in Workers : RunSeed(w)
    BY <2>2, TakeChunkStep, BuildStep, SpikeStep, RtlStep, CompareStep, RaiseStep DEF RunSeed
  <2>3. CASE \E w \in Workers : WorkerDies(w)
    BY <2>3, DeathStep
  <2>4. CASE UNCHANGED vars
    BY <2>4, StutterStep
  <2>5. QED BY <2>1, <2>2, <2>3, <2>4 DEF Next
<1>2. QED BY InitIInv, <1>1, PTL DEF Spec

-----------------------------------------------------------------------------
(* The theorems.                                                           *)

\* An "agree" is what it says: both logs were written, both are long enough
\* and no two commits at the same place differ.
LEMMA AgreeMeansAgreed ==
  ASSUME NEW s, Ran(s), Verdict(s) = "agree"
  PROVE  Agreed(s)
<1> DEFINE spike == logs[s].spike
           rtl   == logs[s].rtl
           limit == Lesser(Len(spike), Len(rtl))
<1>1. Len(spike) \in Nat /\ Len(rtl) \in Nat
      /\ DOMAIN spike = 1 .. Len(spike) /\ DOMAIN rtl = 1 .. Len(rtl)
  BY DEF Ran
<1>2. ~(limit < Insns) /\ ~(\E i \in 1 .. limit : spike[i] # rtl[i])
  BY DEF Verdict, compare_commits
<1>3. Len(spike) >= Insns /\ Len(rtl) >= Insns
  BY <1>1, <1>2, LockstepAssumption DEF Lesser
<1>4. \A i \in DOMAIN spike \cap DOMAIN rtl : spike[i] = rtl[i]
  BY <1>1, <1>2 DEF Lesser
<1>5. QED BY <1>3, <1>4 DEF Agreed, Ran

\* main() returns 0 only if every seed agreed, for any number of seeds,
\* workers and killed workers, any chunk size and any logs.
THEOREM Soundness == Spec => []PassSound
<1>1. IInv => PassSound
  <2> SUFFICES ASSUME IInv, main = "pass", NEW s \in Seeds PROVE Agreed(s)
    BY DEF PassSound
  <2>1. Chunk(s) \in collected /\ current.left = {}
    BY SeedsInChunks DEF IInv, EndsOK, NoCurrent
  <2>2. Ran(s) /\ Verdict(s) = "agree"
    BY <2>1 DEF IInv, CollectedOK
  <2>3. QED BY <2>2, AgreeMeansAgreed
<1>2. QED BY Inductive, <1>1, PTL
\* A log is written once: no seed is run again and no worker writes into the
\* directory of a seed that is not its own.
THEOREM WrittenOnce == Spec => RunOnce
<1>1. IInv /\ [Next]_vars => [LogsKept]_vars
  <2> SUFFICES ASSUME IInv, Next PROVE LogsKept
    OBVIOUS
  <2>1. ASSUME NEW w \in Workers, run_spike(w) PROVE LogsKept
    <3> DEFINE s == worker[w].seed
    <3>1. PICK log : logs' = [logs EXCEPT ![s].spike = log]
      BY <2>1 DEF run_spike
    <3>2. worker[w].stage = "spike" /\ Busy(w)
      BY <2>1 DEF run_spike, At, Busy
    <3>3. Fresh(s)
      BY <3>2 DEF IInv, WorkersOK, WorkerOK
    <3>4. \A t \in Seeds : t # s => logs'[t] = logs[t]
      BY <3>1 DEF IInv, LogsType
    <3>5. QED BY <3>3, <3>4 DEF Fresh, LogsKept
  <2>2. ASSUME NEW w \in Workers, run_verilator(w) PROVE LogsKept
    <3> DEFINE s == worker[w].seed
    <3>1. PICK log : logs' = [logs EXCEPT ![s].rtl = log]
      BY <2>2 DEF run_verilator
    <3>2. worker[w].stage = "rtl" /\ Busy(w)
      BY <2>2 DEF run_verilator, At, Busy
    <3>3. logs[s].rtl = NotRun /\ s \in Seeds
      BY <3>2, SeedsInChunks DEF IInv, WorkersOK, WorkerOK
    <3>4. /\ \A t \in Seeds : t # s => logs'[t] = logs[t]
          /\ logs'[s] = [logs[s] EXCEPT !.rtl = log]
          /\ logs[s] = [spike |-> logs[s].spike, rtl |-> logs[s].rtl]
      BY <3>1, <3>3 DEF IInv, LogsType
    <3>5. logs'[s].spike = logs[s].spike
      BY <3>4
    <3>6. QED BY <3>3, <3>4, <3>5 DEF LogsKept
  <2>3. CASE UNCHANGED logs
    BY <2>3 DEF LogsKept
  <2>4. Next => \/ \E w \in Workers : run_spike(w) \/ run_verilator(w)
                \/ UNCHANGED logs
    BY DEF Next, Collect, CheckTools, CollectChunk, NextResult, Pass, RunSeed, TakeChunk,
       BuildProgram, CompareSeed, RaiseInWorker, WorkerDies
  <2>5. QED BY <2>1, <2>2, <2>3, <2>4
<1>2. QED BY Inductive, <1>1, PTL DEF Spec, RunOnce

-----------------------------------------------------------------------------
(* What main() counts.                                                     *)

\* The seeds whose verdict main() has looked at.
Looked == {s \in Seeds : Chunk(s) \in collected /\ s \notin current.left}

CurrentShape == current = [left |-> current.left, res |-> current.res]
Counting == CurrentShape /\ (main # "fail" => completed = Cardinality(Looked))

LEMMA SeedsFinite == IsFiniteSet(Seeds) /\ Cardinality(Seeds) = NumSeeds
<1>1. NumSeeds \in Nat
  BY LockstepAssumption
<1>2. 0 \in Int /\ NumSeeds - 1 \in Int
  BY <1>1
<1>3. /\ IsFiniteSet(0 .. NumSeeds - 1)
      /\ Cardinality(0 .. NumSeeds - 1) = IF 0 > NumSeeds - 1 THEN 0 ELSE NumSeeds - 1 - 0 + 1
  BY <1>2, FS_Interval
<1>4. Cardinality(0 .. NumSeeds - 1) = NumSeeds
  BY <1>1, <1>3
<1>5. QED BY <1>3, <1>4 DEF Seeds

LEMMA LookedFinite ==
  IsFiniteSet(Looked) /\ Cardinality(Looked) \in Nat /\ \A s \in Seeds \ Looked :
    Cardinality(Looked \cup {s}) = Cardinality(Looked) + 1
<1>1. IsFiniteSet(Looked)
  BY SeedsFinite, FS_Subset DEF Looked
<1>2. QED BY <1>1, FS_CardinalityType, FS_AddElement

\* Taking a chunk counts nothing, each verdict that is looked at counts one.
LEMMA CountingStep ==
  ASSUME IInv, Counting, [Next]_vars
  PROVE  Counting'
<1>1. CASE UNCHANGED <<completed, current, collected>> /\ (main' # "fail" => main # "fail")
  BY <1>1 DEF Counting, CurrentShape, Looked
<1>2. CASE CollectChunk
  <2>1. main = "collect" /\ current = NoCurrent /\ completed' = completed
    BY <1>2 DEF CollectChunk
  <2>2. PICK r \in results :
          \/ r.raised /\ main' = "raised" /\ UNCHANGED <<current, collected>>
          \/ /\ current' = [left |-> SeedsOf(r.chunk), res |-> r.res]
             /\ collected' = collected \cup {r.chunk}
             /\ UNCHANGED main
    BY <1>2 DEF CollectChunk
  <2>3. r.chunk \notin collected
    BY DEF IInv, Owned
  <2>4. Looked' = Looked
    <3>1. CASE UNCHANGED <<current, collected>>
      BY <3>1 DEF Looked
    <3>2. CASE /\ current' = [left |-> SeedsOf(r.chunk), res |-> r.res]
               /\ collected' = collected \cup {r.chunk}
      <4>1. current'.left = SeedsOf(r.chunk) /\ current.left = {}
        BY <2>1, <3>2 DEF NoCurrent
      <4>2. QED BY <2>3, <3>2, <4>1, SeedsInChunks DEF Looked
    <3>3. QED BY <2>2, <3>1, <3>2
  <2>5. CurrentShape'
    BY <2>2 DEF Counting, CurrentShape
  <2>6. QED BY <2>1, <2>4, <2>5 DEF Counting
<1>3. CASE NextResult
  <2>1. /\ main = "collect" /\ current # NoCurrent
        /\ completed' = completed + 1 /\ collected' = collected
    BY <1>3 DEF NextResult
  <2>2. PICK s \in current.left :
          \/ main' = "fail" /\ UNCHANGED current
          \/ /\ current' = IF current.left = {s} THEN NoCurrent
                           ELSE [current EXCEPT !.left = @ \ {s}]
             /\ UNCHANGED main
    BY <1>3 DEF NextResult
  <2>3. s \in Seeds \ Looked /\ Chunk(s) \in collected
    BY DEF IInv, CurrentOK, Looked
  <2>4. CASE current' = IF current.left = {s} THEN NoCurrent
                        ELSE [current EXCEPT !.left = @ \ {s}]
    <3>1. current'.left = current.left \ {s}
      <4>1. CASE current.left = {s}
        BY <2>4, <4>1 DEF NoCurrent
      <4>2. CASE current.left # {s}
        <5>1. current' = [current EXCEPT !.left = @ \ {s}]
          BY <2>4, <4>2
        <5>2. current = [left |-> current.left, res |-> current.res]
          BY DEF Counting, CurrentShape
        <5>3. QED BY <5>1, <5>2
      <4>3. QED BY <4>1, <4>2
    <3>2. Looked' = Looked \cup {s}
      BY <2>1, <2>3, <3>1 DEF Looked
    <3>3. CurrentShape'
      BY <2>4 DEF Counting, CurrentShape, NoCurrent
    <3>4. QED BY <2>1, <2>3, <3>2, <3>3, LookedFinite DEF Counting
  <2>5. CASE main' = "fail" /\ UNCHANGED current
    BY <2>5 DEF Counting, CurrentShape
  <2>6. QED BY <2>2, <2>4, <2>5
<1>4. QED BY <1>1, <1>2, <1>3
     DEF Next, Collect, CheckTools, Pass, RunSeed, TakeChunk, BuildProgram, run_spike,
         run_verilator, CompareSeed, RaiseInWorker, WorkerDies, vars

LEMMA InitCounting == Init => Counting
<1> SUFFICES ASSUME Init PROVE completed = Cardinality(Looked)
  BY DEF Counting, CurrentShape, Init, NoCurrent
<1>1. Looked = {} /\ completed = 0
  BY DEF Init, Looked
<1>2. QED BY <1>1, FS_EmptySet

\* With "pass" main() has counted every seed.
THEOREM EverySeedCounted == Spec => []CountsSeeds
<1>1. Init => Counting
  BY InitCounting
<1>2. IInv /\ Counting => CountsSeeds
  <2> SUFFICES ASSUME IInv, Counting, main = "pass" PROVE completed = NumSeeds
    BY DEF CountsSeeds
  <2>1. current.left = {} /\ collected = Chunks
    BY DEF IInv, EndsOK, NoCurrent
  <2>2. Looked = Seeds
    BY <2>1, SeedsInChunks DEF Looked
  <2>3. QED BY <2>2, SeedsFinite DEF Counting
<1>3. QED BY <1>1, <1>2, CountingStep, Inductive, PTL DEF Spec

-----------------------------------------------------------------------------
(* What main() reports.                                                    *)

SpikeOK == \A s \in Seeds : logs[s].spike # NotRun => \E n \in Nat : logs[s].spike = Retires(n)

ReportedOK ==
  /\ main \in {"check", "collect"} => report = NoReport
  /\ report.error = "mismatch" =>
       /\ main = "fail" /\ report.seed \in Seeds
       /\ Ran(report.seed) /\ Verdict(report.seed) = "mismatch"

LEMMA SpikeOKStep ==
  ASSUME IInv, SpikeOK, [Next]_vars
  PROVE  SpikeOK'
<1>1. CASE UNCHANGED logs
  BY <1>1 DEF SpikeOK
<1>2. ASSUME NEW w \in Workers, run_spike(w) PROVE SpikeOK'
  <2> DEFINE t == worker[w].seed
  <2>1. PICK log \in SpikeLogs : logs' = [logs EXCEPT ![t].spike = spike_program_commits(log)]
    BY <1>2 DEF run_spike
  <2>2. PICK n \in Nat : spike_program_commits(log) = Retires(n)
    BY SpikeRetires
  <2>3. ASSUME NEW s \in Seeds, logs'[s].spike # NotRun
        PROVE  \E m \in Nat : logs'[s].spike = Retires(m)
    <3>1. logs[s] = [spike |-> logs[s].spike, rtl |-> logs[s].rtl] /\ DOMAIN logs = Seeds
      BY DEF IInv, LogsType
    <3>2. CASE s = t
      BY <2>1, <2>2, <3>1, <3>2
    <3>3. CASE s # t
      BY <2>1, <2>3, <3>1, <3>3 DEF SpikeOK
    <3>4. QED BY <3>2, <3>3
  <2>4. QED BY <2>3 DEF SpikeOK
<1>3. ASSUME NEW w \in Workers, run_verilator(w) PROVE SpikeOK'
  <2> DEFINE t == worker[w].seed
  <2>1. PICK log \in RtlLogs : logs' = [logs EXCEPT ![t].rtl = log]
    BY <1>3 DEF run_verilator
  <2>2. ASSUME NEW s \in Seeds PROVE logs'[s].spike = logs[s].spike
    <3>1. logs[s] = [spike |-> logs[s].spike, rtl |-> logs[s].rtl] /\ DOMAIN logs = Seeds
      BY DEF IInv, LogsType
    <3>2. CASE s = t
      BY <2>1, <3>1, <3>2
    <3>3. CASE s # t
      BY <2>1, <3>1, <3>3
    <3>4. QED BY <3>2, <3>3
  <2>3. QED BY <2>2 DEF SpikeOK
<1>4. QED BY <1>1, <1>2, <1>3
     DEF Next, Collect, CheckTools, CollectChunk, NextResult, Pass, RunSeed, TakeChunk,
         BuildProgram, CompareSeed, RaiseInWorker, WorkerDies, vars

LEMMA ReportedStep ==
  ASSUME IInv, ReportedOK, [Next]_vars
  PROVE  ReportedOK'
<1>1. NoReport.error = "none"
  BY DEF NoReport
<1>2. CASE UNCHANGED report /\ main = "check"
  BY <1>1, <1>2 DEF ReportedOK
<1>3. CASE UNCHANGED report /\ main = "collect"
  BY <1>1, <1>3 DEF ReportedOK
<1>4. CASE UNCHANGED vars
  BY <1>4 DEF ReportedOK, Ran, Verdict, vars
<1>5. CASE NextResult
  <2>1. /\ main = "collect" /\ UNCHANGED logs
        /\ \E s \in current.left :
             \/ /\ main' = "fail" /\ report' = [seed |-> s, error |-> current.res[s]]
             \/ UNCHANGED <<main, report>>
    BY <1>5 DEF NextResult
  <2>2. CASE UNCHANGED <<main, report>>
    BY <1>1, <2>1, <2>2 DEF ReportedOK
  <2>3. ASSUME NEW s \in current.left, main' = "fail",
               report' = [seed |-> s, error |-> current.res[s]]
        PROVE  ReportedOK'
    <3>1. s \in Seeds /\ Ran(s) /\ current.res[s] = Verdict(s)
      BY DEF IInv, CurrentOK, Faithful
    <3>2. Ran(s)' /\ Verdict(s)' = Verdict(s)
      BY <2>1, <3>1 DEF Ran, Verdict
    <3>3. report'.seed = s /\ report'.error = Verdict(s)
      BY <2>3, <3>1
    <3>4. QED BY <2>3, <3>1, <3>2, <3>3 DEF ReportedOK, Ran, Verdict
  <2>4. QED BY <2>1, <2>2, <2>3
<1>6. QED BY <1>2, <1>3, <1>4, <1>5
     DEF Next, Collect, CheckTools, CollectChunk, Pass, RunSeed, TakeChunk, BuildProgram,
         run_spike, run_verilator, CompareSeed, RaiseInWorker, WorkerDies, At

\* A reported mismatch is a deviation of the core, wherever the logs end.
THEOREM MismatchIsReal == Spec => []NoFalseMismatch
<1>1. Init => SpikeOK /\ ReportedOK
  BY DEF Init, SpikeOK, ReportedOK, NoReport
<1>2. SpikeOK /\ ReportedOK => NoFalseMismatch
  <2> SUFFICES ASSUME SpikeOK, ReportedOK, report.error = "mismatch"
               PROVE  \E i \in DOMAIN logs[report.seed].rtl : logs[report.seed].rtl[i] # Trace(i)
    BY DEF NoFalseMismatch
  <2> DEFINE s     == report.seed
             spike == logs[s].spike
             rtl   == logs[s].rtl
             limit == Lesser(Len(spike), Len(rtl))
  <2>1. s \in Seeds /\ Ran(s) /\ Verdict(s) = "mismatch"
    BY DEF ReportedOK
  <2>2. PICK n \in Nat : spike = Retires(n)
    BY <2>1 DEF SpikeOK, Ran
  <2>3. Len(spike) = n /\ \A i \in 1 .. n : spike[i] = Trace(i)
    BY <2>2, RetiresLists
  <2>4. Len(rtl) \in Nat /\ DOMAIN rtl = 1 .. Len(rtl)
    BY <2>1 DEF Ran
  <2>5. PICK i \in 1 .. limit : spike[i] # rtl[i]
    BY <2>1 DEF Verdict, compare_commits
  <2>6. i \in 1 .. n /\ i \in 1 .. Len(rtl)
    BY <2>3, <2>4 DEF Lesser
  <2>7. QED BY <2>3, <2>4, <2>5, <2>6
<1>3. QED BY <1>1, <1>2, SpikeOKStep, ReportedStep, Inductive, PTL DEF Spec
-----------------------------------------------------------------------------
(* Types.                                                                  *)

MainType ==
  /\ main \in {"check", "collect"} \cup Ends
  /\ tools \subseteq {"simulator", "gcc", "spike"}
  /\ collected \subseteq Chunks
  /\ deaths \in 0 .. MaxDeaths
LogsShape == \A s \in Seeds : logs[s].spike \in Logs /\ logs[s].rtl \in Logs
ResultsShape ==
  /\ results \subseteq [chunk : Chunks, raised : BOOLEAN, res : PartialResults]
  /\ current.left \subseteq Seeds /\ current.res \in PartialResults
Counted ==
  /\ completed \in 0 .. NumSeeds
  /\ report = NoReport \/ report \in [seed : Seeds, error : Verdicts]

LEMMA MainTypeStep == IInv /\ MainType /\ [Next]_vars => MainType'
<1> SUFFICES ASSUME IInv, MainType, [Next]_vars PROVE MainType'
  OBVIOUS
<1>1. tools' = tools
  BY DEF Next, Collect, CheckTools, CollectChunk, NextResult, Pass, RunSeed, TakeChunk,
         BuildProgram, run_spike, run_verilator, CompareSeed, RaiseInWorker, WorkerDies, vars
<1>2. main' \in {"check", "collect"} \cup Ends
  BY DEF Next, Collect, CheckTools, CollectChunk, NextResult, Pass, RunSeed, TakeChunk,
         BuildProgram, run_spike, run_verilator, CompareSeed, RaiseInWorker, WorkerDies, vars,
         MainType, Ends
<1>3. collected' \subseteq Chunks
  BY DEF Next, Collect, CheckTools, CollectChunk, NextResult, Pass, RunSeed, TakeChunk,
         BuildProgram, run_spike, run_verilator, CompareSeed, RaiseInWorker, WorkerDies, vars,
         MainType, IInv, Owned
<1>4. deaths' \in 0 .. MaxDeaths
  <2>1. deaths' = deaths \/ (deaths < MaxDeaths /\ deaths' = deaths + 1)
    BY DEF Next, Collect, CheckTools, CollectChunk, NextResult, Pass, RunSeed, TakeChunk,
           BuildProgram, run_spike, run_verilator, CompareSeed, RaiseInWorker, WorkerDies, vars
  <2>2. QED BY <2>1, LockstepAssumption DEF MainType
<1>5. QED BY <1>1, <1>2, <1>3, <1>4 DEF MainType

LEMMA LogsShapeStep == IInv /\ LogsShape /\ [Next]_vars => LogsShape'
<1> SUFFICES ASSUME IInv, LogsShape, [Next]_vars PROVE LogsShape'
  OBVIOUS
<1>1. CASE UNCHANGED logs
  BY <1>1 DEF LogsShape
<1>2. ASSUME NEW w \in Workers, run_spike(w) \/ run_verilator(w) PROVE LogsShape'
  <2> DEFINE t == worker[w].seed
  <2>1. PICK log \in Seq(Commits) : \/ logs' = [logs EXCEPT ![t].spike = log]
                                   \/ logs' = [logs EXCEPT ![t].rtl = log]
    BY <1>2, LogsAreLists DEF run_spike, run_verilator
  <2>2. ASSUME NEW s \in Seeds PROVE logs'[s].spike \in Logs /\ logs'[s].rtl \in Logs
    <3>1. logs[s] = [spike |-> logs[s].spike, rtl |-> logs[s].rtl] /\ DOMAIN logs = Seeds
      BY DEF IInv, LogsType
    <3>2. logs[s].spike \in Logs /\ logs[s].rtl \in Logs /\ log \in Logs
      BY DEF LogsShape, Logs
    <3>3. CASE s = t
      BY <2>1, <3>1, <3>2, <3>3
    <3>4. CASE s # t
      BY <2>1, <3>1, <3>2, <3>4
    <3>5. QED BY <3>3, <3>4
  <2>3. QED BY <2>2 DEF LogsShape
<1>3. QED BY <1>1, <1>2
     DEF Next, Collect, CheckTools, CollectChunk, NextResult, Pass, RunSeed, TakeChunk,
         BuildProgram, CompareSeed, RaiseInWorker, WorkerDies, vars

LEMMA ResultsShapeStep == IInv /\ Counting /\ ResultsShape /\ [Next]_vars => ResultsShape'
<1> SUFFICES ASSUME IInv, Counting, ResultsShape, [Next]_vars PROVE ResultsShape'
  OBVIOUS
<1> DEFINE R == [chunk : Chunks, raised : BOOLEAN, res : PartialResults]
<1>1. CASE UNCHANGED <<results, current>>
  BY <1>1 DEF ResultsShape
<1>2. ASSUME NEW w \in Workers, CompareSeed(w) PROVE ResultsShape'
  <2> DEFINE s   == worker[w].seed
             k   == worker[w].chunk
             res == With(worker[w].res, s, Verdict(s))
  <2>1. worker[w].stage = "compare" /\ Busy(w)
    BY <1>2 DEF CompareSeed, At, Busy
  <2>2. /\ s \in Seeds /\ worker[w].res \in PartialResults /\ k \in Chunks
        /\ Verdict(s) \in Verdicts
    BY <2>1, SeedsInChunks
    DEF IInv, WorkersOK, WorkerOK, WorkersType, Owned, Verdict, compare_commits, Verdicts
  <2>3. res \in PartialResults
    BY <2>2, ResultsType
  <2>4. /\ current' = current
        /\ results' \subseteq results \cup {[chunk |-> k, raised |-> FALSE, res |-> res]}
    BY <1>2 DEF CompareSeed, Verdict
  <2> HIDE DEF res, k
  <2>5. [chunk |-> k, raised |-> FALSE, res |-> res] \in R
    BY <2>2, <2>3
  <2>6. QED BY <2>4, <2>5 DEF ResultsShape
<1>3. ASSUME NEW w \in Workers, RaiseInWorker(w) PROVE ResultsShape'
  <2> DEFINE k == worker[w].chunk
  <2>1. Busy(w)
    BY <1>3 DEF RaiseInWorker, At, Busy
  <2>2. k \in Chunks /\ NoResults \in PartialResults
    BY <2>1, ResultsType DEF IInv, Owned
  <2>3. /\ current' = current
        /\ results' = results \cup {[chunk |-> k, raised |-> TRUE, res |-> NoResults]}
    BY <1>3 DEF RaiseInWorker
  <2>4. [chunk |-> k, raised |-> TRUE, res |-> NoResults] \in R
    BY <2>2
  <2>5. QED BY <2>3, <2>4 DEF ResultsShape
<1>4. CASE CollectChunk
  <2>1. PICK r \in results :
          /\ results' = results \ {r}
          /\ \/ UNCHANGED current
             \/ current' = [left |-> SeedsOf(r.chunk), res |-> r.res]
    BY <1>4 DEF CollectChunk
  <2>2. r.res \in PartialResults /\ SeedsOf(r.chunk) \subseteq Seeds
    BY SeedsInChunks DEF ResultsShape
  <2>3. QED BY <2>1, <2>2 DEF ResultsShape
<1>5. CASE NextResult
  <2>1. /\ results' = results
        /\ \/ current' = current
           \/ current' = NoCurrent
           \/ \E s \in current.left : current' = [current EXCEPT !.left = @ \ {s}]
    BY <1>5 DEF NextResult
  <2>2. current = [left |-> current.left, res |-> current.res]
    BY DEF Counting, CurrentShape
  <2>3. NoCurrent.left = {} /\ NoCurrent.res \in PartialResults
    BY ResultsType DEF NoCurrent
  <2>4. current'.left \subseteq Seeds /\ current'.res \in PartialResults
    <3>1. CASE current' = current
      BY <3>1 DEF ResultsShape
    <3>2. CASE current' = NoCurrent
      BY <2>3, <3>2
    <3>3. ASSUME NEW s \in current.left, current' = [current EXCEPT !.left = @ \ {s}]
          PROVE  current'.left \subseteq Seeds /\ current'.res \in PartialResults
      <4>1. current'.left = current.left \ {s} /\ current'.res = current.res
        BY <2>2, <3>3
      <4>2. QED BY <4>1 DEF ResultsShape
    <3>4. QED BY <2>1, <3>1, <3>2, <3>3
  <2>5. QED BY <2>1, <2>4 DEF ResultsShape
<1>6. QED BY <1>1, <1>2, <1>3, <1>4, <1>5
     DEF Next, Collect, CheckTools, Pass, RunSeed, TakeChunk,
         BuildProgram, run_spike, run_verilator, WorkerDies, vars

LEMMA CountedStep == IInv /\ Counting /\ Counted /\ [Next]_vars => Counted'
<1> SUFFICES ASSUME IInv, Counting, Counted, [Next]_vars PROVE Counted'
  OBVIOUS
<1>1. CASE NextResult
  <2>1. /\ main = "collect" /\ completed' = completed + 1
        /\ \E s \in current.left :
             report' = report \/ report' = [seed |-> s, error |-> current.res[s]]
    BY <1>1 DEF NextResult
  <2>2. PICK s \in current.left :
          report' = report \/ report' = [seed |-> s, error |-> current.res[s]]
    BY <2>1
  <2>3. s \in Seeds \ Looked /\ Ran(s) /\ current.res[s] = Verdict(s)
    BY DEF IInv, CurrentOK, Faithful, Looked
  <2>4. current.res[s] \in Verdicts
    BY <2>3 DEF Verdict, compare_commits, Verdicts
  <2>5. completed = Cardinality(Looked)
    BY <2>1 DEF Counting
  <2>6. Cardinality(Looked \cup {s}) = completed + 1 /\ completed \in Nat
    BY <2>3, <2>5, LookedFinite
  <2>7. Cardinality(Looked \cup {s}) <= NumSeeds
    <3>1. Looked \cup {s} \in SUBSET Seeds
      BY <2>3 DEF Looked
    <3>2. QED BY <3>1, SeedsFinite, FS_Subset
  <2>8. completed' \in 0 .. NumSeeds
    BY <2>1, <2>6, <2>7, LockstepAssumption
  <2>9. [seed |-> s, error |-> current.res[s]] \in [seed : Seeds, error : Verdicts]
    BY <2>3, <2>4
  <2>10. QED BY <2>2, <2>8, <2>9 DEF Counted
<1>2. CASE UNCHANGED <<completed, report>>
  BY <1>2 DEF Counted
<1>3. QED BY <1>1, <1>2
     DEF Next, Collect, CheckTools, CollectChunk, Pass, RunSeed, TakeChunk, BuildProgram,
         run_spike, run_verilator, CompareSeed, RaiseInWorker, WorkerDies, vars

\* The state of main() and its workers is type correct.
THEOREM TypesHold == Spec => []TypeOK
<1>1. Init => MainType /\ LogsShape /\ ResultsShape /\ Counted
  <2> SUFFICES ASSUME Init PROVE MainType /\ LogsShape /\ ResultsShape /\ Counted
    OBVIOUS
  <2>1. MainType
    BY LockstepAssumption DEF Init, MainType
  <2>2. LogsShape
    BY DEF Init, LogsShape, Logs
  <2>3. ResultsShape
    BY ResultsType DEF Init, ResultsShape, NoCurrent
  <2>4. Counted
    BY LockstepAssumption DEF Init, Counted
  <2>5. QED BY <2>1, <2>2, <2>3, <2>4
<1>2. IInv /\ MainType /\ LogsShape /\ ResultsShape /\ Counted => TypeOK
  BY DEF IInv, Owned, WorkersType, Stages, MainType, LogsShape, ResultsShape, Counted, TypeOK
<1>3. QED BY <1>1, <1>2, MainTypeStep, LogsShapeStep, ResultsShapeStep, CountedStep,
             InitCounting, CountingStep, Inductive, PTL DEF Spec
=============================================================================
