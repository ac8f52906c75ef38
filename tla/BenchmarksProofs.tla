-------------------------- MODULE BenchmarksProofs --------------------------
(***************************************************************************)
(* Theorems about Benchmarks, for every list of ISAs, every cost of the    *)
(* programs, every limit and any number of invocations.                    *)
(***************************************************************************)
EXTENDS Benchmarks, SequenceTheorems, WellFoundedInduction, TLAPS

-----------------------------------------------------------------------------
(* Arithmetic.                                                             *)

LEMMA DivMod ==
  ASSUME NEW x \in Nat, NEW d \in Nat \ {0}
  PROVE  /\ x \div d \in Nat /\ x % d \in 0 .. d - 1
         /\ x = d * (x \div d) + (x % d)
  OBVIOUS

(* The quotient rounded up times the divisor is no less.                   *)
LEMMA CeilDivCovers ==
  ASSUME NEW x \in Nat, NEW d \in Nat \ {0}
  PROVE  CeilDiv(x, d) \in Nat /\ x <= d * CeilDiv(x, d)
<1> DEFINE y == x + d - 1
<1>1. y \in Nat
  OBVIOUS
<1>2. y \div d \in Nat /\ y % d \in 0 .. d - 1 /\ y = d * (y \div d) + (y % d)
  BY <1>1, DivMod
<1>3. d * (y \div d) \in Nat
  BY <1>2
<1>4. QED BY <1>2, <1>3 DEF CeilDiv

LEMMA TenTimes ==
  ASSUME NEW x \in Nat, NEW d \in Nat \ {0}, x \div d >= 10
  PROVE  x >= 10 * d
<1>1. PICK q \in Nat : q = x \div d
  BY DivMod
<1>2. PICK r \in Nat : x = d * q + r
  <2>1. x % d \in Nat /\ x = d * (x \div d) + (x % d)
    BY DivMod
  <2>2. x = d * q + (x % d)
    BY <1>1, <2>1
  <2>3. QED BY <2>1, <2>2
<1>3. PICK e \in Nat : q = 10 + e
  <2>1. q - 10 \in Nat /\ q = 10 + (q - 10)
    BY <1>1
  <2>2. QED BY <2>1
<1>4. d * q = d * 10 + d * e /\ d * e \in Nat
  BY <1>3
<1>5. QED BY <1>2, <1>4

(* The cost of one iteration and the overhead spread over the pilot's.     *)
LEMMA SpreadOver ==
  ASSUME NEW o \in Nat, NEW n \in Nat \ {0}, NEW c \in Nat
  PROVE  (o + n * c) \div n = c + o \div n
  OBVIOUS

-----------------------------------------------------------------------------
(* Induction.  The induction theorems of the library have an operator as a *)
(* parameter; the well-foundedness of the natural numbers, which they rest *)
(* on, is about sets.                                                      *)

(* A set of natural numbers that is not empty has a least element.         *)
LEMMA LeastElement ==
  ASSUME NEW T, T \subseteq Nat, T # {}
  PROVE  \E n \in T : \A m \in T : n <= m
<1>1. PICK n \in T : \A m \in T : <<m, n>> \notin OpToRel(<, Nat)
  BY NatLessThanWellFounded, WFMin
<1>2. \A m \in T : m \in Nat /\ n \in Nat /\ <<m, n>> \in Nat \X Nat
  BY <1>1
<1>3. \A m \in T : ~(m < n)
  BY <1>1, <1>2 DEF OpToRel
<1>4. \A m \in T : n <= m
  BY <1>2, <1>3
<1>5. QED BY <1>4

(* What holds of 0, and of n + 1 when it holds of n, holds of every n.     *)
LEMMA Induction ==
  ASSUME NEW S, 0 \in S, \A n \in Nat : n \in S => n + 1 \in S
  PROVE  \A n \in Nat : n \in S
<1> DEFINE T == {n \in Nat : n \notin S}
<1>1. SUFFICES ASSUME T # {} PROVE FALSE
  OBVIOUS
<1>2. PICK n \in T : \A m \in T : n <= m
  BY <1>1, LeastElement
<1>3. n \in Nat /\ n \notin S
  OBVIOUS
<1>4. n - 1 \in Nat /\ (n - 1) + 1 = n
  BY <1>3
<1>5. n - 1 \in S
  BY <1>2, <1>4
<1>6. QED BY <1>3, <1>4, <1>5

-----------------------------------------------------------------------------
(* What an invocation has to do.                                           *)

StageNames == {"coremark_pilot", "performance", "validation", "dhrystone_pilot", "dhrystone"}
Work == [isa : Isas, stage : StageNames]

LEMMA CoremarkNames ==
  ASSUME NEW s
  PROVE  Coremark(s) <=> s \in {"coremark_pilot", "performance", "validation"}
<1>1. /\ DOMAIN CoremarkStages = {1, 2, 3} /\ CoremarkStages[1] = "coremark_pilot"
      /\ CoremarkStages[2] = "performance" /\ CoremarkStages[3] = "validation"
  BY DEF CoremarkStages
<1>2. QED BY <1>1 DEF Coremark

(* Every benchmark starts with a pilot and ends with a measured stage, and *)
(* a measured stage comes after one of the same program.                   *)
StagesFit(s) ==
  /\ Len(s) \in {5, 3, 2} /\ \A i \in 1 .. Len(s) : s[i] \in StageNames
  /\ Pilot(s[1]) /\ ~Pilot(s[Len(s)])
  /\ \A i \in 1 .. Len(s) - 1 : ~Pilot(s[i + 1]) => (Coremark(s[i]) <=> Coremark(s[i + 1]))

LEMMA StagesFollow ==
  ASSUME NEW b \in {"all", "coremark", "dhrystone"}
  PROVE  StagesFit(Stages(b))
<1>a. /\ CoremarkStages \in Seq(StageNames) /\ Len(CoremarkStages) = 3
      /\ CoremarkStages[1] = "coremark_pilot"
      /\ CoremarkStages[2] = "performance" /\ CoremarkStages[3] = "validation"
  BY DEF CoremarkStages, StageNames
<1>b. /\ DhrystoneStages \in Seq(StageNames) /\ Len(DhrystoneStages) = 2
      /\ DhrystoneStages[1] = "dhrystone_pilot" /\ DhrystoneStages[2] = "dhrystone"
  BY DEF DhrystoneStages, StageNames
<1>c. /\ Coremark("coremark_pilot") /\ Coremark("performance") /\ Coremark("validation")
      /\ ~Coremark("dhrystone_pilot") /\ ~Coremark("dhrystone")
  BY CoremarkNames
<1>1. CASE b = "all"
  <2>0. Stages(b) = CoremarkStages \o DhrystoneStages
    BY <1>1 DEF Stages
  <2>1. /\ Len(Stages(b)) = 5
        /\ Stages(b)[1] = "coremark_pilot" /\ Stages(b)[2] = "performance"
        /\ Stages(b)[3] = "validation" /\ Stages(b)[4] = "dhrystone_pilot"
        /\ Stages(b)[5] = "dhrystone"
    <3>0. /\ Len(CoremarkStages \o DhrystoneStages) = Len(CoremarkStages) + Len(DhrystoneStages)
          /\ \A i \in 1 .. Len(CoremarkStages) + Len(DhrystoneStages) :
               (CoremarkStages \o DhrystoneStages)[i] =
                 IF i <= Len(CoremarkStages) THEN CoremarkStages[i]
                 ELSE DhrystoneStages[i - Len(CoremarkStages)]
      <4>1. CoremarkStages \in Seq(StageNames) /\ DhrystoneStages \in Seq(StageNames)
        BY <1>a, <1>b
      <4>2. QED BY <4>1, ConcatProperties, Zenon
    <3>1. \A i \in 1 .. 3 + 2 :
            Stages(b)[i] = IF i <= 3 THEN CoremarkStages[i] ELSE DhrystoneStages[i - 3]
      BY <2>0, <1>a, <1>b, <3>0, Zenon
    <3>2. Len(Stages(b)) = 3 + 2
      BY <2>0, <1>a, <1>b, <3>0, Zenon
    <3>3. Stages(b)[4] = DhrystoneStages[4 - 3] /\ Stages(b)[5] = DhrystoneStages[5 - 3]
      BY <3>1
    <3>4. QED BY <3>1, <3>2, <3>3, <1>a, <1>b
  <2>2. \A i \in 1 .. 5 : i = 1 \/ i = 2 \/ i = 3 \/ i = 4 \/ i = 5
    OBVIOUS
  <2>3. \A i \in 1 .. 5 : Stages(b)[i] \in StageNames
    BY <2>1, <2>2 DEF StageNames
  <2>4. ASSUME NEW i \in 1 .. 4, ~Pilot(Stages(b)[i + 1])
        PROVE  Coremark(Stages(b)[i]) <=> Coremark(Stages(b)[i + 1])
    <3>1. i + 1 = 2 \/ i + 1 = 3 \/ i + 1 = 4 \/ i + 1 = 5
      OBVIOUS
    <3>2. \/ Stages(b)[i] = "coremark_pilot" /\ Stages(b)[i + 1] = "performance"
          \/ Stages(b)[i] = "performance" /\ Stages(b)[i + 1] = "validation"
          \/ Stages(b)[i] = "dhrystone_pilot" /\ Stages(b)[i + 1] = "dhrystone"
      BY <2>1, <2>4, <3>1 DEF Pilot
    <3>3. QED BY <3>2, <1>c, Zenon
  <2>5. Pilot(Stages(b)[1]) /\ ~Pilot(Stages(b)[5])
    BY <2>1 DEF Pilot
  <2>6. \A i \in 1 .. Len(Stages(b)) : Stages(b)[i] \in StageNames
    BY <2>1, <2>3, Zenon
  <2>7. Len(Stages(b)) - 1 = 4 /\ Len(Stages(b)) \in {5, 3, 2}
    BY <2>1
  <2>8. QED BY <2>1, <2>4, <2>5, <2>6, <2>7, Zenon DEF StagesFit
<1>2. CASE b = "coremark"
  <2>1. /\ Len(Stages(b)) = 3
        /\ Stages(b)[1] = "coremark_pilot" /\ Stages(b)[2] = "performance"
        /\ Stages(b)[3] = "validation"
    BY <1>2, <1>a DEF Stages
  <2>2. \A i \in 1 .. 3 : i = 1 \/ i = 2 \/ i = 3
    OBVIOUS
  <2>3. \A i \in 1 .. 3 : Stages(b)[i] \in StageNames
    BY <2>1, <2>2 DEF StageNames
  <2>4. ASSUME NEW i \in 1 .. 2, ~Pilot(Stages(b)[i + 1])
        PROVE  Coremark(Stages(b)[i]) <=> Coremark(Stages(b)[i + 1])
    <3>1. i + 1 = 2 \/ i + 1 = 3
      OBVIOUS
    <3>2. \/ Stages(b)[i] = "coremark_pilot" /\ Stages(b)[i + 1] = "performance"
          \/ Stages(b)[i] = "performance" /\ Stages(b)[i + 1] = "validation"
      BY <2>1, <2>4, <3>1 DEF Pilot
    <3>3. QED BY <3>2, <1>c, Zenon
  <2>5. Pilot(Stages(b)[1]) /\ ~Pilot(Stages(b)[3])
    BY <2>1 DEF Pilot
  <2>6. \A i \in 1 .. Len(Stages(b)) : Stages(b)[i] \in StageNames
    BY <2>1, <2>3, Zenon
  <2>7. Len(Stages(b)) - 1 = 2 /\ Len(Stages(b)) \in {5, 3, 2}
    BY <2>1
  <2>8. QED BY <2>1, <2>4, <2>5, <2>6, <2>7, Zenon DEF StagesFit
<1>3. CASE b = "dhrystone"
  <2>1. /\ Len(Stages(b)) = 2
        /\ Stages(b)[1] = "dhrystone_pilot" /\ Stages(b)[2] = "dhrystone"
    BY <1>3, <1>b DEF Stages
  <2>2. \A i \in 1 .. 2 : i = 1 \/ i = 2
    OBVIOUS
  <2>3. \A i \in 1 .. 2 : Stages(b)[i] \in StageNames
    BY <2>1, <2>2 DEF StageNames
  <2>4. ASSUME NEW i \in 1 .. 1, ~Pilot(Stages(b)[i + 1])
        PROVE  Coremark(Stages(b)[i]) <=> Coremark(Stages(b)[i + 1])
    <3>1. i + 1 = 2
      OBVIOUS
    <3>2. Stages(b)[i] = "dhrystone_pilot" /\ Stages(b)[i + 1] = "dhrystone"
      BY <2>1, <2>4, <3>1 DEF Pilot
    <3>3. QED BY <3>2, <1>c, Zenon
  <2>5. Pilot(Stages(b)[1]) /\ ~Pilot(Stages(b)[2])
    BY <2>1 DEF Pilot
  <2>6. \A i \in 1 .. Len(Stages(b)) : Stages(b)[i] \in StageNames
    BY <2>1, <2>3, Zenon
  <2>7. Len(Stages(b)) - 1 = 1 /\ Len(Stages(b)) \in {5, 3, 2}
    BY <2>1
  <2>8. QED BY <2>1, <2>4, <2>5, <2>6, <2>7, Zenon DEF StagesFit
<1>4. QED BY <1>1, <1>2, <1>3

(* Where the item k of a list of n stages for each of l ISAs comes from.   *)
LEMMA Positions ==
  ASSUME NEW n \in {5, 3, 2}, NEW l \in Nat, NEW k \in 1 .. n * l
  PROVE  /\ (k - 1) \div n \in 0 .. l - 1 /\ (k - 1) % n \in 0 .. n - 1
         /\ k = 1 => (k - 1) % n = 0
         /\ k = n * l => (k - 1) % n = n - 1
         /\ \/ k % n = 0
            \/ k % n = ((k - 1) % n) + 1 /\ k \div n = (k - 1) \div n
<1>1. CASE n = 5
  BY <1>1
<1>2. CASE n = 3
  BY <1>2
<1>3. CASE n = 2
  BY <1>3
<1>4. QED BY <1>1, <1>2, <1>3

WorkFits(w) ==
  /\ w \in Seq(Work)
  /\ w # <<>> => Pilot(w[1].stage) /\ ~Pilot(w[Len(w)].stage)
  /\ \A k \in 1 .. Len(w) - 1 :
       ~Pilot(w[k + 1].stage) =>
         w[k + 1].isa = w[k].isa /\ (Coremark(w[k].stage) <=> Coremark(w[k + 1].stage))

LEMMA WorkListFits ==
  ASSUME NEW a \in Args
  PROVE  WorkFits(WorkList(a))
<1> DEFINE s == Stages(a.benchmark)
           n == Len(s)
           l == Len(a.isas)
           w == WorkList(a)
<1>1. /\ n \in {5, 3, 2} /\ \A i \in 1 .. n : s[i] \in StageNames
      /\ Pilot(s[1]) /\ ~Pilot(s[n])
      /\ \A i \in 1 .. n - 1 : ~Pilot(s[i + 1]) => (Coremark(s[i]) <=> Coremark(s[i + 1]))
  <2>1. a.benchmark \in {"all", "coremark", "dhrystone"}
    BY DEF Args
  <2>2. StagesFit(Stages(a.benchmark))
    BY <2>1, StagesFollow
  <2>3. QED BY <2>2 DEF StagesFit
<1>2. l \in Nat /\ a.isas \in Seq(STRING) /\ \A i \in 1 .. l : a.isas[i] \in Isas
  <2>1. a.isas \in IsaLists
    BY DEF Args
  <2>2. a.isas \in Seq(STRING)
    BY <2>1, BenchAssumption
  <2>3. DOMAIN a.isas = 1 .. l /\ l \in Nat
    BY <2>2
  <2>4. QED BY <2>1, <2>2, <2>3 DEF Isas
<1>3. n * l \in Nat
  <2>1. \A x \in {5, 3, 2}, y \in Nat : x * y \in Nat
    <3>1. \A y \in Nat : 5 * y \in Nat /\ 3 * y \in Nat /\ 2 * y \in Nat
      OBVIOUS
    <3>2. QED BY <3>1
  <2>2. QED BY <1>1, <1>2, <2>1, Zenon
<1>4. w = [k \in 1 .. n * l |-> [isa |-> a.isas[((k - 1) \div n) + 1], stage |-> s[((k - 1) % n) + 1]]]
  BY DEF WorkList
<1> HIDE DEF s, n, l, w
<1>5. \A k \in 1 .. n * l : w[k] \in Work
  <2> TAKE k \in 1 .. n * l
  <2>1. (k - 1) \div n \in 0 .. l - 1 /\ (k - 1) % n \in 0 .. n - 1
    BY <1>1, <1>2, Positions
  <2>2. ((k - 1) \div n) + 1 \in 1 .. l /\ ((k - 1) % n) + 1 \in 1 .. n
    BY <1>1, <1>2, <2>1
  <2>3. w[k] = [isa |-> a.isas[((k - 1) \div n) + 1], stage |-> s[((k - 1) % n) + 1]]
    BY <1>4
  <2>4. s[((k - 1) % n) + 1] \in StageNames
    BY <1>1, <2>2
  <2>5. a.isas[((k - 1) \div n) + 1] \in Isas
    BY <1>2, <2>2
  <2>6. QED BY <2>3, <2>4, <2>5 DEF Work
<1>6. w \in Seq(Work) /\ Len(w) = n * l
  BY <1>3, <1>4, <1>5
<1>7. ASSUME w # <<>> PROVE Pilot(w[1].stage) /\ ~Pilot(w[Len(w)].stage)
  <2>1. 1 \in 1 .. n * l /\ n * l \in 1 .. n * l
    BY <1>3, <1>6, <1>7
  <2>2. (1 - 1) % n = 0
    BY <1>1
  <2>3. (n * l - 1) % n = n - 1
    BY <1>1, <1>2, <2>1, Positions
  <2>4. w[1].stage = s[1]
    BY <1>4, <2>1, <2>2
  <2>5. w[n * l].stage = s[n]
    BY <1>1, <1>4, <2>1, <2>3
  <2>6. QED BY <1>1, <1>6, <2>4, <2>5
<1>8. ASSUME NEW k \in 1 .. Len(w) - 1, ~Pilot(w[k + 1].stage)
      PROVE  w[k + 1].isa = w[k].isa /\ (Coremark(w[k].stage) <=> Coremark(w[k + 1].stage))
  <2>1. k \in 1 .. n * l /\ k + 1 \in 1 .. n * l /\ (k + 1) - 1 = k
    BY <1>3, <1>6
  <2>2. w[k + 1].isa = a.isas[(k \div n) + 1] /\ w[k + 1].stage = s[(k % n) + 1]
    BY <1>4, <2>1
  <2>3. w[k].isa = a.isas[((k - 1) \div n) + 1] /\ w[k].stage = s[((k - 1) % n) + 1]
    BY <1>4, <2>1
  <2>4. k % n # 0
    BY <1>1, <1>8, <2>2
  <2>5. k % n = ((k - 1) % n) + 1 /\ k \div n = (k - 1) \div n
    BY <1>1, <1>2, <2>1, <2>4, Positions
  <2>6. (k % n) \in 1 .. n - 1
    <3>1. ((k + 1) - 1) % n \in 0 .. n - 1
      BY <1>1, <1>2, <2>1, Positions
    <3>2. QED BY <1>1, <2>1, <2>4, <3>1
  <2>7. QED BY <1>1, <1>8, <2>2, <2>3, <2>5, <2>6
<1>9. QED BY <1>6, <1>7, <1>8 DEF WorkFits, w


-----------------------------------------------------------------------------
(* What of a list of work is measured.                                     *)

UpTo(w, f) ==
  \A k \in 0 .. Len(w) :
    f[k] = IF k = 0 THEN <<>>
           ELSE IF Pilot(w[k].stage) THEN f[k - 1] ELSE Append(f[k - 1], w[k])

(* The function that Asked chooses exists.                                 *)
LEMMA UpToExists ==
  ASSUME NEW w \in Seq(Work)
  PROVE  \E f : f = [k \in 0 .. Len(w) |-> f[k]] /\ UpTo(w, f)
<1> DEFINE T(k) == IF k \in 1 .. Len(w) THEN Pilot(w[k].stage) ELSE TRUE
           Rec(f, n) == \A k \in 0 .. n : f[k] = IF k = 0 THEN <<>>
                          ELSE IF T(k) THEN f[k - 1] ELSE Append(f[k - 1], w[k])
           S == {n \in Nat : \E f : Rec(f, n)}
<1>1. 0 \in S
  <2> DEFINE f == [k \in 0 .. 0 |-> <<>>]
  <2>1. Rec(f, 0)
    OBVIOUS
  <2>2. QED BY <2>1
<1>2. ASSUME NEW n \in Nat, n \in S PROVE n + 1 \in S
  <2>1. PICK f : Rec(f, n)
    BY <1>2
  <2> DEFINE g == [k \in 0 .. n + 1 |->
                     IF k <= n THEN f[k] ELSE IF T(k) THEN f[n] ELSE Append(f[n], w[k])]
  <2>2. ASSUME NEW k \in 0 .. n + 1
        PROVE  g[k] = IF k = 0 THEN <<>>
                      ELSE IF T(k) THEN g[k - 1] ELSE Append(g[k - 1], w[k])
    <3> HIDE DEF T
    <3>1. CASE k = 0
      BY <2>1, <3>1
    <3>2. CASE k # 0 /\ k <= n
      <4>1. k \in 0 .. n /\ k - 1 \in 0 .. n /\ k \in 0 .. n + 1 /\ k - 1 \in 0 .. n + 1
        BY <3>2
      <4>2. g[k] = f[k] /\ g[k - 1] = f[k - 1]
        BY <3>2, <4>1
      <4>3. QED BY <2>1, <3>2, <4>1, <4>2
    <3>3. CASE k = n + 1
      <4>1. n \in 0 .. n + 1 /\ k - 1 = n /\ ~(k <= n) /\ k # 0
        BY <3>3
      <4>2. g[n] = f[n] /\ g[k] = IF T(k) THEN f[n] ELSE Append(f[n], w[k])
        BY <3>3, <4>1
      <4>3. QED BY <4>1, <4>2
    <3>4. QED BY <3>1, <3>2, <3>3
  <2>3. \E h : Rec(h, n + 1)
    <3>1. Rec(g, n + 1)
      BY <2>2
    <3> HIDE DEF g, Rec
    <3>2. QED BY <3>1
  <2>4. n + 1 \in Nat
    OBVIOUS
  <2> HIDE DEF Rec
  <2>5. QED BY <2>3, <2>4
<1> HIDE DEF S
<1>3. Len(w) \in Nat
  OBVIOUS
<1>4. Len(w) \in S
  BY <1>1, <1>2, <1>3, Induction
<1>5. PICK f : Rec(f, Len(w))
  BY <1>4 DEF S
<1> DEFINE g == [k \in 0 .. Len(w) |-> f[k]]
<1>6. UpTo(w, g)
  <2>1. SUFFICES ASSUME NEW k \in 0 .. Len(w)
                 PROVE  g[k] = IF k = 0 THEN <<>>
                               ELSE IF Pilot(w[k].stage) THEN g[k - 1] ELSE Append(g[k - 1], w[k])
    BY DEF UpTo
  <2>2. k # 0 => k - 1 \in 0 .. Len(w) /\ k \in 1 .. Len(w)
    BY <1>3
  <2>3. QED BY <1>5, <2>2
<1>7. QED BY <1>6

LEMMA AskedUpTo ==
  ASSUME NEW w \in Seq(Work)
  PROVE  \E f : UpTo(w, f) /\ Asked(w) = f[Len(w)]
<1> DEFINE f == CHOOSE f : f = [k \in 0 .. Len(w) |->
                  IF k = 0 THEN <<>>
                  ELSE IF Pilot(w[k].stage) THEN f[k - 1] ELSE Append(f[k - 1], w[k])]
<1>1. Asked(w) = f[Len(w)]
  BY DEF Asked
<1>2. PICK g : g = [k \in 0 .. Len(w) |-> g[k]] /\ UpTo(w, g)
  BY UpToExists
<1>3. g = [k \in 0 .. Len(w) |->
             IF k = 0 THEN <<>>
             ELSE IF Pilot(w[k].stage) THEN g[k - 1] ELSE Append(g[k - 1], w[k])]
  BY <1>2 DEF UpTo
<1>4. f = [k \in 0 .. Len(w) |->
             IF k = 0 THEN <<>>
             ELSE IF Pilot(w[k].stage) THEN f[k - 1] ELSE Append(f[k - 1], w[k])]
  BY <1>3
<1> HIDE DEF f
<1>5. UpTo(w, f)
  <2>1. ASSUME NEW k \in 0 .. Len(w)
        PROVE  f[k] = IF k = 0 THEN <<>>
                      ELSE IF Pilot(w[k].stage) THEN f[k - 1] ELSE Append(f[k - 1], w[k])
    BY <1>4
  <2>2. QED BY <2>1 DEF UpTo
<1>6. QED BY <1>1, <1>5

(* Two functions that agree on the rule agree as far as the lists do.      *)
LEMMA UpToAgree ==
  ASSUME NEW w \in Seq(Work), NEW v \in Seq(Work), NEW f, NEW g, UpTo(w, f), UpTo(v, g),
         Len(v) <= Len(w), \A k \in 1 .. Len(v) : v[k] = w[k]
  PROVE  \A k \in 0 .. Len(v) : f[k] = g[k]
<1> DEFINE S == {n \in Nat : n <= Len(v) => f[n] = g[n]}
<1>0. Len(v) \in Nat /\ Len(w) \in Nat
  OBVIOUS
<1>1. 0 \in S
  <2>1. 0 \in 0 .. Len(v) /\ 0 \in 0 .. Len(w)
    BY <1>0
  <2>2. f[0] = <<>> /\ g[0] = <<>>
    BY <2>1 DEF UpTo
  <2>3. QED BY <2>2
<1>2. ASSUME NEW n \in Nat, n \in S PROVE n + 1 \in S
  <2>1. SUFFICES ASSUME n + 1 <= Len(v) PROVE f[n + 1] = g[n + 1]
    OBVIOUS
  <2>2. f[n] = g[n] /\ v[n + 1] = w[n + 1]
    BY <1>0, <1>2, <2>1
  <2>3. n + 1 \in 0 .. Len(v) /\ n + 1 \in 0 .. Len(w) /\ n + 1 # 0 /\ (n + 1) - 1 = n
    BY <1>0, <2>1
  <2>4. f[n + 1] = IF Pilot(w[n + 1].stage) THEN f[n] ELSE Append(f[n], w[n + 1])
    BY <2>3 DEF UpTo
  <2>5. g[n + 1] = IF Pilot(v[n + 1].stage) THEN g[n] ELSE Append(g[n], v[n + 1])
    BY <2>3 DEF UpTo
  <2>6. QED BY <2>2, <2>4, <2>5
<1> HIDE DEF S
<1>3. \A n \in Nat : n \in S
  BY <1>1, <1>2, Induction
<1>4. QED BY <1>0, <1>3 DEF S

LEMMA AskedEmpty ==
  ASSUME NEW w \in Seq(Work)
  PROVE  Asked(SubSeq(w, 1, 0)) = <<>>
<1>1. SubSeq(w, 1, 0) \in Seq(Work) /\ Len(SubSeq(w, 1, 0)) = 0
  BY SubSeqProperties
<1>2. PICK f : UpTo(SubSeq(w, 1, 0), f) /\ Asked(SubSeq(w, 1, 0)) = f[0]
  BY <1>1, AskedUpTo
<1>3. QED BY <1>1, <1>2 DEF UpTo

(* One more item, measured or not.                                         *)
LEMMA AskedNext ==
  ASSUME NEW w \in Seq(Work), NEW k \in Nat, k < Len(w)
  PROVE  Asked(SubSeq(w, 1, k + 1)) =
           IF Pilot(w[k + 1].stage) THEN Asked(SubSeq(w, 1, k))
           ELSE Append(Asked(SubSeq(w, 1, k)), w[k + 1])
<1> DEFINE u == SubSeq(w, 1, k + 1)
           v == SubSeq(w, 1, k)
<1>0. Len(w) \in Nat
  OBVIOUS
<1>1. u \in Seq(Work) /\ Len(u) = k + 1 /\ \A i \in 1 .. k + 1 : u[i] = w[i]
  BY <1>0, SubSeqProperties
<1>2. v \in Seq(Work) /\ Len(v) = k /\ \A i \in 1 .. k : v[i] = w[i]
  BY <1>0, SubSeqProperties
<1> HIDE DEF u, v
<1>3. PICK f : UpTo(u, f) /\ Asked(u) = f[k + 1]
  BY <1>1, AskedUpTo
<1>4. PICK g : UpTo(v, g) /\ Asked(v) = g[k]
  BY <1>2, AskedUpTo
<1>5. f[k] = g[k]
  <2>1. Len(v) <= Len(u) /\ \A i \in 1 .. Len(v) : v[i] = u[i]
    BY <1>1, <1>2
  <2>2. u \in Seq(Work) /\ v \in Seq(Work) /\ UpTo(u, f) /\ UpTo(v, g)
    BY <1>1, <1>2, <1>3, <1>4
  <2>3. \A i \in 0 .. Len(v) : f[i] = g[i]
    BY ONLY <2>1, <2>2, UpToAgree
  <2>4. k \in 0 .. Len(v)
    BY <1>2
  <2>5. QED BY ONLY <2>3, <2>4
<1>6. f[k + 1] = IF Pilot(u[k + 1].stage) THEN f[k] ELSE Append(f[k], u[k + 1])
  <2>1. k + 1 \in 0 .. Len(u) /\ k + 1 # 0 /\ (k + 1) - 1 = k
    BY <1>1
  <2>2. QED BY <1>3, <2>1 DEF UpTo
<1>7. u[k + 1] = w[k + 1]
  BY <1>1
<1>8. QED BY <1>3, <1>4, <1>5, <1>6, <1>7 DEF u, v

-----------------------------------------------------------------------------
(* The inductive invariant.                                                *)

ImageSet ==
  [isa : Isas \cup {"none"}, program : Programs \cup {"none"}, iterations : Nat, tps : Nat,
   by : Nat]
RowSet ==
  [isa : Isas, stage : StageNames, iterations : Nat, cycles : Nat, validated : BOOLEAN,
   image : ImageSet]

Steps == {"build", "stage", "simulate", "check"}

Shape ==
  /\ cost \in CostChoices /\ runs \in 0 .. MaxRuns /\ args \in Args
  /\ pc \in Steps \cup {"idle", "write"}
  /\ exit \in Ended \cup {"running"} /\ (pc = "idle" <=> exit # "running")
  /\ iterations \in Nat \ {0} /\ (args.mode = "smoke" => iterations <= 10)
  /\ todo \in Seq(Work) /\ results \in Seq(RowSet)
  /\ (pc \in Steps \/ exit = "short") => todo # <<>>
  /\ pc = "write" => todo = <<>>

(* What the rows are of.                                                   *)
Rows(rs) == [i \in DOMAIN rs |-> [isa |-> rs[i].isa, stage |-> rs[i].stage]]

(* Where this invocation is: the rows are of what it has done, and todo is *)
(* the rest.                                                               *)
Done(k) ==
  /\ todo = SubSeq(WorkList(args), k + 1, Len(WorkList(args)))
  /\ Rows(results) = Asked(SubSeq(WorkList(args), 1, k))

OnTrack == pc # "idle" => \E k \in 0 .. Len(WorkList(args)) : Done(k)

(* What was built, staged and run is of this stage and this invocation.    *)
Loaded ==
  /\ pc = "stage" => hex[Path] = Image
  /\ pc = "simulate" => rom = Image
  /\ pc = "check" =>
       /\ log.image = Image /\ log.cycles = Cycles(Image) /\ log.cycles <= Timeout
       /\ log.validated \in BOOLEAN
       /\ Coremark(Stage) /\ log.validated => Secs(Image) >= 10

(* The calibrated number of iterations is 2 % more than enough by the      *)
(* cycles the pilot took for one.                                          *)
MinOf(w, mode) == IF Coremark(w.stage) THEN CoreMin[mode] ELSE DhryMin[mode]
PilotCycles(w, costs, mode) ==
  IF Coremark(w.stage) THEN Overhead + costs[w.isa]["performance"]
  ELSE costs[w.isa]["dhrystone"] + Overhead \div PilotIter[mode]

Calibrated ==
  pc \in Steps /\ args.mode = "publish" /\ ~Pilot(Head(todo).stage) =>
    102 * MinOf(Head(todo), args.mode) <=
      100 * (iterations * PilotCycles(Head(todo), cost, args.mode))

IInv ==
  /\ Shape /\ OnTrack /\ Loaded /\ Calibrated
  /\ RowsMeasured /\ SummaryComplete /\ CalibrationSuffices


-----------------------------------------------------------------------------
(* What the conjuncts rest on.                                             *)

LEMMA StartsTyped == Init => Shape /\ Loaded /\ Calibrated
BY BenchAssumption DEF Init, Shape, Loaded, Calibrated, Steps, Ended, Modes, Args

LEMMA WorkOf ==
  ASSUME Shape
  PROVE  WorkList(args) \in Seq(Work) /\ WorkFits(WorkList(args))
BY WorkListFits DEF Shape, WorkFits

LEMMA CostTyped ==
  ASSUME Shape, NEW i \in Isas, NEW p \in Programs
  PROVE  cost[i][p] \in Nat \ {0}
BY BenchAssumption DEF Shape

(* In a stage, what is left starts with it.                                *)
LEMMA InStage ==
  ASSUME Shape, todo # <<>>
  PROVE  /\ Head(todo) \in Work /\ Tail(todo) \in Seq(Work)
         /\ ThisIsa \in Isas /\ Stage \in StageNames /\ Program(Stage) \in Programs
         /\ args.mode \in Modes /\ StageIterations \in Nat \ {0} /\ Image \in ImageSet
<1>1. todo \in Seq(Work) /\ args \in Args
  BY DEF Shape
<1>2. Head(todo) \in Work /\ Tail(todo) \in Seq(Work)
  BY <1>1
<1>3. ThisIsa \in Isas /\ Stage \in StageNames
  BY <1>2 DEF ThisIsa, Stage, Work
<1>4. Program(Stage) \in Programs
  BY <1>3 DEF Program, Programs, StageNames
<1>5. args.mode \in Modes
  BY <1>1 DEF Args
<1>6. StageIterations \in Nat \ {0}
  BY <1>5, BenchAssumption DEF StageIterations, Shape
<1>7. runs \in Nat
  BY BenchAssumption DEF Shape
<1>8. TicksPerSec[args.mode] \in Nat
  BY <1>5, BenchAssumption
<1>9. Image \in ImageSet
  BY <1>3, <1>4, <1>6, <1>7, <1>8 DEF Image, ImageSet
<1>10. QED BY <1>2, <1>3, <1>4, <1>5, <1>6, <1>9

LEMMA CyclesTyped ==
  ASSUME Shape, todo # <<>>
  PROVE  /\ cost[ThisIsa][Program(Stage)] \in Nat \ {0}
         /\ Cycles(Image) = Overhead + StageIterations * cost[ThisIsa][Program(Stage)]
         /\ Cycles(Image) \in Nat \ {0}
<1>1. cost[ThisIsa][Program(Stage)] \in Nat \ {0} /\ StageIterations \in Nat \ {0}
  BY InStage, CostTyped
<1>2. StageIterations * cost[ThisIsa][Program(Stage)] \in Nat \ {0}
  BY <1>1
<1>3. Cycles(Image) = Overhead + StageIterations * cost[ThisIsa][Program(Stage)]
  BY DEF Cycles, Image
<1>4. Overhead \in Nat
  BY BenchAssumption
<1>5. QED BY ONLY <1>1, <1>2, <1>3, <1>4

(* The next stage, when it is a measured one, is of the same program.      *)
LEMMA NextStage ==
  ASSUME Shape, NEW k \in 0 .. Len(WorkList(args)), Done(k), todo # <<>>
  PROVE  /\ k < Len(WorkList(args)) /\ Head(todo) = WorkList(args)[k + 1]
         /\ Tail(todo) = SubSeq(WorkList(args), k + 2, Len(WorkList(args)))
         /\ Tail(todo) = <<>> => ~Pilot(Stage)
         /\ Tail(todo) # <<>> /\ ~Pilot(Head(Tail(todo)).stage) =>
              /\ Head(Tail(todo)).isa = ThisIsa
              /\ Coremark(Head(Tail(todo)).stage) <=> Coremark(Stage)
<1> DEFINE w == WorkList(args)
           n == Len(w)
<1>1. w \in Seq(Work) /\ WorkFits(w) /\ n \in Nat
  BY WorkOf
<1>2. todo = SubSeq(w, k + 1, n)
  BY DEF Done
<1> HIDE DEF w, n
<1>3. k < n
  <2>1. CASE k = n
    <3>1. SubSeq(w, n + 1, n) = <<>>
      BY <1>1, SubSeqEmpty
    <3>2. QED BY <1>2, <2>1, <3>1
  <2>2. QED BY <1>1, <2>1 DEF n, w
<1>4. Head(todo) = w[k + 1] /\ Tail(todo) = SubSeq(w, k + 2, n)
  <2>1. k + 1 \in 1 .. n /\ n \in 1 .. n /\ k + 1 \in 1 .. n + 1 /\ (k + 1) + 1 = k + 2
    BY <1>1, <1>3
  <2>2. QED BY <1>1, <1>2, <2>1, HeadTailOfSubSeq DEF n
<1>5. ASSUME Tail(todo) = <<>> PROVE ~Pilot(Stage)
  <2>1. k + 1 = n
    <3>1. CASE k + 2 <= n
      <4>1. Len(SubSeq(w, k + 2, n)) = n - (k + 2) + 1
        BY <1>1, <3>1, SubSeqProperties DEF n
      <4>2. Len(SubSeq(w, k + 2, n)) = 0
        <5>1. SubSeq(w, k + 2, n) = <<>>
          BY <1>4, <1>5, Zenon
        <5>2. Len(<<>>) = 0
          OBVIOUS
        <5>3. QED BY <5>1, <5>2, Zenon
      <4>3. QED BY <1>1, <3>1, <4>1, <4>2
    <3>2. QED BY <1>1, <1>3, <3>1
  <2>2. w # <<>>
    BY <1>1, <1>3 DEF n
  <2>3. QED BY <1>1, <1>4, <2>1, <2>2 DEF WorkFits, Stage, n
<1>6. ASSUME Tail(todo) # <<>>, ~Pilot(Head(Tail(todo)).stage)
      PROVE  /\ Head(Tail(todo)).isa = ThisIsa
             /\ Coremark(Head(Tail(todo)).stage) <=> Coremark(Stage)
  <2>1. k + 2 <= n
    <3>1. CASE k + 1 = n
      <4>1. SubSeq(w, n + 1, n) = <<>> /\ k + 2 = n + 1
        BY <1>1, <3>1, SubSeqEmpty
      <4>2. QED BY <1>4, <1>6, <4>1
    <3>2. QED BY <1>1, <1>3, <3>1
  <2>2. Head(Tail(todo)) = w[k + 2]
    <3>1. k + 2 \in 1 .. n
      BY <1>1, <2>1
    <3>2. QED BY <1>1, <1>4, <2>1, <3>1, HeadTailOfSubSeq DEF n
  <2>3. k + 1 \in 1 .. n - 1 /\ (k + 1) + 1 = k + 2
    BY <1>1, <2>1
  <2>4. /\ w[k + 2].isa = w[k + 1].isa
        /\ Coremark(w[k + 1].stage) <=> Coremark(w[k + 2].stage)
    <3>1. \A i \in 1 .. n - 1 :
            ~Pilot(w[i + 1].stage) =>
              w[i + 1].isa = w[i].isa /\ (Coremark(w[i].stage) <=> Coremark(w[i + 1].stage))
      BY <1>1 DEF WorkFits, n
    <3>2. ~Pilot(w[(k + 1) + 1].stage)
      BY <1>6, <2>2, <2>3
    <3>3. QED BY ONLY <2>3, <3>1, <3>2
  <2>5. QED BY <1>4, <2>2, <2>4 DEF ThisIsa, Stage
<1>7. QED BY <1>3, <1>4, <1>5, <1>6 DEF w, n

-----------------------------------------------------------------------------
(* The calibration.                                                        *)

(* A pilot's cycles are what its stage's measured runs are calibrated by.  *)
LEMMA PilotMeasures ==
  ASSUME Shape, todo # <<>>, Pilot(Stage), log.cycles = Cycles(Image)
  PROVE  PerIteration = PilotCycles(Head(todo), cost, args.mode) /\ PerIteration \in Nat \ {0}
<1> DEFINE c == cost[ThisIsa][Program(Stage)]
           n == PilotIter[args.mode]
<1>1. c \in Nat \ {0} /\ Cycles(Image) = Overhead + StageIterations * c
  BY CyclesTyped
<1>2. Overhead \in Nat /\ n \in Nat \ {0}
  BY InStage, BenchAssumption
<1>3. CASE Stage = "coremark_pilot"
  <2>1. Coremark(Stage)
    BY <1>3, CoremarkNames
  <2>2. StageIterations = 1 /\ Program(Stage) = "performance"
    BY <1>3 DEF StageIterations, Program
  <2>3. PerIteration = Overhead + 1 * c
    BY <1>1, <2>1, <2>2 DEF PerIteration
  <2>4. PilotCycles(Head(todo), cost, args.mode) = Overhead + c
    BY <2>1, <2>2 DEF PilotCycles, Stage, ThisIsa
  <2> HIDE DEF c
  <2>5. QED BY <1>1, <1>2, <2>3, <2>4
<1>4. CASE Stage = "dhrystone_pilot"
  <2>1. ~Coremark(Stage)
    BY <1>4, CoremarkNames
  <2>2. StageIterations = n /\ Program(Stage) = "dhrystone"
    BY <1>4 DEF StageIterations, Program
  <2>3. PerIteration = (Overhead + n * c) \div n
    BY <1>1, <2>1, <2>2 DEF PerIteration
  <2>4. PilotCycles(Head(todo), cost, args.mode) = c + Overhead \div n
    BY <2>1, <2>2 DEF PilotCycles, Stage, ThisIsa
  <2> HIDE DEF c, n
  <2>5. (Overhead + n * c) \div n = c + Overhead \div n
    BY <1>1, <1>2, SpreadOver
  <2>6. Overhead \div n \in Nat
    BY <1>2, DivMod
  <2>7. QED BY <1>1, <2>3, <2>4, <2>5, <2>6
<1>5. QED BY <1>3, <1>4 DEF Pilot

LEMMA NeededCovers ==
  ASSUME NEW m \in Nat, NEW p \in Nat \ {0}
  PROVE  LET n == Larger(1, CeilDiv(CeilDiv(102 * m, 100), Larger(1, p)))
         IN n \in Nat \ {0} /\ 102 * m <= 100 * (n * p)
<1> DEFINE x == CeilDiv(102 * m, 100)
           y == CeilDiv(x, p)
           n == Larger(1, y)
<1>1. Larger(1, p) = p
  BY DEF Larger
<1>2. x \in Nat /\ 102 * m <= 100 * x
  BY CeilDivCovers
<1> HIDE DEF x
<1>3. y \in Nat /\ x <= p * y
  BY <1>2, CeilDivCovers
<1> HIDE DEF y
<1>4. n \in Nat \ {0} /\ y <= n
  BY <1>3 DEF Larger
<1>5. PICK d \in Nat : n = y + d
  <2>1. n - y \in Nat /\ n = y + (n - y)
    BY <1>3, <1>4
  <2>2. QED BY <2>1
<1> HIDE DEF n
<1>6. n * p = p * y + p * d /\ p * d \in Nat /\ p * y \in Nat
  BY <1>3, <1>5
<1>7. x <= n * p /\ n * p \in Nat
  BY <1>2, <1>3, <1>6
<1>8. 102 * m <= 100 * (n * p)
  BY <1>2, <1>7
<1>9. QED BY <1>1, <1>4, <1>8 DEF n, y, x

(* A run of enough iterations that each take at least all but 2 % of the   *)
(* pilot's is long enough.                                                 *)
LEMMA EnoughCycles ==
  ASSUME NEW m \in Nat, NEW p \in Nat, NEW c \in Nat, NEW n \in Nat, NEW o \in Nat,
         102 * m <= 100 * (n * p), 100 * p <= 102 * c
  PROVE  m <= o + n * c
<1>1. PICK d \in Nat : 102 * c = 100 * p + d
  <2>1. 102 * c - 100 * p \in Nat /\ 102 * c = 100 * p + (102 * c - 100 * p)
    OBVIOUS
  <2>2. QED BY <2>1
<1>2. n * (102 * c) = n * (100 * p) + n * d /\ n * d \in Nat
  BY <1>1
<1>3. n * (102 * c) = 102 * (n * c) /\ n * (100 * p) = 100 * (n * p)
  OBVIOUS
<1>4. n * c \in Nat /\ n * p \in Nat
  OBVIOUS
<1>5. 102 * m <= 102 * (n * c)
  BY <1>2, <1>3, <1>4
<1>6. QED BY <1>4, <1>5

LEMMA CappedTyped ==
  ASSUME NEW n \in Nat \ {0}
  PROVE  /\ Capped(n) \in Nat \ {0}
         /\ args.mode = "publish" => Capped(n) = n
         /\ args.mode # "publish" => Capped(n) <= 10
BY DEF Capped, Larger, Smaller

-----------------------------------------------------------------------------
(* A stage on its way, a stage that fails.                                 *)

LEMMA SameStage ==
  ASSUME UNCHANGED <<runs, args, todo, iterations>>
  PROVE  /\ Stage' = Stage /\ ThisIsa' = ThisIsa /\ Path' = Path /\ Image' = Image
         /\ Head(todo') = Head(todo) /\ StageIterations' = StageIterations
BY DEF Stage, ThisIsa, Path, Image, StageIterations

LEMMA RowsKept ==
  ASSUME RowsMeasured, UNCHANGED <<cost, runs, args, results>>
  PROVE  RowsMeasured'
BY DEF RowsMeasured, Cycles, Secs

LEMMA StageGoesOn ==
  ASSUME IInv, pc \in Steps, pc' \in Steps, Loaded',
         UNCHANGED <<cost, runs, args, todo, iterations, results, summary, exit>>
  PROVE  IInv'
<1>1. Shape'
  BY DEF IInv, Shape, Steps
<1>2. OnTrack'
  <2>1. PICK k \in 0 .. Len(WorkList(args)) : Done(k)
    BY DEF IInv, OnTrack, Steps
  <2>2. Done(k)'
    BY <2>1 DEF Done, Rows
  <2>3. QED BY <2>2 DEF OnTrack
<1>3. Calibrated'
  BY DEF IInv, Calibrated, MinOf, PilotCycles
<1>4. RowsMeasured'
  BY RowsKept DEF IInv
<1>5. SummaryComplete'
  BY DEF IInv, SummaryComplete
<1>6. CalibrationSuffices'
  BY SameStage DEF IInv, CalibrationSuffices, Shape, Steps
<1>7. QED BY <1>1, <1>2, <1>3, <1>4, <1>5, <1>6 DEF IInv

LEMMA StageFails ==
  ASSUME IInv, pc \in Steps, NEW why \in Ended, Fails(why),
         UNCHANGED <<cost, runs, args, todo, iterations>>,
         why = "short" => CalibrationSuffices'
  PROVE  IInv'
<1>1. Shape'
  BY DEF IInv, Shape, Fails, Steps, Ended
<1>2. OnTrack' /\ Loaded' /\ Calibrated'
  BY DEF Fails, OnTrack, Loaded, Calibrated, Steps
<1>3. RowsMeasured'
  BY RowsKept DEF IInv, Fails
<1>4. SummaryComplete'
  BY DEF IInv, SummaryComplete, Fails
<1>5. CalibrationSuffices'
  BY DEF CalibrationSuffices, Fails
<1>6. QED BY <1>1, <1>2, <1>3, <1>4, <1>5 DEF IInv

-----------------------------------------------------------------------------
(* A row, and a stage done.                                                *)

(* Ten seconds of CoreMark, by its own clock, are the cycles the rules ask.*)
LEMMA TenSeconds ==
  ASSUME Shape, todo # <<>>, Coremark(Stage), Secs(Image) >= 10
  PROVE  Cycles(Image) >= CoreMin[args.mode]
<1> DEFINE t == TicksPerSec[args.mode]
<1>1. t \in Nat \ {0} /\ CoreMin[args.mode] \in Nat /\ CoreMin[args.mode] <= 10 * t
  BY InStage, BenchAssumption
<1>2. Secs(Image) = Cycles(Image) \div t
  BY DEF Secs, Image
<1>3. Cycles(Image) \in Nat
  BY CyclesTyped
<1>4. Cycles(Image) >= 10 * t
  BY <1>1, <1>2, <1>3, TenTimes
<1>5. QED BY <1>1, <1>3, <1>4

LEMMA RowFits ==
  ASSUME IInv, pc = "check", ~Pilot(Stage), ~TooShort, log.validated
  PROVE  /\ Row \in RowSet /\ Row.isa = ThisIsa /\ Row.stage = Stage
         /\ Row.image.by = runs /\ Row.image.isa = Row.isa
         /\ Row.image.program = Program(Row.stage)
         /\ Row.validated /\ Row.cycles = Cycles(Row.image) /\ Row.cycles <= Timeout
         /\ Coremark(Row.stage) =>
              /\ Row.image.tps = TicksPerSec[args.mode] /\ Secs(Row.image) >= 10
              /\ Row.cycles >= CoreMin[args.mode]
         /\ args.mode = "publish" /\ ~Coremark(Row.stage) => Row.cycles >= DhryMin[args.mode]
<1>1. Shape /\ todo # <<>>
  BY DEF IInv, Shape, Steps
<1>2. /\ log.image = Image /\ log.cycles = Cycles(Image) /\ log.cycles <= Timeout
      /\ log.validated \in BOOLEAN
      /\ Coremark(Stage) => Secs(Image) >= 10
  BY DEF IInv, Loaded
<1>3. Image \in ImageSet /\ ThisIsa \in Isas /\ Stage \in StageNames
      /\ StageIterations \in Nat /\ args.mode \in Modes
  BY <1>1, InStage
<1>4. Cycles(Image) \in Nat
  BY <1>1, CyclesTyped
<1>5. /\ Image.iterations = StageIterations /\ Image.by = runs /\ Image.isa = ThisIsa
      /\ Image.program = Program(Stage)
      /\ Coremark(Stage) => Image.tps = TicksPerSec[args.mode]
  BY DEF Image
<1>6. /\ Row.isa = ThisIsa /\ Row.stage = Stage /\ Row.image = Image
      /\ Row.cycles = Cycles(Image) /\ Row.validated = log.validated
      /\ Row \in RowSet
  <2>1. Row = [isa |-> ThisIsa, stage |-> Stage, iterations |-> StageIterations,
               cycles |-> Cycles(Image), validated |-> log.validated, image |-> Image]
    BY <1>2, <1>5 DEF Row
  <2> HIDE DEF Row
  <2>2. Row \in RowSet
    BY <1>2, <1>3, <1>4, <2>1 DEF RowSet
  <2>3. QED BY <2>1, <2>2
<1>7. Coremark(Stage) => Cycles(Image) >= CoreMin[args.mode]
  BY <1>1, <1>2, TenSeconds
<1>8. args.mode = "publish" /\ ~Coremark(Stage) => Cycles(Image) >= DhryMin[args.mode]
  <2>1. DhryMin[args.mode] \in Nat
    BY <1>3, BenchAssumption
  <2>2. ASSUME args.mode = "publish", ~Coremark(Stage) PROVE Cycles(Image) >= DhryMin[args.mode]
    <3>1. MinCycles = DhryMin[args.mode]
      BY <2>2 DEF MinCycles
    <3>2. ~(Cycles(Image) < MinCycles)
      BY <1>2, <2>2 DEF TooShort
    <3>3. QED BY <1>4, <2>1, <3>1, <3>2
  <2>3. QED BY <2>2
<1>9. QED BY <1>2, <1>5, <1>6, <1>7, <1>8

LEMMA RowsAppend ==
  ASSUME NEW rs \in Seq(RowSet), NEW r \in RowSet
  PROVE  Rows(Append(rs, r)) = Append(Rows(rs), [isa |-> r.isa, stage |-> r.stage])
<1>1. Append(rs, r) \in Seq(RowSet) /\ Len(Append(rs, r)) = Len(rs) + 1 /\ Len(rs) \in Nat
  OBVIOUS
<1>2. /\ DOMAIN rs = 1 .. Len(rs) /\ DOMAIN Append(rs, r) = 1 .. Len(rs) + 1
      /\ \A i \in 1 .. Len(rs) : Append(rs, r)[i] = rs[i]
      /\ Append(rs, r)[Len(rs) + 1] = r
  BY <1>1
<1>3. Rows(rs) = [i \in 1 .. Len(rs) |-> [isa |-> rs[i].isa, stage |-> rs[i].stage]]
  BY <1>2 DEF Rows
<1>4. Rows(rs) \in Seq(Work) /\ Len(Rows(rs)) = Len(rs)
  <2>1. \A i \in 1 .. Len(rs) : [isa |-> rs[i].isa, stage |-> rs[i].stage] \in Work
    <3>1. \A i \in 1 .. Len(rs) : rs[i] \in RowSet
      BY <1>1
    <3>2. QED BY <3>1 DEF RowSet, Work
  <2> HIDE DEF Work
  <2>2. Rows(rs) \in [1 .. Len(rs) -> Work]
    BY <1>3, <2>1
  <2>3. QED BY <1>1, <2>2
<1>5. /\ Rows(Append(rs, r)) = [i \in 1 .. Len(rs) + 1 |->
           [isa |-> Append(rs, r)[i].isa, stage |-> Append(rs, r)[i].stage]]
  BY <1>2 DEF Rows
<1>6. Append(Rows(rs), [isa |-> r.isa, stage |-> r.stage]) =
        [i \in 1 .. Len(rs) + 1 |-> IF i <= Len(rs) THEN Rows(rs)[i]
                                    ELSE [isa |-> r.isa, stage |-> r.stage]]
  BY <1>4
<1>7. ASSUME NEW i \in 1 .. Len(rs) + 1
      PROVE  [isa |-> Append(rs, r)[i].isa, stage |-> Append(rs, r)[i].stage] =
             IF i <= Len(rs) THEN Rows(rs)[i] ELSE [isa |-> r.isa, stage |-> r.stage]
  <2>1. CASE i <= Len(rs)
    <3>1. i \in 1 .. Len(rs)
      BY <1>1, <2>1
    <3>2. QED BY <1>2, <1>3, <2>1, <3>1
  <2>2. CASE i = Len(rs) + 1
    BY <1>1, <1>2, <2>2
  <2>3. QED BY <1>1, <2>1, <2>2
<1>8. QED BY <1>5, <1>6, <1>7

(* A stage done, its row recorded unless it is a pilot.                    *)
LEMMA StageDone ==
  ASSUME IInv, pc = "check", todo' = Tail(todo), UNCHANGED args,
         Pilot(Stage) => results' = results,
         ~Pilot(Stage) => Row \in RowSet /\ results' = Append(results, Row)
  PROVE  \E k \in 0 .. Len(WorkList(args')) : Done(k)'
<1>1. Shape /\ todo # <<>> /\ results \in Seq(RowSet)
  BY DEF IInv, Shape, Steps
<1>2. PICK k \in 0 .. Len(WorkList(args)) : Done(k)
  BY DEF IInv, OnTrack
<1> DEFINE w == WorkList(args)
<1>3. w \in Seq(Work) /\ Len(w) \in Nat
  BY <1>1, WorkOf
<1>4. k < Len(w) /\ Head(todo) = w[k + 1] /\ Tail(todo) = SubSeq(w, k + 2, Len(w))
  BY <1>1, <1>2, NextStage
<1>5. Rows(results) = Asked(SubSeq(w, 1, k))
  BY <1>2 DEF Done
<1> HIDE DEF w
<1>6. Asked(SubSeq(w, 1, k + 1)) = IF Pilot(w[k + 1].stage) THEN Asked(SubSeq(w, 1, k))
                                   ELSE Append(Asked(SubSeq(w, 1, k)), w[k + 1])
  BY <1>3, <1>4, AskedNext
<1>7. Stage = w[k + 1].stage
  BY <1>4 DEF Stage
<1>8. Rows(results') = Asked(SubSeq(w, 1, k + 1))
  <2>1. CASE Pilot(Stage)
    BY <1>5, <1>6, <1>7, <2>1
  <2>2. CASE ~Pilot(Stage)
    <3>1. Rows(results') = Append(Rows(results), [isa |-> Row.isa, stage |-> Row.stage])
      BY <1>1, <2>2, RowsAppend
    <3>2. Row.isa = ThisIsa /\ Row.stage = Stage
      BY DEF Row
    <3>3. [isa |-> Row.isa, stage |-> Row.stage] = w[k + 1]
      <4>1. w[k + 1] \in Work
        BY <1>3, <1>4
      <4>2. QED BY <1>4, <3>2, <4>1 DEF Work, ThisIsa, Stage
    <3>4. QED BY <1>5, <1>6, <1>7, <2>2, <3>1, <3>3
  <2>3. QED BY <2>1, <2>2
<1>9. k + 1 \in 0 .. Len(w) /\ (k + 1) + 1 = k + 2
  BY <1>3, <1>4
<1>10. WorkList(args') = w
  BY DEF w
<1>11. todo' = SubSeq(WorkList(args'), (k + 1) + 1, Len(WorkList(args')))
  BY <1>4, <1>9, <1>10
<1>12. Rows(results') = Asked(SubSeq(WorkList(args'), 1, k + 1))
  BY <1>8, <1>10
<1>13. Done(k + 1)'
  BY <1>11, <1>12 DEF Done
<1>14. QED BY <1>9, <1>10, <1>13

-----------------------------------------------------------------------------
(* The steps.                                                              *)

LEMMA RowsWithOne ==
  ASSUME RowsMeasured, results \in Seq(RowSet), UNCHANGED <<cost, runs, args>>,
         results' = Append(results, Row),
         Row.image.by = runs /\ Row.image.isa = Row.isa
           /\ Row.image.program = Program(Row.stage),
         Row.validated /\ Row.cycles = Cycles(Row.image) /\ Row.cycles <= Timeout,
         Coremark(Row.stage) =>
           /\ Row.image.tps = TicksPerSec[args.mode] /\ Secs(Row.image) >= 10
           /\ Row.cycles >= CoreMin[args.mode],
         args.mode = "publish" /\ ~Coremark(Row.stage) => Row.cycles >= DhryMin[args.mode],
         Row \in RowSet
  PROVE  RowsMeasured'
<1>1. /\ DOMAIN results' = 1 .. Len(results) + 1 /\ DOMAIN results = 1 .. Len(results)
      /\ Len(results) \in Nat
      /\ \A i \in 1 .. Len(results) : results'[i] = results[i]
      /\ results'[Len(results) + 1] = Row
  OBVIOUS
<1>2. \A im : Cycles(im)' = Cycles(im) /\ Secs(im)' = Secs(im)
  BY DEF Cycles, Secs
<1> DEFINE Good(r) ==
      /\ r.image.by = runs /\ r.image.isa = r.isa /\ r.image.program = Program(r.stage)
      /\ r.validated /\ r.cycles = Cycles(r.image) /\ r.cycles <= Timeout
      /\ Coremark(r.stage) =>
           /\ r.image.tps = TicksPerSec[args.mode] /\ Secs(r.image) >= 10
           /\ r.cycles >= CoreMin[args.mode]
      /\ args.mode = "publish" /\ ~Coremark(r.stage) => r.cycles >= DhryMin[args.mode]
<1>3. \A i \in 1 .. Len(results) : Good(results[i])
  BY <1>1 DEF RowsMeasured
<1>4. Good(Row)
  OBVIOUS
<1> HIDE DEF Good
<1>5. \A i \in DOMAIN results' : Good(results'[i])
  <2> TAKE i \in DOMAIN results'
  <2>1. i \in 1 .. Len(results) \/ i = Len(results) + 1
    BY <1>1
  <2>2. QED BY <1>1, <1>3, <1>4, <2>1
<1>6. QED BY <1>2, <1>5 DEF Good, RowsMeasured

LEMMA BuildStep == ASSUME IInv, Build PROVE IInv'
<1>1. pc \in Steps /\ UNCHANGED <<cost, runs, args, todo, iterations>>
  BY DEF Build, Steps
<1>2. CASE hex' = Built /\ pc' = "stage" /\ UNCHANGED <<results, summary, exit>>
  <2>1. hex'[Path] = Image
    BY <1>2 DEF Built, Put
  <2>2. Loaded'
    BY <1>1, <1>2, <2>1, SameStage DEF Loaded
  <2>3. QED BY <1>1, <1>2, <2>2, StageGoesOn DEF Steps
<1>3. CASE Fails("build")
  BY <1>1, <1>3, StageFails DEF Ended
<1>4. QED BY <1>2, <1>3 DEF Build

LEMMA StageHexStep == ASSUME IInv, StageHex PROVE IInv'
<1>1. /\ pc \in Steps /\ pc' = "simulate" /\ rom' = Image
      /\ UNCHANGED <<cost, runs, args, todo, iterations, results, summary, exit>>
  BY DEF StageHex, Steps, IInv, Loaded
<1>2. Loaded'
  BY <1>1, SameStage DEF Loaded
<1>3. QED BY <1>1, <1>2, StageGoesOn DEF Steps

LEMMA SimulateStep == ASSUME IInv, Simulate PROVE IInv'
<1>1. pc \in Steps /\ UNCHANGED <<cost, runs, args, todo, iterations>>
  BY DEF Simulate, Steps
<1>2. rom = Image /\ Shape /\ todo # <<>>
  BY <1>1 DEF Simulate, IInv, Loaded, Shape
<1>3. ASSUME ~TimesOut, pc' = "check", log' \in Logs, UNCHANGED <<results, summary, exit>>
      PROVE  IInv'
  <2>1. PICK c \in BOOLEAN, right \in BOOLEAN :
          log' = [image |-> rom, cycles |-> Cycles(rom), complete |-> c,
                  validated |-> right /\ (rom.program # "dhrystone" => Secs(rom) >= 10)]
    BY <1>3 DEF Logs
  <2>2. /\ log'.image = Image /\ log'.cycles = Cycles(Image) /\ log'.validated \in BOOLEAN
        /\ log'.validated => (Image.program # "dhrystone" => Secs(Image) >= 10)
    BY <1>2, <2>1
  <2>3. Cycles(Image) <= Timeout
    <3>1. Cycles(Image) \in Nat /\ ~(Cycles(Image) > Timeout)
      BY <1>2, <1>3, CyclesTyped DEF TimesOut
    <3>2. QED BY <3>1, BenchAssumption
  <2>4. Coremark(Stage) => Image.program # "dhrystone"
    BY CoremarkNames DEF Image, Program
  <2>5. Cycles(Image)' = Cycles(Image) /\ Secs(Image)' = Secs(Image)
    BY <1>1, SameStage DEF Cycles, Secs
  <2>6. Loaded'
    BY <1>1, <1>3, <2>2, <2>3, <2>4, <2>5, SameStage DEF Loaded
  <2>7. QED BY <1>1, <1>3, <2>6, StageGoesOn DEF Steps
<1>4. CASE Fails("simulator")
  BY <1>1, <1>4, StageFails DEF Ended
<1>5. QED BY <1>3, <1>4 DEF Simulate

LEMMA CalibrateStep == ASSUME IInv, Calibrate PROVE IInv'
<1>1. pc = "check" /\ Pilot(Stage) /\ Shape /\ todo # <<>>
  BY DEF Calibrate, IInv, Shape, Steps
<1>2. CASE log.complete /\ iterations' = Capped(Needed) /\ todo' = Tail(todo) /\ pc' = "build"
           /\ UNCHANGED <<results, summary, exit>>
  <2> DEFINE p == PilotCycles(Head(todo), cost, args.mode)
  <2>1. UNCHANGED <<cost, runs, args, hex, rom, log>>
    BY DEF Calibrate
  <2>2. PerIteration = p /\ p \in Nat \ {0}
    <3>1. log.cycles = Cycles(Image)
      BY <1>1 DEF IInv, Loaded
    <3>2. QED BY <1>1, <3>1, PilotMeasures
  <2>3. MinCycles = MinOf(Head(todo), args.mode) /\ MinCycles \in Nat
    BY <1>1, InStage, BenchAssumption DEF MinCycles, MinOf, Stage
  <2>4. Needed \in Nat \ {0} /\ 102 * MinCycles <= 100 * (Needed * p)
    BY <2>2, <2>3, NeededCovers DEF Needed
  <2>5. PICK k \in 0 .. Len(WorkList(args)) : Done(k)
    BY <1>1 DEF IInv, OnTrack
  <2>6. /\ Tail(todo) # <<>>
        /\ ~Pilot(Head(Tail(todo)).stage) =>
             /\ Head(Tail(todo)).isa = ThisIsa
             /\ Coremark(Head(Tail(todo)).stage) <=> Coremark(Stage)
    BY <1>1, <2>5, NextStage
  <2>7. Tail(todo) \in Seq(Work) /\ Head(Tail(todo)) \in Work
    <3>1. Tail(todo) \in Seq(Work)
      BY <1>1, InStage
    <3>2. QED BY <2>6, <3>1
  <2>8. /\ iterations' \in Nat \ {0}
        /\ args.mode = "publish" => iterations' = Needed
    BY <1>2, <2>4, CappedTyped
  <2>9. args.mode = "smoke" => iterations' <= 10
    BY <1>2, <2>4, CappedTyped
  <2>10. Shape'
    BY <1>1, <1>2, <2>1, <2>6, <2>7, <2>8, <2>9 DEF Shape, Steps
  <2>11. OnTrack'
    <3>1. \E j \in 0 .. Len(WorkList(args')) : Done(j)'
      BY <1>1, <1>2, <2>1, StageDone
    <3>2. QED BY <3>1 DEF OnTrack
  <2>12. Loaded'
    BY <1>2 DEF Loaded
  <2>13. Calibrated'
    <3>1. SUFFICES ASSUME args.mode = "publish", ~Pilot(Head(Tail(todo)).stage)
                   PROVE  102 * MinOf(Head(Tail(todo)), args.mode) <=
                          100 * (iterations' * PilotCycles(Head(Tail(todo)), cost, args.mode))
      BY <1>2, <2>1 DEF Calibrated
    <3>2. /\ Head(Tail(todo)).isa = Head(todo).isa
          /\ Coremark(Head(Tail(todo)).stage) <=> Coremark(Head(todo).stage)
      BY <2>6, <3>1 DEF ThisIsa, Stage
    <3>3. /\ MinOf(Head(Tail(todo)), args.mode) = MinCycles
          /\ PilotCycles(Head(Tail(todo)), cost, args.mode) = p
      <4>1. /\ MinOf(Head(Tail(todo)), args.mode) = MinOf(Head(todo), args.mode)
            /\ PilotCycles(Head(Tail(todo)), cost, args.mode) = p
        BY <3>2 DEF MinOf, PilotCycles
      <4>2. QED BY <2>3, <4>1
    <3>4. iterations' = Needed
      BY <2>8, <3>1
    <3>5. QED BY <2>4, <3>3, <3>4
  <2>14. RowsMeasured'
    BY <1>2, <2>1, RowsKept DEF IInv
  <2>15. SummaryComplete' /\ CalibrationSuffices'
    BY <1>1, <1>2 DEF IInv, SummaryComplete, CalibrationSuffices, Shape
  <2>16. QED BY <2>10, <2>11, <2>12, <2>13, <2>14, <2>15 DEF IInv
<1>3. CASE Fails("missing") /\ UNCHANGED <<todo, iterations>>
  BY <1>1, <1>3, StageFails DEF Ended, Calibrate, Steps
<1>4. QED BY <1>2, <1>3 DEF Calibrate

(* Refused as too short: the pilot's iteration took more by over 2 %.      *)
LEMMA ShortByMargin ==
  ASSUME IInv, pc = "check", ~Pilot(Stage), TooShort,
         UNCHANGED <<cost, runs, args, todo, iterations>>
  PROVE  CalibrationSuffices'
<1> DEFINE c == cost[ThisIsa][Program(Stage)]
           p == PilotCycles(Head(todo), cost, args.mode)
           m == MinOf(Head(todo), args.mode)
<1>1. Shape /\ todo # <<>> /\ args.mode = "publish"
  BY DEF IInv, Shape, Steps, TooShort
<1>2. MinCycles = m /\ m \in Nat
  BY <1>1, InStage, BenchAssumption DEF MinCycles, MinOf, Stage
<1>3. 102 * m <= 100 * (iterations * p)
  BY <1>1 DEF IInv, Calibrated, Steps, Stage
<1>4. /\ c \in Nat \ {0} /\ Cycles(Image) = Overhead + StageIterations * c
      /\ Cycles(Image) \in Nat
  BY <1>1, CyclesTyped
<1>5. StageIterations = iterations /\ iterations \in Nat
  BY <1>1 DEF StageIterations, Pilot, Shape
<1>6. Cycles(Image) < m
  BY <1>2 DEF TooShort, IInv, Loaded
<1>7. p = IF Coremark(Stage) THEN Overhead + cost[ThisIsa]["performance"]
          ELSE c + Overhead \div PilotIter[args.mode]
  <2>1. ~Coremark(Stage) => Program(Stage) = "dhrystone"
    <3>1. Stage \in StageNames
      BY <1>1, InStage
    <3>2. QED BY <3>1, CoremarkNames DEF Program, StageNames, Pilot
  <2>2. QED BY <2>1 DEF PilotCycles, Stage, ThisIsa
<1>8. p \in Nat
  <2>1. cost[ThisIsa]["performance"] \in Nat
    BY <1>1, InStage, CostTyped DEF Programs
  <2>2. Overhead \in Nat /\ PilotIter[args.mode] \in Nat \ {0}
    BY <1>1, InStage, BenchAssumption
  <2>3. Overhead \div PilotIter[args.mode] \in Nat
    BY <2>2, DivMod
  <2> HIDE DEF p, c
  <2>4. QED BY <1>4, <1>7, <2>1, <2>2, <2>3
<1>9. Overhead \in Nat
  BY BenchAssumption
<1> HIDE DEF c, p, m
<1>10. 102 * c < 100 * p
  <2>1. CASE 100 * p <= 102 * c
    <3>1. m <= Overhead + iterations * c
      BY <1>2, <1>3, <1>4, <1>5, <1>8, <1>9, <2>1, EnoughCycles
    <3>2. QED BY <1>2, <1>4, <1>5, <1>6, <3>1
  <2>2. QED BY <1>4, <1>8, <2>1
<1>11. QED BY <1>7, <1>10, SameStage DEF CalibrationSuffices, c

LEMMA RecordStep == ASSUME IInv, Record PROVE IInv'
<1>1. /\ pc = "check" /\ pc \in Steps /\ ~Pilot(Stage) /\ Shape /\ todo # <<>>
      /\ UNCHANGED <<cost, runs, args, iterations, hex, rom, log>>
  BY DEF Record, IInv, Shape, Steps
<1>2. CASE /\ log.complete /\ ~TooShort /\ log.validated
           /\ results' = Extended
           /\ todo' = Tail(todo) /\ pc' = IF todo' = <<>> THEN "write" ELSE "build"
           /\ UNCHANGED <<summary, exit>>
  <2>1. /\ Row \in RowSet /\ Row.isa = ThisIsa /\ Row.stage = Stage
        /\ Row.image.by = runs /\ Row.image.isa = Row.isa
        /\ Row.image.program = Program(Row.stage)
        /\ Row.validated /\ Row.cycles = Cycles(Row.image) /\ Row.cycles <= Timeout
        /\ Coremark(Row.stage) =>
             /\ Row.image.tps = TicksPerSec[args.mode] /\ Secs(Row.image) >= 10
             /\ Row.cycles >= CoreMin[args.mode]
        /\ args.mode = "publish" /\ ~Coremark(Row.stage) => Row.cycles >= DhryMin[args.mode]
    BY <1>1, <1>2, RowFits
  <2>2. results' = Append(results, Row) /\ results \in Seq(RowSet)
    BY <1>1, <1>2 DEF Extended, Shape
  <2>3. PICK k \in 0 .. Len(WorkList(args)) : Done(k)
    BY <1>1 DEF IInv, OnTrack
  <2>4. Tail(todo) # <<>> /\ ~Pilot(Head(Tail(todo)).stage) =>
          /\ Head(Tail(todo)).isa = ThisIsa
          /\ Coremark(Head(Tail(todo)).stage) <=> Coremark(Stage)
    BY <1>1, <2>3, NextStage
  <2>5. Tail(todo) \in Seq(Work)
    BY <1>1, InStage
  <2>6. Shape'
    <3>1. results' \in Seq(RowSet)
      BY <2>1, <2>2
    <3>2. exit' = "running"
      BY <1>1, <1>2 DEF Shape
    <3>3. QED BY <1>1, <1>2, <2>5, <3>1, <3>2 DEF Shape, Steps
  <2>7. OnTrack'
    <3>1. \E j \in 0 .. Len(WorkList(args')) : Done(j)'
      BY <1>1, <1>2, <2>1, <2>2, StageDone
    <3>2. QED BY <3>1 DEF OnTrack
  <2>8. Loaded'
    BY <1>2 DEF Loaded
  <2>9. Calibrated'
    <3>1. SUFFICES ASSUME args.mode = "publish", Tail(todo) # <<>>,
                          ~Pilot(Head(Tail(todo)).stage)
                   PROVE  102 * MinOf(Head(Tail(todo)), args.mode) <=
                          100 * (iterations * PilotCycles(Head(Tail(todo)), cost, args.mode))
      BY <1>1, <1>2 DEF Calibrated, Steps
    <3>2. /\ Head(Tail(todo)).isa = Head(todo).isa
          /\ Coremark(Head(Tail(todo)).stage) <=> Coremark(Head(todo).stage)
      BY <2>4, <3>1 DEF ThisIsa, Stage
    <3>3. /\ MinOf(Head(Tail(todo)), args.mode) = MinOf(Head(todo), args.mode)
          /\ PilotCycles(Head(Tail(todo)), cost, args.mode) =
             PilotCycles(Head(todo), cost, args.mode)
      BY <3>2 DEF MinOf, PilotCycles
    <3>4. 102 * MinOf(Head(todo), args.mode) <=
            100 * (iterations * PilotCycles(Head(todo), cost, args.mode))
      BY <1>1, <3>1 DEF IInv, Calibrated, Stage
    <3>5. QED BY <3>3, <3>4
  <2>10. RowsMeasured'
    BY <1>1, <2>1, <2>2, RowsWithOne DEF IInv
  <2>11. SummaryComplete' /\ CalibrationSuffices'
    BY <1>1, <1>2 DEF IInv, SummaryComplete, CalibrationSuffices, Shape
  <2>12. QED BY <2>6, <2>7, <2>8, <2>9, <2>10, <2>11 DEF IInv
<1>3. CASE Fails("missing") /\ UNCHANGED todo
  BY <1>1, <1>3, StageFails DEF Ended
<1>4. CASE TooShort /\ Fails("short") /\ UNCHANGED todo
  BY <1>1, <1>4, ShortByMargin, StageFails DEF Ended
<1>5. CASE Fails("invalid") /\ UNCHANGED todo
  BY <1>1, <1>5, StageFails DEF Ended
<1>6. QED BY <1>2, <1>3, <1>4, <1>5 DEF Record

LEMMA WriteStep == ASSUME IInv, write_summary PROVE IInv'
<1>1. /\ pc = "write" /\ todo = <<>> /\ Shape
      /\ summary' = [by |-> runs, args |-> args, results |-> results]
      /\ pc' = "idle" /\ exit' = "ok"
      /\ UNCHANGED <<cost, runs, args, todo, iterations, hex, rom, log, results>>
  BY DEF write_summary, IInv, Shape
<1>2. PICK k \in 0 .. Len(WorkList(args)) : Done(k)
  BY <1>1 DEF IInv, OnTrack
<1> DEFINE w == WorkList(args)
           n == Len(w)
<1>3. w \in Seq(Work) /\ n \in Nat
  BY <1>1, WorkOf
<1>4. k = n
  <2>1. CASE k < n
    <3>1. Len(SubSeq(w, k + 1, n)) = n - (k + 1) + 1
      BY <1>3, <2>1, SubSeqProperties
    <3>2. SubSeq(w, k + 1, n) = <<>>
      BY <1>1, <1>2, Zenon DEF Done
    <3>3. Len(<<>>) = 0
      OBVIOUS
    <3>4. n - (k + 1) + 1 = 0
      BY <3>1, <3>2, <3>3, Zenon
    <3>5. QED BY <1>3, <2>1, <3>4
  <2>2. QED BY <1>3, <2>1
<1>5. Rows(results) = Asked(w)
  <2>1. Rows(results) = Asked(SubSeq(w, 1, n))
    BY <1>2, <1>4, Zenon DEF Done
  <2>2. SubSeq(w, 1, n) = w
    BY <1>3, SubSeqFull
  <2>3. QED BY <2>1, <2>2, Zenon
<1> HIDE DEF w, n
<1>6. SummaryComplete'
  <2>1. summary'.results = results /\ summary'.args = args
    BY <1>1
  <2>2. QED BY <1>5, <2>1 DEF SummaryComplete, Rows, w
<1>7. Shape' /\ OnTrack' /\ Loaded' /\ Calibrated'
  BY <1>1 DEF Shape, OnTrack, Loaded, Calibrated, Steps, Ended
<1>8. RowsMeasured'
  BY <1>1, RowsKept DEF IInv
<1>9. CalibrationSuffices'
  BY <1>1 DEF CalibrationSuffices
<1>10. QED BY <1>6, <1>7, <1>8, <1>9 DEF IInv

LEMMA StartStep == ASSUME IInv, NEW a \in Args, Start(a) PROVE IInv'
<1>1. /\ runs < MaxRuns /\ runs' = runs + 1 /\ args' = a /\ todo' = WorkList(a)
      /\ results' = <<>> /\ iterations' = 1
      /\ UNCHANGED <<cost, hex, rom, log, summary>>
      /\ \/ exit' = "running" /\ pc' = IF todo' = <<>> THEN "write" ELSE "build"
         \/ exit' = "tool" /\ pc' = "idle"
  BY DEF Start
<1> DEFINE w == WorkList(a)
<1>2. w \in Seq(Work) /\ WorkFits(w) /\ Len(w) \in Nat
  BY WorkListFits DEF WorkFits
<1>3. todo' = w
  BY <1>1
<1> HIDE DEF w
<1>4. runs' \in 0 .. MaxRuns
  <2>1. MaxRuns \in Nat /\ runs \in 0 .. MaxRuns
    BY BenchAssumption DEF IInv, Shape
  <2>2. QED BY <1>1, <2>1
<1>5. Shape'
  <2>1. results' \in Seq(RowSet)
    BY <1>1
  <2>2. cost' \in CostChoices
    BY <1>1 DEF IInv, Shape
  <2>3. QED BY <1>1, <1>2, <1>3, <1>4, <2>1, <2>2 DEF Shape, Steps, Ended
<1>6. OnTrack'
  <2>1. SubSeq(w, 1, Len(w)) = w
    BY <1>2, SubSeqFull
  <2>2. Rows(results') = <<>>
    <3>1. DOMAIN results' = {}
      BY <1>1
    <3>2. Rows(results') = [i \in {} |-> [isa |-> results'[i].isa, stage |-> results'[i].stage]]
      BY <3>1 DEF Rows
    <3>3. QED BY <3>2
  <2>3. Asked(SubSeq(w, 1, 0)) = <<>>
    BY <1>2, AskedEmpty
  <2>4. WorkList(args') = w
    BY <1>1 DEF w
  <2>5. todo' = SubSeq(WorkList(args'), 0 + 1, Len(WorkList(args')))
    BY <1>3, <2>1, <2>4
  <2>6. Rows(results') = Asked(SubSeq(WorkList(args'), 1, 0))
    BY <2>2, <2>3, <2>4
  <2>7. Done(0)'
    BY <2>5, <2>6 DEF Done
  <2>8. 0 \in 0 .. Len(WorkList(args'))
    BY <1>2, <2>4
  <2>9. QED BY <2>7, <2>8 DEF OnTrack
<1>7. Loaded'
  BY <1>1 DEF Loaded
<1>8. Calibrated'
  <2>1. SUFFICES ASSUME pc' \in Steps PROVE Pilot(Head(todo').stage)
    BY DEF Calibrated
  <2>2. w # <<>>
    BY <1>1, <1>3, <2>1 DEF Steps
  <2>3. Head(w) = w[1] /\ Pilot(w[1].stage)
    BY <1>2, <2>2 DEF WorkFits
  <2>4. QED BY <1>3, <2>3
<1>9. RowsMeasured'
  BY <1>1 DEF RowsMeasured
<1>10. SummaryComplete' /\ CalibrationSuffices'
  BY <1>1 DEF IInv, SummaryComplete, CalibrationSuffices
<1>11. QED BY <1>5, <1>6, <1>7, <1>8, <1>9, <1>10 DEF IInv

-----------------------------------------------------------------------------
(* The invariant and what follows from it.                                 *)

(* In every invocation the rows so far are those of the stages done, each  *)
(* built, staged, run and calibrated for this invocation.                  *)
THEOREM RunnerInvariant == Spec => []IInv
<1>1. Init => IInv
  <2> SUFFICES ASSUME Init PROVE IInv
    OBVIOUS
  <2>1. Shape /\ Loaded /\ Calibrated
    BY StartsTyped
  <2>2. OnTrack /\ RowsMeasured /\ SummaryComplete /\ CalibrationSuffices
    BY DEF Init, OnTrack, RowsMeasured, SummaryComplete, CalibrationSuffices, NoSummary
  <2>3. QED BY <2>1, <2>2 DEF IInv
<1>2. IInv /\ [Next]_vars => IInv'
  <2> SUFFICES ASSUME IInv, [Next]_vars PROVE IInv'
    OBVIOUS
  <2>1. CASE Build
    BY <2>1, BuildStep
  <2>2. CASE StageHex
    BY <2>2, StageHexStep
  <2>3. CASE Simulate
    BY <2>3, SimulateStep
  <2>4. CASE Calibrate
    BY <2>4, CalibrateStep
  <2>5. CASE Record
    BY <2>5, RecordStep
  <2>6. CASE write_summary
    BY <2>6, WriteStep
  <2>7. CASE \E a \in Args : Start(a)
    BY <2>7, StartStep
  <2>8. CASE UNCHANGED vars
    <3>1. OnTrack'
      BY <2>8 DEF IInv, OnTrack, Done, Rows, vars
    <3>2. Shape' /\ Loaded' /\ Calibrated'
      BY <2>8, SameStage DEF IInv, Shape, Loaded, Calibrated, Cycles, Secs, vars
    <3>3. RowsMeasured'
      BY <2>8, RowsKept DEF IInv, vars
    <3>4. SummaryComplete' /\ CalibrationSuffices'
      BY <2>8, SameStage DEF IInv, SummaryComplete, CalibrationSuffices, vars
    <3>5. QED BY <3>1, <3>2, <3>3, <3>4 DEF IInv
  <2>9. QED BY <2>1, <2>2, <2>3, <2>4, <2>5, <2>6, <2>7, <2>8 DEF Next, Script
<1>3. QED BY <1>1, <1>2, PTL DEF Spec

(* The state's shape.                                                      *)
THEOREM TypesHold == Spec => []TypeOK
<1>1. IInv => TypeOK
  BY DEF IInv, Shape, Steps, TypeOK
<1>2. QED BY <1>1, RunnerInvariant, PTL

(* Whatever failed on the way, and whatever earlier invocations left, the  *)
(* summary on disk has exactly the rows its own invocation was asked for,  *)
(* in that order.                                                          *)
THEOREM SummariesComplete == Spec => []SummaryComplete
<1>1. IInv => SummaryComplete
  BY DEF IInv
<1>2. QED BY <1>1, RunnerInvariant, PTL

(* Every row was measured on the image of this invocation, is valid, and   *)
(* is as long as the rules ask.                                            *)
THEOREM RowsAreMeasured == Spec => []RowsMeasured
<1>1. IInv => RowsMeasured
  BY DEF IInv
<1>2. QED BY <1>1, RunnerInvariant, PTL

(* A publish run is too short only if the pilot's iteration took over 2 %  *)
(* more than one of the measured run, for every minimum and every cost.    *)
THEOREM CalibrationIsEnough == Spec => []CalibrationSuffices
<1>1. IInv => CalibrationSuffices
  BY DEF IInv
<1>2. QED BY <1>1, RunnerInvariant, PTL
=============================================================================
