--------------------------- MODULE ArchTestProofs ---------------------------
(***************************************************************************)
(* Theorems about ArchTest: what elf2sisrv.py writes for every ELF file,   *)
(* any number of segments anywhere, and what a run reports for every suite *)
(* of tests, every host and every way in which a tool may fail.            *)
(***************************************************************************)
EXTENDS ArchTest, FiniteSetTheorems, WellFoundedInduction, TLAPS

-----------------------------------------------------------------------------
(* Induction.  The induction theorems of the library have an operator as a *)
(* parameter; the well-foundedness of the natural numbers, which they rest *)
(* on, is about sets.                                                      *)

(* A set of natural numbers that is not empty has a least element.         *)
LEMMA LeastElement ==
  ASSUME NEW T, T \subseteq Nat, T # {}
  PROVE  \E n \in T : \A m \in T : n <= m
<1>1. PICK n \in T : \A m \in T : <<m, n>> \notin OpToRel(<, Nat)
  BY NatLessThanWellFounded, WFMin
<1>2. \A m \in T : m \in Nat /\ n \in Nat /\ <<m, n>> \in Nat \X Nat
  BY <1>1
<1>3. \A m \in T : ~(m < n)
  BY <1>1, <1>2 DEF OpToRel
<1>4. \A m \in T : n <= m
  BY <1>2, <1>3
<1>5. QED BY <1>4

(* What holds of 0, and of n + 1 when it holds of n, holds of every n.     *)
LEMMA Induction ==
  ASSUME NEW S, 0 \in S, \A n \in Nat : n \in S => n + 1 \in S
  PROVE  \A n \in Nat : n \in S
<1> DEFINE T == {n \in Nat : n \notin S}
<1>1. SUFFICES ASSUME T # {} PROVE FALSE
  OBVIOUS
<1>2. PICK n \in T : \A m \in T : n <= m
  BY <1>1, LeastElement
<1>3. n \in Nat /\ n \notin S
  OBVIOUS
<1>4. n - 1 \in Nat /\ (n - 1) + 1 = n
  BY <1>3
<1>5. n - 1 \in S
  BY <1>2, <1>4
<1>6. QED BY <1>3, <1>4, <1>5

(* A bounded set of natural numbers that is not empty has a greatest one.  *)
LEMMA GreatestElement ==
  ASSUME NEW T, T \subseteq Nat, T # {}, NEW B \in Nat, \A t \in T : t <= B
  PROVE  \E n \in T : \A m \in T : m <= n
<1> DEFINE U == {B - t : t \in T}
<1>1. U \subseteq Nat /\ U # {}
  <2>1. ASSUME NEW t \in T PROVE B - t \in Nat
    <3>1. t \in Nat /\ t <= B
      OBVIOUS
    <3>2. QED BY <3>1
  <2>2. QED BY <2>1
<1>2. PICK u \in U : \A v \in U : u <= v
  BY <1>1, LeastElement
<1>3. PICK n \in T : u = B - n
  BY <1>2
<1>4. ASSUME NEW m \in T PROVE m <= n
  <2>1. B - n <= B - m
    BY <1>2, <1>3
  <2>2. m \in Nat /\ n \in Nat
    OBVIOUS
  <2>3. QED BY <2>1, <2>2
<1>5. QED BY <1>3, <1>4

-----------------------------------------------------------------------------
(* The images.                                                             *)

(* The segment j of file is the last of the first n over address a.        *)
Over(elf, j, a) == elf.segs[j].load /\ a \in Covered(elf.segs[j])
LastOver(elf, n, j, a) ==
  /\ j \in 1 .. n /\ Over(elf, j, a)
  /\ \A k \in 1 .. n : Over(elf, k, a) => k <= j

ByteOf(elf, j, a) == elf.segs[j].bytes[a - elf.segs[j].vaddr + 1]

LEMMA CoveredType ==
  ASSUME NEW seg \in SegmentSet
  PROVE  /\ Covered(seg) \subseteq Nat
         /\ \A a \in Covered(seg) : seg.bytes[a - seg.vaddr + 1] \in Nat
         /\ \E B \in Nat : \A a \in Covered(seg) : a <= B
<1>1. seg.vaddr \in Nat /\ seg.bytes \in Seq(Nat)
  BY DEF SegmentSet
<1>2. Len(seg.bytes) \in Nat
  BY <1>1
<1>3. Covered(seg) \subseteq Nat
  BY <1>1, <1>2 DEF Covered
<1>4. ASSUME NEW a \in Covered(seg) PROVE seg.bytes[a - seg.vaddr + 1] \in Nat
  <2>1. a - seg.vaddr + 1 \in 1 .. Len(seg.bytes)
    <3>1. a \in Nat /\ seg.vaddr <= a /\ a < seg.vaddr + Len(seg.bytes)
      BY <1>1, <1>2 DEF Covered
    <3>2. QED BY ONLY <1>1, <1>2, <3>1
  <2>2. \A i \in 1 .. Len(seg.bytes) : seg.bytes[i] \in Nat
    BY ONLY <1>1
  <2>3. QED BY ONLY <2>1, <2>2
<1>5. seg.vaddr + Len(seg.bytes) \in Nat
      /\ \A a \in Covered(seg) : a <= seg.vaddr + Len(seg.bytes)
  BY <1>1, <1>2 DEF Covered
<1>6. QED BY <1>3, <1>4, <1>5

(* What the loop over the program headers has loaded after each of them.   *)
Load(elf, f, i) ==
  IF i = 0 THEN NoBytes
  ELSE IF elf.segs[i].load THEN _load_bytes(elf.segs[i], f[i - 1])
  ELSE f[i - 1]

LoadedUpTo(elf, f, n) ==
  f = [i \in 0 .. n |-> Load(elf, f, i)]

LEMMA LoadExists ==
  ASSUME NEW elf, NEW n \in Nat
  PROVE  \E f : LoadedUpTo(elf, f, n)
<1> DEFINE S == {m \in Nat : \E f : LoadedUpTo(elf, f, m)}
<1>1. 0 \in S
  <2> DEFINE f == [i \in 0 .. 0 |-> NoBytes]
  <2>1. LoadedUpTo(elf, f, 0)
    BY DEF LoadedUpTo, Load
  <2>2. QED BY <2>1
<1>2. ASSUME NEW m \in Nat, m \in S PROVE m + 1 \in S
  <2>1. PICK f : LoadedUpTo(elf, f, m)
    BY <1>2
  <2> DEFINE g == [i \in 0 .. m + 1 |-> IF i = m + 1 THEN Load(elf, f, m + 1) ELSE f[i]]
  <2>2. \A i \in 0 .. m + 1 : i = m + 1 \/ (i \in 0 .. m /\ i # m + 1)
    OBVIOUS
  <2>3. \A i \in 0 .. m : i \in 0 .. m + 1 /\ i # m + 1 /\ g[i] = f[i]
    OBVIOUS
  <2>4. \A i \in 0 .. m + 1 : i # 0 => i - 1 \in 0 .. m
    OBVIOUS
  <2>5. \A i \in 0 .. m + 1 : Load(elf, g, i) = Load(elf, f, i)
    BY <2>3, <2>4 DEF Load
  <2>6. \A i \in 0 .. m : f[i] = Load(elf, f, i)
    BY <2>1 DEF LoadedUpTo
  <2>7. \A i \in 0 .. m + 1 : g[i] = Load(elf, g, i)
    BY <2>2, <2>3, <2>5, <2>6
  <2>8. LoadedUpTo(elf, g, m + 1)
    <3>1. g = [i \in 0 .. m + 1 |-> g[i]]
      OBVIOUS
    <3> HIDE DEF g
    <3>2. QED BY <3>1, <2>7 DEF LoadedUpTo
  <2>9. QED BY <2>8
<1> HIDE DEF S
<1>3. n \in S
  BY <1>1, <1>2, Induction
<1>4. QED BY <1>3 DEF S

LEMMA LoadSegments ==
  ASSUME NEW elf, Len(elf.segs) \in Nat
  PROVE  \E f : /\ LoadedUpTo(elf, f, Len(elf.segs))
                /\ load_segments(elf) = f[Len(elf.segs)]
<1> DEFINE f == CHOOSE g : LoadedUpTo(elf, g, Len(elf.segs))
<1>1. LoadedUpTo(elf, f, Len(elf.segs))
  BY LoadExists
<1>2. load_segments(elf) = f[Len(elf.segs)]
  BY DEF load_segments, LoadedUpTo, Load
<1>3. QED BY <1>1, <1>2
(* After n headers a byte is there when one of the n segments covers it,   *)
(* and is that of the last of these.                                       *)
Faithful(elf, f, n) ==
  /\ DOMAIN f[n] \subseteq Nat
  /\ \E B \in Nat : \A a \in DOMAIN f[n] : a <= B
  /\ \A a : a \notin DOMAIN f[n] => \A k \in 1 .. n : ~Over(elf, k, a)
  /\ \A a \in DOMAIN f[n] :
       \E j \in 1 .. n : LastOver(elf, n, j, a) /\ f[n][a] = ByteOf(elf, j, a)

LEMMA LoadStep ==
  ASSUME NEW elf, elf.segs \in Seq(SegmentSet),
         NEW f, LoadedUpTo(elf, f, Len(elf.segs)),
         NEW n \in Nat, n + 1 <= Len(elf.segs), Faithful(elf, f, n)
  PROVE  Faithful(elf, f, n + 1)
<1> DEFINE seg == elf.segs[n + 1]
<1>1. seg \in SegmentSet
  OBVIOUS
<1>2. f[n + 1] = IF seg.load THEN _load_bytes(seg, f[n]) ELSE f[n]
  <2>1. n + 1 \in 0 .. Len(elf.segs) /\ n + 1 # 0 /\ n + 1 - 1 = n
    OBVIOUS
  <2>2. f[n + 1] = Load(elf, f, n + 1)
    BY <2>1 DEF LoadedUpTo
  <2>3. QED BY <2>1, <2>2 DEF Load
<1>3. \A k \in 1 .. n + 1 : k \in 1 .. n \/ k = n + 1
  OBVIOUS
<1>4. \A k \in 1 .. n : k \in 1 .. n + 1 /\ k <= n + 1
  OBVIOUS
<1>5. n + 1 \in 1 .. n + 1
  OBVIOUS
<1>6. CASE ~seg.load
  <2>1. \A a : ~Over(elf, n + 1, a)
    BY <1>6 DEF Over
  <2>2. f[n + 1] = f[n]
    BY <1>2, <1>6
  <2>3. \A j, a : LastOver(elf, n, j, a) => LastOver(elf, n + 1, j, a)
    BY <1>3, <1>4, <2>1 DEF LastOver
  <2>4. \A a : a \notin DOMAIN f[n] => \A k \in 1 .. n + 1 : ~Over(elf, k, a)
    BY <1>3, <2>1 DEF Faithful
  <2>5. ASSUME NEW a \in DOMAIN f[n + 1]
        PROVE  \E j \in 1 .. n + 1 : LastOver(elf, n + 1, j, a)
                                    /\ f[n + 1][a] = ByteOf(elf, j, a)
    <3>1. PICK j \in 1 .. n : LastOver(elf, n, j, a) /\ f[n][a] = ByteOf(elf, j, a)
      BY <2>2 DEF Faithful
    <3>2. QED BY <1>4, <2>2, <2>3, <3>1
  <2>6. QED BY <2>2, <2>4, <2>5 DEF Faithful
<1>7. CASE seg.load
  <2>1. f[n + 1] = _load_bytes(seg, f[n])
    BY <1>2, <1>7
  <2>2. /\ DOMAIN f[n + 1] = DOMAIN f[n] \cup Covered(seg)
        /\ \A a \in DOMAIN f[n + 1] :
             f[n + 1][a] = IF a \in Covered(seg) THEN ByteOf(elf, n + 1, a) ELSE f[n][a]
    BY <2>1 DEF _load_bytes, ByteOf
  <2>3. \A a : Over(elf, n + 1, a) <=> a \in Covered(seg)
    BY <1>7 DEF Over
  <2>4. DOMAIN f[n + 1] \subseteq Nat
    BY <1>1, <2>2, CoveredType DEF Faithful
  <2>5. \E B \in Nat : \A a \in DOMAIN f[n + 1] : a <= B
    <3>1. PICK B \in Nat : \A a \in DOMAIN f[n] : a <= B
      BY DEF Faithful
    <3>2. PICK C \in Nat : \A a \in Covered(seg) : a <= C
      BY <1>1, CoveredType
    <3>3. B + C \in Nat
      OBVIOUS
    <3>4. ASSUME NEW a \in DOMAIN f[n + 1] PROVE a <= B + C
      <4>1. a \in Nat /\ (a <= B \/ a <= C)
        BY <2>2, <2>4, <3>1, <3>2
      <4>2. QED BY <4>1
    <3>5. QED BY <3>3, <3>4
  <2>6. \A a : a \notin DOMAIN f[n + 1] => \A k \in 1 .. n + 1 : ~Over(elf, k, a)
    BY <1>3, <2>2, <2>3 DEF Faithful
  <2>7. ASSUME NEW a \in DOMAIN f[n + 1]
        PROVE  \E j \in 1 .. n + 1 : LastOver(elf, n + 1, j, a)
                                    /\ f[n + 1][a] = ByteOf(elf, j, a)
    <3>1. CASE a \in Covered(seg)
      <4>1. LastOver(elf, n + 1, n + 1, a)
        BY <1>3, <1>4, <1>5, <2>3, <3>1 DEF LastOver
      <4>2. QED BY <1>5, <2>2, <3>1, <4>1
    <3>2. CASE a \notin Covered(seg)
      <4>1. PICK j \in 1 .. n : LastOver(elf, n, j, a) /\ f[n][a] = ByteOf(elf, j, a)
        BY <2>2, <3>2 DEF Faithful
      <4>2. LastOver(elf, n + 1, j, a)
        BY <1>3, <1>4, <2>3, <3>2, <4>1 DEF LastOver
      <4>3. QED BY <1>4, <2>2, <3>2, <4>1, <4>2
    <3>3. QED BY <3>1, <3>2
  <2>8. QED BY <2>4, <2>5, <2>6, <2>7 DEF Faithful
<1>8. QED BY <1>1, <1>6, <1>7

(* The image of a file: bounded, and at each address what an ELF loader    *)
(* has there.                                                              *)
LEMMA ImageBytes ==
  ASSUME NEW elf, elf.segs \in Seq(SegmentSet)
  PROVE  /\ DOMAIN load_segments(elf) \subseteq Nat
         /\ \E B \in Nat : \A a \in DOMAIN load_segments(elf) : a <= B
         /\ \A a : /\ Placed(elf, a) <=> a \in DOMAIN load_segments(elf)
                   /\ LoaderByte(elf, a) = IF a \in DOMAIN load_segments(elf)
                                           THEN load_segments(elf)[a] ELSE 0
<1> DEFINE N == Len(elf.segs)
<1>1. N \in Nat /\ DOMAIN elf.segs = 1 .. N
  OBVIOUS
<1>2. PICK f : LoadedUpTo(elf, f, N) /\ load_segments(elf) = f[N]
  BY <1>1, LoadSegments
<1> HIDE DEF N
<1> DEFINE S == {n \in Nat : n <= N => Faithful(elf, f, n)}
<1>3. 0 \in S
  <2>1. 0 \in 0 .. N
    BY <1>1
  <2>2. f[0] = NoBytes
    BY <1>2, <2>1 DEF LoadedUpTo, Load
  <2>3. DOMAIN f[0] = {}
    BY <2>2 DEF NoBytes
  <2>4. 1 .. 0 = {}
    OBVIOUS
  <2>5. QED BY <2>3, <2>4 DEF Faithful
<1>4. ASSUME NEW n \in Nat, n \in S PROVE n + 1 \in S
  <2>1. SUFFICES ASSUME n + 1 <= N PROVE Faithful(elf, f, n + 1)
    OBVIOUS
  <2>2. n <= N
    BY <1>1, <2>1
  <2>3. QED BY <1>2, <1>4, <2>1, <2>2, LoadStep DEF N
<1> HIDE DEF S
<1>5. Faithful(elf, f, N)
  <2>1. N \in S
    BY <1>1, <1>3, <1>4, Induction
  <2>2. QED BY <1>1, <2>1 DEF S
<1>6. ASSUME NEW a
      PROVE  /\ Placed(elf, a) <=> a \in DOMAIN f[N]
             /\ LoaderByte(elf, a) = IF a \in DOMAIN f[N] THEN f[N][a] ELSE 0
  <2> DEFINE over == Placing(elf, a)
  <2>0. over = {i \in DOMAIN elf.segs : Over(elf, i, a)}
    BY DEF Placing, Over
  <2>1. /\ Placed(elf, a) <=> over # {}
        /\ LoaderByte(elf, a) =
             IF over = {} THEN 0
             ELSE ByteOf(elf, CHOOSE j \in over : \A k \in over : k <= j, a)
    BY DEF LoaderByte, Placed, ByteOf
  <2>2. CASE a \notin DOMAIN f[N]
    <3>1. over = {}
      BY <1>1, <1>5, <2>0, <2>2 DEF Faithful
    <3>2. QED BY <2>1, <2>2, <3>1
  <2>3. CASE a \in DOMAIN f[N]
    <3>1. PICK j \in 1 .. N : LastOver(elf, N, j, a) /\ f[N][a] = ByteOf(elf, j, a)
      BY <1>5, <2>3 DEF Faithful
    <3>2. j \in over /\ \A k \in over : k <= j
      BY <1>1, <2>0, <3>1 DEF LastOver
    <3>3. over \subseteq Nat
      BY <1>1, <2>0
    <3> HIDE DEF over
    <3> DEFINE i == CHOOSE h \in over : \A k \in over : k <= h
    <3>4. i \in over /\ \A k \in over : k <= i
      BY <3>2
    <3>5. i = j
      <4>1. i <= j /\ j <= i /\ i \in Nat /\ j \in Nat
        BY <3>2, <3>3, <3>4
      <4>2. QED BY <4>1
    <3>6. over # {}
      BY <3>2
    <3>7. QED BY <2>1, <2>3, <3>1, <3>5, <3>6
  <2>4. QED BY <2>2, <2>3
<1>7. QED BY <1>2, <1>5, <1>6 DEF Faithful
(* The words of a region and back: each byte from the base upwards is read *)
(* from the word and the lane it was written to.                           *)
LEMMA WordOf ==
  ASSUME NEW base \in Nat, NEW a \in Nat, base <= a
  PROVE  LET i == (a - base) \div 4 + 1
         IN /\ i \in Nat /\ 1 <= i
            /\ (a - base) % 4 \in 0 .. 3
            /\ base + 4 * (i - 1) + ((a - base) % 4) = a
<1> DEFINE d == a - base
<1>1. d \in Nat
  OBVIOUS
<1>2. d = 4 * (d \div 4) + (d % 4) /\ d \div 4 \in Nat /\ d % 4 \in 0 .. 3
  BY <1>1
<1>3. QED BY <1>1, <1>2

LEMMA WriteHexReads ==
  ASSUME NEW base \in Nat, base % 4 = 0, NEW image,
         \A b \in DOMAIN image : b \in Nat /\ base <= b,
         \E B \in Nat : \A b \in DOMAIN image : b <= B,
         NEW a \in Nat, base <= a
  PROVE  LET words == write_hex(image, base)
             i   == (a - base) \div 4 + 1
         IN /\ a \in DOMAIN image => i \in DOMAIN words
            /\ i \in DOMAIN words =>
                 words[i][(a - base) % 4] = IF a \in DOMAIN image THEN image[a] ELSE 0
<1> DEFINE words  == write_hex(image, base)
           word == (a - base) \div 4 + 1
           lane == (a - base) % 4
<1>1. word \in Nat /\ 1 <= word /\ lane \in 0 .. 3 /\ base + 4 * (word - 1) + lane = a
  BY WordOf
<1>2. CASE DOMAIN image = {}
  <2>1. words = <<>>
    BY <1>2 DEF write_hex
  <2>2. word \notin DOMAIN words
    BY <2>1
  <2>3. QED BY <1>2, <2>2
<1>3. CASE DOMAIN image # {}
  <2> DEFINE last == CHOOSE x \in DOMAIN image : \A b \in DOMAIN image : b <= x
             stop == ((last + 4) \div 4) * 4
             count == (stop - base) \div 4
  <2>1. last \in DOMAIN image /\ \A b \in DOMAIN image : b <= last
    <3>1. DOMAIN image \subseteq Nat
      OBVIOUS
    <3>2. \E n \in DOMAIN image : \A m \in DOMAIN image : m <= n
      BY <1>3, <3>1, GreatestElement
    <3>3. QED BY <3>2
  <2>2. last \in Nat /\ base <= last
    BY <2>1
  <2>3. words = [i \in 1 .. count |->
                 [b \in 0 .. 3 |-> LET x == base + 4 * (i - 1) + b
                                   IN IF x \in DOMAIN image THEN image[x] ELSE 0]]
    BY <1>3 DEF write_hex
  <2> HIDE DEF last
  <2>4. count \in Int
    BY <2>2
  <2>5. a <= last => word <= count
    <3>1. a = base + 4 * (word - 1) + lane
      BY <1>1
    <3>2. base = 4 * (base \div 4) /\ base \div 4 \in Nat
      OBVIOUS
    <3>3. PICK q \in Nat : last = 4 * q + (last % 4) /\ last % 4 \in 0 .. 3
      <4>1. last = 4 * (last \div 4) + (last % 4) /\ last \div 4 \in Nat /\ last % 4 \in 0 .. 3
        BY <2>2
      <4>2. QED BY <4>1
    <3>4. stop = 4 * (q + 1)
      BY <2>2, <3>3
    <3>5. PICK p \in Nat : base = 4 * p
      BY <3>2
    <3>6. count = q + 1 - p
      BY <2>2, <3>4, <3>5
    <3> HIDE DEF word, lane, count
    <3>7. QED BY <1>1, <2>2, <3>1, <3>3, <3>5, <3>6
  <2> HIDE DEF words, word, lane, count
  <2>6. word \in DOMAIN words =>
          words[word][(a - base) % 4] = IF a \in DOMAIN image THEN image[a] ELSE 0
    <3> SUFFICES ASSUME word \in DOMAIN words
                 PROVE words[word][(a - base) % 4] = IF a \in DOMAIN image THEN image[a] ELSE 0
      OBVIOUS
    <3>1. words[word][lane] = LET x == base + 4 * (word - 1) + lane
                            IN IF x \in DOMAIN image THEN image[x] ELSE 0
      BY <1>1, <2>3
    <3>2. words[word][lane] = IF a \in DOMAIN image THEN image[a] ELSE 0
      BY <1>1, <3>1
    <3>3. QED BY <3>2 DEF lane
  <2>7. a \in DOMAIN image => word \in DOMAIN words
    <3>1. a \in DOMAIN image => word <= count
      BY <2>1, <2>5
    <3>2. QED BY <1>1, <2>3, <2>4, <3>1
  <2>8. QED BY <2>6, <2>7 DEF words, word
<1>4. QED BY <1>2, <1>3

(* The memories of the simulator, filled and loaded with the two hex files *)
(* of a file, have every byte an ELF loader places, and 0 in the rest of   *)
(* the RAM, for every list of segments and memories of every size.         *)
THEOREM HexIsImage ==
  ASSUME NEW elf, elf.segs \in Seq(SegmentSet), NEW a \in Addresses,
         Placed(elf, a) \/ a >= RamBase
  PROVE  MemoryByte(RomHex(elf), RamHex(elf), a) = LoaderByte(elf, a)
<1>0. a \in Nat
  BY HexAssumption DEF Addresses
<1> DEFINE image == load_segments(elf)
<1>1. /\ DOMAIN image \subseteq Nat
      /\ \E B \in Nat : \A b \in DOMAIN image : b <= B
      /\ Placed(elf, a) <=> a \in DOMAIN image
      /\ LoaderByte(elf, a) = IF a \in DOMAIN image THEN image[a] ELSE 0
  BY ImageBytes
<1> HIDE DEF image
<1>2. CASE a < RamBase
  <2> DEFINE part == RomPart(image)
  <2>1. /\ DOMAIN part = {b \in DOMAIN image : b < RamBase}
        /\ \A b \in DOMAIN part : part[b] = image[b]
    BY DEF RomPart
  <2> HIDE DEF part
  <2>2. \A b \in DOMAIN part : b \in Nat /\ 0 <= b
    BY <1>1, <2>1
  <2>3. \E B \in Nat : \A b \in DOMAIN part : b <= B
    BY <1>1, <2>1
  <2>4. /\ a \in DOMAIN part => (a - 0) \div 4 + 1 \in DOMAIN write_hex(part, 0)
        /\ (a - 0) \div 4 + 1 \in DOMAIN write_hex(part, 0) =>
             write_hex(part, 0)[(a - 0) \div 4 + 1][(a - 0) % 4]
               = IF a \in DOMAIN part THEN part[a] ELSE 0
    BY <1>0, <2>2, <2>3, WriteHexReads
  <2>5. RomHex(elf) = write_hex(part, 0)
    BY DEF RomHex, part, image
  <2>6. a \in DOMAIN part
    <3>1. ~(a >= RamBase)
      BY <1>0, <1>2, HexAssumption
    <3>2. a \in DOMAIN image
      BY <1>1, <3>1
    <3>3. QED BY <1>2, <2>1, <3>2
  <2>7. QED BY <1>1, <1>2, <2>1, <2>4, <2>5, <2>6 DEF MemoryByte
<1>3. CASE ~(a < RamBase)
  <2> DEFINE part == RamPart(image)
  <2>1. /\ DOMAIN part = {b \in DOMAIN image : b >= RamBase}
        /\ \A b \in DOMAIN part : part[b] = image[b]
    BY DEF RamPart
  <2> HIDE DEF part
  <2>2. \A b \in DOMAIN part : b \in Nat /\ RamBase <= b
    BY <1>1, <2>1, HexAssumption
  <2>3. \E B \in Nat : \A b \in DOMAIN part : b <= B
    BY <1>1, <2>1
  <2>4. RamBase <= a
    BY <1>0, <1>3, HexAssumption
  <2>5. /\ a \in DOMAIN part =>
             (a - RamBase) \div 4 + 1 \in DOMAIN write_hex(part, RamBase)
        /\ (a - RamBase) \div 4 + 1 \in DOMAIN write_hex(part, RamBase) =>
             write_hex(part, RamBase)[(a - RamBase) \div 4 + 1][(a - RamBase) % 4]
               = IF a \in DOMAIN part THEN part[a] ELSE 0
    BY <1>0, <2>2, <2>3, <2>4, WriteHexReads, HexAssumption
  <2>6. RamHex(elf) = write_hex(part, RamBase)
    BY DEF RamHex, part, image
  <2>7. a \in DOMAIN part <=> a \in DOMAIN image
    BY <2>1, <2>4, HexAssumption
  <2>8. FillByte(a) = 0
    BY <1>3 DEF FillByte
  <2>9. QED BY <1>1, <1>3, <2>1, <2>5, <2>6, <2>7, <2>8 DEF MemoryByte
<1>4. QED BY <1>2, <1>3
-----------------------------------------------------------------------------
(* The run.                                                                *)

LEMMA FirstOf ==
  ASSUME NEW S, S \subseteq Tests, S # {}
  PROVE  First(S) \in S
<1>1. S \subseteq Nat
  BY ArchAssumption DEF Tests
<1>2. \E t \in S : \A u \in S : t <= u
  BY <1>1, LeastElement
<1>3. QED BY <1>2 DEF First

DutStages == {"compile", "convert", "symbols", "simulate"}

ListOK ==
  /\ selected \subseteq Tests
  /\ todo \subseteq selected
  /\ stage \in {"filter", "build"} => todo = {}
  /\ stage \in {"convert", "symbols", "simulate"} => todo # {}

(* The images of the test the core is at are those of its ELF file.        *)
ImageOK ==
  /\ file \in Files \cup {NoFile}
  /\ stage \in {"filter", "build", "compile"} => ~hex.written
  /\ hex.written =>
       /\ file \in Files
       /\ hex.rom = RomHex(file) /\ hex.ram = RamHex(file)

(* Nothing before the comparison has a verdict, no test that is still to   *)
(* be simulated a signature, and no test that did not halt.                *)
SigOK ==
  /\ outcome \in [Tests -> {"not run", "halt", "other code", "timeout"}]
  /\ sig \in [Plugins -> [Tests -> {"none", "right", "wrong"}]]
  /\ \A t \in Tests : sig["ref"][t] # "wrong"
  /\ \A t \in Tests : sig["dut"][t] # "none" => outcome[t] = "halt"
  /\ stage \in {"filter", "build"} => \A t \in Tests : sig["dut"][t] = "none"
  /\ stage \in DutStages => \A t \in todo : sig["dut"][t] = "none"

(* A verdict is what the comparison of the two signatures said; those      *)
(* still to be compared have none.                                         *)
VerdictOK ==
  /\ verdict \in [Tests -> {"none", "Passed", "Failed"}]
  /\ stage \notin {"compare", "report", "exit 1"} =>
       \A t \in Tests : verdict[t] = "none"
  /\ \A t \in Tests : verdict[t] = "Passed" =>
       sig["dut"][t] = "right" /\ sig["ref"][t] = "right"
  /\ stage = "compare" => \A t \in Tests : verdict[t] # "none" <=> t \in selected \ todo
  /\ stage = "report" => \A t \in Tests : verdict[t] # "none" <=> t \in selected

IInv == ListOK /\ ImageOK /\ SigOK /\ VerdictOK

LEMMA InitIInv == Init => IInv
<1> SUFFICES ASSUME Init PROVE IInv
  OBVIOUS
<1>1. ListOK
  BY DEF Init, ListOK
<1>2. ImageOK
  BY DEF Init, ImageOK, NoHex
<1>3. SigOK
  BY DEF Init, SigOK, Plugins, DutStages
<1>4. VerdictOK
  BY DEF Init, VerdictOK
<1>5. QED BY <1>1, <1>2, <1>3, <1>4 DEF IInv

LEMMA ListStep == IInv /\ [Next]_vars => ListOK'
<1> SUFFICES ASSUME IInv, [Next]_vars PROVE ListOK'
  OBVIOUS
<1> USE DEF IInv, ListOK
<1>1. CASE FilterSmoke
  <2>1. CASE Matches = {}
    BY <1>1, <2>1 DEF FilterSmoke
  <2>2. CASE Matches # {}
    <3>1. Matches \subseteq Tests
      BY DEF Matches
    <3>2. pick_match(Matches) \in Tests
      <4> DEFINE preferred == {t \in Matches : Suite[t].prefer}
                 non_hints == {t \in Matches : ~Suite[t].hint}
      <4>1. preferred # {} => First(preferred) \in Tests
        BY <3>1, FirstOf
      <4>2. non_hints # {} => First(non_hints) \in Tests
        BY <3>1, FirstOf
      <4>3. First(Matches) \in Tests
        BY <2>2, <3>1, FirstOf
      <4>4. QED BY <4>1, <4>2, <4>3 DEF pick_match
    <3>3. QED BY <1>1, <2>2, <3>2 DEF FilterSmoke
  <2>3. QED BY <2>1, <2>2
<1>2. CASE FilterAct
  BY <1>2 DEF FilterAct
<1>3. CASE Build \/ Compile
  BY <1>3 DEF Build, Compile
<1>4. CASE Convert \/ _symbol_addr \/ Simulate \/ DutDone
  BY <1>4 DEF Convert, _symbol_addr, Simulate, DutDone
<1>5. CASE (\E t \in Tests : RefTarget(t)) \/ RefDone \/ Compare \/ Report
  BY <1>5 DEF RefTarget, RefDone, Compare, Report
<1>6. CASE Ended \/ UNCHANGED vars
  BY <1>6 DEF Ended, vars
<1>7. QED BY <1>1, <1>2, <1>3, <1>4, <1>5, <1>6 DEF Next, Running

LEMMA ImageStep == IInv /\ [Next]_vars => ImageOK'
<1> SUFFICES ASSUME IInv, [Next]_vars PROVE ImageOK'
  OBVIOUS
<1> USE DEF IInv, ImageOK
<1>1. CASE FilterSmoke \/ FilterAct \/ Build
  BY <1>1 DEF FilterSmoke, FilterAct, Build
<1>2. CASE Compile
  BY <1>2 DEF Compile
<1>3. CASE Convert
  <2>1. Accepted(file) => file \in Files
    BY DEF Accepted, NoFile
  <2>2. QED BY <1>3, <2>1 DEF Convert, NoHex
<1>4. CASE _symbol_addr
  BY <1>4 DEF _symbol_addr
<1>5. CASE Simulate
  BY <1>5 DEF Simulate, NoHex
<1>6. CASE DutDone \/ (\E t \in Tests : RefTarget(t)) \/ RefDone \/ Compare \/ Report
  BY <1>6 DEF DutDone, RefTarget, RefDone, Compare, Report
<1>7. CASE Ended \/ UNCHANGED vars
  BY <1>7 DEF Ended, vars
<1>8. QED BY <1>1, <1>2, <1>3, <1>4, <1>5, <1>6, <1>7 DEF Next, Running

LEMMA SigStep == IInv /\ [Next]_vars => SigOK'
<1> SUFFICES ASSUME IInv, [Next]_vars PROVE SigOK'
  OBVIOUS
<1>1. /\ selected \subseteq Tests /\ todo \subseteq selected
      /\ stage \in {"filter", "build"} => todo = {}
      /\ stage = "simulate" => todo # {}
      /\ SigOK
  BY DEF IInv, ListOK
<1>2. CASE FilterSmoke \/ FilterAct
  BY <1>1, <1>2 DEF FilterSmoke, FilterAct, SigOK, DutStages
<1>3. CASE Build
  BY <1>1, <1>3 DEF Build, SigOK, DutStages
<1>4. CASE Compile \/ Convert \/ _symbol_addr
  BY <1>1, <1>4 DEF Compile, Convert, _symbol_addr, SigOK, DutStages
<1>5. CASE Simulate
  <2> DEFINE t == First(todo)
  <2>1. PICK how \in Outcomes :
          \E right \in BOOLEAN, dumped \in DumpsSignature(how) :
            /\ outcome' = [outcome EXCEPT ![t] = how]
            /\ sig' = IF dumped
                      THEN [sig EXCEPT !["dut"][t] = IF right THEN "right" ELSE "wrong"]
                      ELSE sig
            /\ todo' = todo \ {t}
    BY <1>5 DEF Simulate
  <2>2. PICK right \in BOOLEAN, dumped \in DumpsSignature(how) :
          /\ outcome' = [outcome EXCEPT ![t] = how]
          /\ sig' = IF dumped
                    THEN [sig EXCEPT !["dut"][t] = IF right THEN "right" ELSE "wrong"]
                    ELSE sig
          /\ todo' = todo \ {t}
    BY <2>1
  <2>3. stage = "simulate" /\ stage' = "compile"
    BY <1>5 DEF Simulate
  <2>4. how \in {"halt", "other code", "timeout"}
    BY DEF Outcomes
  <2> HIDE DEF t
  <2>5. outcome' \in [Tests -> {"not run", "halt", "other code", "timeout"}]
    BY <1>1, <2>2, <2>4 DEF SigOK
  <2>6. /\ sig' \in [Plugins -> [Tests -> {"none", "right", "wrong"}]]
        /\ \A u \in Tests : sig'["ref"][u] = sig["ref"][u]
        /\ \A u \in Tests : u # t => sig'["dut"][u] = sig["dut"][u]
        /\ ~dumped => sig' = sig
    BY <1>1, <2>2 DEF SigOK, Plugins
  <2>7. \A u \in Tests : u # t => outcome'[u] = outcome[u]
    BY <1>1, <2>2 DEF SigOK
  <2>8. t \in Tests => outcome'[t] = how
    BY <1>1, <2>2 DEF SigOK
  <2>9. ASSUME NEW u \in Tests, sig'["dut"][u] # "none" PROVE outcome'[u] = "halt"
    <3>1. CASE u # t
      BY <1>1, <2>6, <2>7, <2>9, <3>1 DEF SigOK
    <3>2. CASE u = t
      <4>1. t \in todo => sig["dut"][t] = "none"
        BY <1>1, <2>3 DEF SigOK, DutStages
      <4>2. CASE dumped
        BY <2>2, <2>8, <3>2, <4>2 DEF DumpsSignature
      <4>3. CASE ~dumped
        <5>1. t \in todo
          <6>1. todo # {} /\ todo \subseteq Tests
            BY <1>1, <2>3
          <6>2. QED BY <6>1, FirstOf DEF t
        <5>2. QED BY <2>6, <2>9, <3>2, <4>1, <4>3, <5>1
      <4>4. QED BY <4>2, <4>3
    <3>3. QED BY <3>1, <3>2
  <2>10. \A u \in todo' : sig'["dut"][u] = "none"
    BY <1>1, <2>2, <2>3, <2>6 DEF SigOK, DutStages
  <2>11. \A u \in Tests : sig'["ref"][u] # "wrong"
    BY <1>1, <2>6 DEF SigOK
  <2>12. \A u \in Tests : sig'["dut"][u] # "none" => outcome'[u] = "halt"
    BY <2>9
  <2>13. stage' \notin {"filter", "build"}
    BY <2>3
  <2>14. QED BY <2>5, <2>6, <2>10, <2>11, <2>12, <2>13 DEF SigOK
<1>6. CASE DutDone \/ RefDone \/ Compare \/ Report
  BY <1>1, <1>6 DEF DutDone, RefDone, Compare, Report, SigOK, DutStages
<1>7. ASSUME NEW t \in Tests, RefTarget(t) PROVE SigOK'
  <2>1. stage = "reference" /\ stage' = "reference" /\ outcome' = outcome
    BY <1>7 DEF RefTarget
  <2>2. /\ sig' \in [Plugins -> [Tests -> {"none", "right", "wrong"}]]
        /\ \A u \in Tests : sig'["dut"][u] = sig["dut"][u]
        /\ \A u \in Tests : sig'["ref"][u] # "wrong"
    <3>1. CASE sig' = [sig EXCEPT !["ref"][t] = "right"]
      BY <1>1, <3>1 DEF SigOK, Plugins
    <3>2. CASE UNCHANGED sig
      BY <1>1, <3>2 DEF SigOK
    <3>3. QED BY <1>7, <3>1, <3>2 DEF RefTarget
  <2>3. QED BY <1>1, <2>1, <2>2 DEF SigOK, DutStages
<1>8. CASE Ended \/ UNCHANGED vars
  BY <1>1, <1>8 DEF Ended, vars, SigOK
<1>9. QED BY <1>2, <1>3, <1>4, <1>5, <1>6, <1>7, <1>8 DEF Next, Running
LEMMA VerdictStep == IInv /\ [Next]_vars => VerdictOK'
<1> SUFFICES ASSUME IInv, [Next]_vars PROVE VerdictOK'
  OBVIOUS
<1>1. /\ selected \subseteq Tests /\ todo \subseteq selected
      /\ SigOK /\ VerdictOK
  BY DEF IInv, ListOK
<1>2. CASE FilterSmoke \/ FilterAct \/ Build
  BY <1>1, <1>2 DEF FilterSmoke, FilterAct, Build, VerdictOK, Ends
<1>3. CASE Compile \/ Convert \/ _symbol_addr
  BY <1>1, <1>3 DEF Compile, Convert, _symbol_addr, VerdictOK
<1>4. CASE Simulate
  <2>1. stage = "simulate" /\ stage' = "compile" /\ verdict' = verdict
    BY <1>4 DEF Simulate
  <2>2. \A t \in Tests : verdict'[t] = "none"
    BY <1>1, <2>1 DEF VerdictOK
  <2>3. QED BY <1>1, <2>1, <2>2 DEF VerdictOK
<1>5. CASE DutDone
  BY <1>1, <1>5 DEF DutDone, VerdictOK
<1>6. ASSUME NEW t \in Tests, RefTarget(t) PROVE VerdictOK'
  <2>1. stage = "reference" /\ stage' = "reference" /\ verdict' = verdict
    BY <1>6 DEF RefTarget
  <2>2. \A u \in Tests : verdict'[u] = "none"
    BY <1>1, <2>1 DEF VerdictOK
  <2>3. QED BY <1>1, <2>1, <2>2 DEF VerdictOK
<1>7. CASE RefDone
  <2>1. /\ stage = "reference" /\ stage' = "compare" /\ verdict' = verdict
        /\ todo' = selected /\ selected' = selected /\ sig' = sig
    BY <1>7 DEF RefDone
  <2>2. \A u \in Tests : verdict'[u] = "none"
    BY <1>1, <2>1 DEF VerdictOK
  <2>3. QED BY <1>1, <2>1, <2>2 DEF VerdictOK
<1>8. CASE Compare
  <2> DEFINE t == First(todo)
  <2>1. t \in todo /\ t \in Tests /\ stage = "compare"
    <3>1. todo # {} /\ todo \subseteq Tests
      BY <1>1, <1>8 DEF Compare
    <3>2. QED BY <1>8, <3>1, FirstOf DEF Compare
  <2>2. CASE "none" \in {sig[p][t] : p \in Plugins}
    <3>1. stage' = "exit 1" /\ UNCHANGED <<todo, verdict, selected, sig>>
      BY <1>8, <2>2 DEF Compare
    <3>2. QED BY <1>1, <3>1 DEF VerdictOK
  <2>3. CASE "none" \notin {sig[p][t] : p \in Plugins}
    <3>1. /\ verdict' = [verdict EXCEPT ![t] =
                           IF sig["dut"][t] = sig["ref"][t] THEN "Passed" ELSE "Failed"]
          /\ todo' = todo \ {t}
          /\ UNCHANGED <<stage, selected, sig>>
      BY <1>8, <2>3 DEF Compare
    <3>2. sig["dut"][t] # "none" /\ sig["ref"][t] = "right"
      <4>1. sig["dut"][t] # "none" /\ sig["ref"][t] # "none"
        BY <2>3 DEF Plugins
      <4>2. sig["ref"][t] \in {"none", "right", "wrong"} /\ sig["ref"][t] # "wrong"
        BY <1>1, <2>1 DEF SigOK, Plugins
      <4>3. QED BY <4>1, <4>2
    <3> HIDE DEF t
    <3>3. verdict' \in [Tests -> {"none", "Passed", "Failed"}]
      BY <1>1, <3>1 DEF VerdictOK
    <3>4. \A u \in Tests : u # t => verdict'[u] = verdict[u]
      BY <1>1, <3>1 DEF VerdictOK
    <3>5. verdict'[t] = IF sig["dut"][t] = sig["ref"][t] THEN "Passed" ELSE "Failed"
      BY <1>1, <2>1, <3>1 DEF VerdictOK
    <3>6. ASSUME NEW u \in Tests, verdict'[u] = "Passed"
          PROVE  sig'["dut"][u] = "right" /\ sig'["ref"][u] = "right"
      BY <1>1, <3>1, <3>2, <3>4, <3>5, <3>6 DEF VerdictOK
    <3>7. \A u \in Tests : verdict'[u] # "none" <=> u \in selected' \ todo'
      BY <1>1, <2>1, <3>1, <3>4, <3>5 DEF VerdictOK
    <3>8. QED BY <2>1, <3>1, <3>3, <3>6, <3>7 DEF VerdictOK
  <2>4. QED BY <2>2, <2>3
<1>9. CASE Report
  BY <1>1, <1>9 DEF Report, VerdictOK
<1>10. CASE Ended \/ UNCHANGED vars
  BY <1>1, <1>10 DEF Ended, vars, VerdictOK
<1>11. QED BY <1>2, <1>3, <1>4, <1>5, <1>6, <1>7, <1>8, <1>9, <1>10
           DEF Next, Running

(* What is at hand at each stage of a run belongs to the test it is at.    *)
THEOREM RunInvariant == Spec => []IInv
<1>1. IInv /\ [Next]_vars => IInv'
  BY ListStep, ImageStep, SigStep, VerdictStep DEF IInv
<1>2. QED BY <1>1, InitIInv, PTL DEF Spec

(* The state of a run has the shape the plugins and filters give it.       *)
StageOK ==
  /\ stage \in {"filter", "build", "compile", "convert", "symbols", "simulate",
                "reference", "compare"} \cup Ends
  /\ counts.kept \in Nat /\ counts.excluded \in Nat
  /\ prefix \in [Plugins -> Prefixes]

LEMMA KeptCounts ==
  ASSUME NEW kept, kept \subseteq Tests
  PROVE  Cardinality(kept) \in Nat /\ Cardinality(Tests) - Cardinality(kept) \in Nat
<1>1. IsFiniteSet(Tests)
  BY ArchAssumption DEF Tests
<1>2. IsFiniteSet(kept) /\ Cardinality(kept) <= Cardinality(Tests)
  BY <1>1, FS_Subset
<1>3. Cardinality(kept) \in Nat /\ Cardinality(Tests) \in Nat
  BY <1>1, <1>2, FS_CardinalityType
<1>4. QED BY <1>2, <1>3

LEMMA StageStep == StageOK /\ [Next]_vars => StageOK'
<1> SUFFICES ASSUME StageOK, [Next]_vars PROVE StageOK'
  OBVIOUS
<1>1. CASE FilterAct
  <2> DEFINE kept == {t \in Tests : ~should_exclude(t, exclude_parts(goal))}
  <2>1. /\ counts'.kept = Cardinality(kept)
        /\ counts'.excluded = Cardinality(Tests) - Cardinality(kept)
        /\ stage' = "build" /\ prefix' = prefix
    BY <1>1 DEF FilterAct
  <2> HIDE DEF kept
  <2>2. kept \subseteq Tests
    BY DEF kept
  <2>3. QED BY <2>1, <2>2, KeptCounts DEF StageOK
<1>2. CASE Build
  <2>1. \A p \in Plugins : Resolved(prefix[p]) \in Prefixes
    BY DEF StageOK, Resolved, Prefixes
  <2>2. counts' = counts /\ stage' \in {"compile", "exit 1"}
    BY <1>2 DEF Build
  <2>3. prefix' \in [Plugins -> Prefixes]
    BY <1>2, <2>1 DEF Build, Command, StageOK
  <2>4. QED BY <2>2, <2>3 DEF StageOK, Ends
<1>3. CASE UNCHANGED <<counts, prefix>> /\ ~FilterAct /\ ~Build
  BY <1>3 DEF Next, Running, FilterSmoke, Compile, Convert, _symbol_addr, Simulate,
              DutDone, RefTarget, RefDone, Compare, Report, Ended, vars, StageOK, Ends
<1>4. FilterAct \/ Build \/ UNCHANGED <<counts, prefix>>
  BY DEF Next, Running, FilterSmoke, Compile, Convert, _symbol_addr, Simulate,
         DutDone, RefTarget, RefDone, Compare, Report, Ended, vars
<1>5. QED BY <1>1, <1>2, <1>3, <1>4

(* The state of a RISCOF run is type correct.                              *)
THEOREM TypesHold == Spec => []TypeOK
<1>1. Init => StageOK
  <2> SUFFICES ASSUME Init PROVE StageOK
    OBVIOUS
  <2>1. stage = "filter" /\ counts = NoCounts /\ prefix = [p \in Plugins |-> Configured]
    BY DEF Init
  <2>2. NoCounts.kept = 0 /\ NoCounts.excluded = 0
    BY DEF NoCounts
  <2>3. Configured \in Prefixes
    BY DEF Prefixes
  <2>4. QED BY <2>1, <2>2, <2>3 DEF StageOK
<1>2. IInv /\ StageOK => TypeOK
  BY DEF IInv, ListOK, ImageOK, SigOK, VerdictOK, StageOK, TypeOK
<1>3. QED BY <1>1, <1>2, StageStep, RunInvariant, PTL DEF Spec

(* Wherever the file has a byte, the simulator's memory has it too, and    *)
(* the rest of the RAM is 0, whatever file the compiler left.              *)
THEOREM ImagesFaithful == Spec => []ImageFaithful
<1>1. IInv => ImageFaithful
  <2> SUFFICES ASSUME IInv, hex.written PROVE SameMemory
    BY DEF ImageFaithful
  <2>1. /\ file.segs \in Seq(SegmentSet)
        /\ hex.rom = RomHex(file) /\ hex.ram = RamHex(file)
    BY ArchAssumption DEF IInv, ImageOK
  <2>2. QED BY <2>1, HexIsImage DEF SameMemory
<1>2. QED BY <1>1, RunInvariant, PTL

(* A test passes only if the core ran it to the halt in this run and       *)
(* computed what the reference computed.                                   *)
THEOREM PassesRan == Spec => []PassedMeansRan
<1>1. IInv => PassedMeansRan
  BY DEF IInv, SigOK, VerdictOK, PassedMeansRan
<1>2. QED BY <1>1, RunInvariant, PTL

(* The report has a verdict on every test of the list and on no other.     *)
THEOREM ReportsComplete == Spec => []ReportComplete
<1>1. IInv => ReportComplete
  BY DEF IInv, ListOK, VerdictOK, ReportComplete
<1>2. QED BY <1>1, RunInvariant, PTL

(* Nothing is compiled, converted or looked up with a compiler that is not *)
(* installed, whichever prefix had to be replaced.                         *)
THEOREM CompilersFound == Spec => []CompilerFound
<1>1. Init => CompilerFound
  BY DEF Init, CompilerFound
<1>2. CompilerFound /\ [Next]_vars => CompilerFound'
  <2> SUFFICES ASSUME CompilerFound, [Next]_vars PROVE CompilerFound'
    OBVIOUS
  <2>1. CASE FilterSmoke \/ FilterAct
    BY <2>1 DEF FilterSmoke, FilterAct, CompilerFound
  <2>2. CASE Build
    BY <2>2 DEF Build, Command, CompilerFound
  <2>3. CASE Compile \/ Convert \/ _symbol_addr \/ Simulate
    BY <2>3 DEF Compile, Convert, _symbol_addr, Simulate, CompilerFound
  <2>4. CASE DutDone \/ (\E t \in Tests : RefTarget(t)) \/ RefDone \/ Compare \/ Report
    BY <2>4 DEF DutDone, RefTarget, RefDone, Compare, Report, CompilerFound
  <2>5. CASE Ended \/ UNCHANGED vars
    BY <2>5 DEF Ended, vars, CompilerFound
  <2>6. QED BY <2>1, <2>2, <2>3, <2>4, <2>5 DEF Next, Running
<1>3. QED BY <1>1, <1>2, PTL DEF Spec
-----------------------------------------------------------------------------
(* The filters.                                                            *)

LEMMA PickMatch ==
  ASSUME Matches # {}
  PROVE  LET t == pick_match(Matches)
         IN /\ t \in Matches
            /\ (\E u \in Matches : Suite[u].prefer) => Suite[t].prefer
            /\ Suite[t].hint => \A u \in Matches : Suite[u].hint \/ Suite[t].prefer
<1> DEFINE preferred == {t \in Matches : Suite[t].prefer}
           non_hints == {t \in Matches : ~Suite[t].hint}
<1>1. Matches \subseteq Tests
  BY DEF Matches
<1>2. CASE preferred # {}
  <2>1. First(preferred) \in preferred
    BY <1>1, <1>2, FirstOf
  <2>2. pick_match(Matches) = First(preferred)
    BY <1>2 DEF pick_match
  <2>3. QED BY <2>1, <2>2
<1>3. CASE preferred = {} /\ non_hints # {}
  <2>1. First(non_hints) \in non_hints
    BY <1>1, <1>3, FirstOf
  <2>2. pick_match(Matches) = First(non_hints)
    BY <1>3 DEF pick_match
  <2>3. QED BY <1>3, <2>1, <2>2
<1>4. CASE preferred = {} /\ non_hints = {}
  <2>1. First(Matches) \in Matches
    BY <1>1, FirstOf
  <2>2. pick_match(Matches) = First(Matches)
    BY <1>4 DEF pick_match
  <2>3. QED BY <1>4, <2>1, <2>2
<1>5. QED BY <1>2, <1>3, <1>4

(* The smoke test runs one test, a match, from the preferred directory if  *)
(* there is one there and a hint only if there is nothing else.            *)
THEOREM SmokePicksOne == Spec => []SmokePicks
<1>1. Init => SmokePicks
  BY DEF Init, SmokePicks
<1>2. SmokePicks /\ [Next]_vars => SmokePicks'
  <2> SUFFICES ASSUME SmokePicks, [Next]_vars PROVE SmokePicks'
    OBVIOUS
  <2>1. CASE FilterSmoke
    <3>1. CASE Matches = {}
      BY <2>1, <3>1 DEF FilterSmoke, SmokePicks
    <3>2. CASE Matches # {}
      <4>1. selected' = {pick_match(Matches)}
        BY <2>1, <3>2 DEF FilterSmoke
      <4>2. QED BY <3>2, <4>1, PickMatch DEF SmokePicks
    <3>3. QED BY <3>1, <3>2
  <2>2. CASE FilterAct
    BY <2>2 DEF FilterAct, SmokePicks
  <2>3. CASE Build \/ Compile \/ Convert \/ _symbol_addr \/ Simulate
    BY <2>3 DEF Build, Compile, Convert, _symbol_addr, Simulate, SmokePicks
  <2>4. CASE DutDone \/ (\E t \in Tests : RefTarget(t)) \/ RefDone \/ Compare \/ Report
    BY <2>4 DEF DutDone, RefTarget, RefDone, Compare, Report, SmokePicks
  <2>5. CASE Ended \/ UNCHANGED vars
    BY <2>5 DEF Ended, vars, SmokePicks
  <2>6. QED BY <2>1, <2>2, <2>3, <2>4, <2>5 DEF Next, Running
<1>3. QED BY <1>1, <1>2, PTL DEF Spec

(* One step of the sum of f over the set s, the sums of the smaller sets   *)
(* being in g.                                                             *)
SumStep(f, g, s) ==
  IF s = {} THEN 0 ELSE LET x == CHOOSE x \in s : TRUE IN f[x] + g[s \ {x}]

Sums(f, g, S) == g = [s \in S |-> SumStep(f, g, s)]

(* The subsets of D with n elements or fewer.                              *)
Small(D, n) == {s \in SUBSET D : Cardinality(s) <= n}

LEMMA SmallerSet ==
  ASSUME NEW D, IsFiniteSet(D), NEW n \in Nat, NEW s \in Small(D, n + 1), s # {}
  PROVE  LET x == CHOOSE x \in s : TRUE
         IN x \in s /\ s \ {x} \in Small(D, n)
<1> DEFINE x == CHOOSE x \in s : TRUE
<1>1. x \in s
  OBVIOUS
<1> HIDE DEF x
<1>2. s \subseteq D /\ Cardinality(s) <= n + 1
  BY DEF Small
<1>3. IsFiniteSet(s) /\ Cardinality(s) \in Nat
  BY <1>2, FS_Subset, FS_CardinalityType
<1>4. Cardinality(s \ {x}) = Cardinality(s) - 1
  BY <1>1, <1>3, FS_RemoveElement
<1>5. Cardinality(s \ {x}) <= n
  BY <1>2, <1>3, <1>4
<1>6. s \ {x} \in Small(D, n)
  BY <1>2, <1>5 DEF Small
<1>7. QED BY <1>1, <1>6 DEF x

LEMMA SmallIsAll ==
  ASSUME NEW D, IsFiniteSet(D)
  PROVE  Cardinality(D) \in Nat /\ Small(D, Cardinality(D)) = SUBSET D
<1>1. Cardinality(D) \in Nat
  BY FS_CardinalityType
<1>2. \A s \in SUBSET D : Cardinality(s) <= Cardinality(D)
  BY FS_Subset
<1>3. QED BY <1>1, <1>2 DEF Small

LEMMA SumsExist ==
  ASSUME NEW f, NEW D, IsFiniteSet(D)
  PROVE  \E g : Sums(f, g, SUBSET D)
<1> DEFINE S == {n \in Nat : \E g : Sums(f, g, Small(D, n))}
<1>1. 0 \in S
  <2> DEFINE g == [s \in Small(D, 0) |-> 0]
  <2>1. ASSUME NEW s \in Small(D, 0) PROVE s = {}
    <3>1. s \subseteq D /\ Cardinality(s) <= 0
      BY DEF Small
    <3>2. IsFiniteSet(s) /\ Cardinality(s) \in Nat
      BY <3>1, FS_Subset, FS_CardinalityType
    <3>3. Cardinality(s) = 0
      BY <3>1, <3>2
    <3>4. QED BY <3>2, <3>3, FS_EmptySet
  <2>2. \A s \in Small(D, 0) : SumStep(f, g, s) = 0
    BY <2>1 DEF SumStep
  <2>3. Sums(f, g, Small(D, 0))
    BY <2>2 DEF Sums
  <2>4. QED BY <2>3
<1>2. ASSUME NEW n \in Nat, n \in S PROVE n + 1 \in S
  <2>1. PICK g : Sums(f, g, Small(D, n))
    BY <1>2
  <2> DEFINE h == [s \in Small(D, n + 1) |-> SumStep(f, g, s)]
  <2>2. \A s \in Small(D, n) : s \in Small(D, n + 1)
    <3>1. ASSUME NEW s \in Small(D, n) PROVE s \in Small(D, n + 1)
      <4>1. s \subseteq D /\ Cardinality(s) <= n
        BY DEF Small
      <4>2. Cardinality(s) \in Nat
        BY <4>1, FS_Subset, FS_CardinalityType
      <4>3. Cardinality(s) <= n + 1
        BY <4>1, <4>2
      <4>4. QED BY <4>1, <4>3 DEF Small
    <3>2. QED BY <3>1
  <2>3. \A s \in Small(D, n) : h[s] = g[s]
    BY <2>1, <2>2 DEF Sums
  <2>4. ASSUME NEW s \in Small(D, n + 1) PROVE SumStep(f, g, s) = SumStep(f, h, s)
    <3>1. CASE s = {}
      BY <3>1 DEF SumStep
    <3>2. CASE s # {}
      <4> DEFINE x == CHOOSE x \in s : TRUE
      <4>1. s \ {x} \in Small(D, n)
        BY <3>2, SmallerSet
      <4>2. h[s \ {x}] = g[s \ {x}]
        BY <2>3, <4>1
      <4>3. SumStep(f, g, s) = f[x] + g[s \ {x}] /\ SumStep(f, h, s) = f[x] + h[s \ {x}]
        BY <3>2 DEF SumStep
      <4>4. QED BY <4>2, <4>3
    <3>3. QED BY <3>1, <3>2
  <2>5. Sums(f, h, Small(D, n + 1))
    <3>1. h = [s \in Small(D, n + 1) |-> h[s]]
      OBVIOUS
    <3>2. \A s \in Small(D, n + 1) : h[s] = SumStep(f, h, s)
      BY <2>4
    <3> HIDE DEF h
    <3>3. QED BY <3>1, <3>2 DEF Sums
  <2>6. QED BY <2>5
<1> HIDE DEF S
<1>3. Cardinality(D) \in Nat /\ Small(D, Cardinality(D)) = SUBSET D
  BY SmallIsAll
<1>4. Cardinality(D) \in S
  BY <1>1, <1>2, <1>3, Induction
<1>5. QED BY <1>3, <1>4 DEF S

LEMMA TotalIsSum ==
  ASSUME NEW f, IsFiniteSet(DOMAIN f)
  PROVE  \E g : Sums(f, g, SUBSET (DOMAIN f)) /\ Total(f) = g[DOMAIN f]
<1> DEFINE g == CHOOSE h : Sums(f, h, SUBSET (DOMAIN f))
<1>1. Sums(f, g, SUBSET (DOMAIN f))
  BY SumsExist
<1>2. Total(f) = g[DOMAIN f]
  BY DEF Total, MapThenSumSet, MapThenFoldSet, Sums, SumStep
<1>3. QED BY <1>1, <1>2

(* Counting the elements of T by their colour, one of D, counts each once. *)
LEMMA CountByColour ==
  ASSUME NEW T, IsFiniteSet(T), NEW D, IsFiniteSet(D), NEW c \in [T -> D]
  PROVE  Total([i \in D |-> Cardinality({t \in T : c[t] = i})]) = Cardinality(T)
<1> DEFINE f == [i \in D |-> Cardinality({t \in T : c[t] = i})]
<1>1. DOMAIN f = D
  OBVIOUS
<1>2. PICK g : Sums(f, g, SUBSET D) /\ Total(f) = g[D]
  BY <1>1, TotalIsSum
<1>3. \A i \in D : f[i] = Cardinality({t \in T : c[t] = i})
  OBVIOUS
<1> HIDE DEF f
<1> DEFINE Of(s) == {t \in T : c[t] \in s}
           S == {n \in Nat : \A s \in Small(D, n) : g[s] = Cardinality(Of(s))}
<1>4. \A s \in SUBSET D : g[s] = SumStep(f, g, s)
  BY <1>2 DEF Sums
<1>5. \A n \in Nat : \A s \in Small(D, n) :
        s \in SUBSET D /\ IsFiniteSet(s) /\ Cardinality(s) \in Nat /\ Cardinality(s) <= n
  BY FS_Subset, FS_CardinalityType DEF Small
<1>6. ASSUME NEW s \in SUBSET D, s = {} PROVE g[s] = Cardinality(Of(s))
  <2>1. g[s] = 0
    BY <1>4, <1>6 DEF SumStep
  <2>2. Of(s) = {}
    BY <1>6
  <2>3. QED BY <2>1, <2>2, FS_EmptySet
<1>7. 0 \in S
  <2>1. ASSUME NEW s \in Small(D, 0) PROVE s \in SUBSET D /\ s = {}
    <3>1. s \in SUBSET D /\ IsFiniteSet(s) /\ Cardinality(s) = 0
      BY <1>5
    <3>2. QED BY <3>1, FS_EmptySet
  <2>2. QED BY <1>6, <2>1
<1>8. ASSUME NEW n \in Nat, n \in S PROVE n + 1 \in S
  <2>1. ASSUME NEW s \in Small(D, n + 1), s # {} PROVE g[s] = Cardinality(Of(s))
    <3> DEFINE x == CHOOSE x \in s : TRUE
    <3>1. x \in s /\ s \ {x} \in Small(D, n) /\ s \in SUBSET D
      BY <2>1, <1>5, SmallerSet
    <3>2. g[s] = f[x] + g[s \ {x}]
      BY <1>4, <2>1, <3>1 DEF SumStep
    <3> HIDE DEF x
    <3>3. g[s \ {x}] = Cardinality(Of(s \ {x}))
      BY <1>8, <3>1
    <3>4. f[x] = Cardinality(Of({x}))
      <4>1. {t \in T : c[t] = x} = Of({x})
        OBVIOUS
      <4>2. QED BY <1>3, <3>1, <4>1
    <3>5. Of(s) = Of({x}) \cup Of(s \ {x}) /\ Of({x}) \cap Of(s \ {x}) = {}
      BY <3>1
    <3>6. IsFiniteSet(Of({x})) /\ IsFiniteSet(Of(s \ {x}))
      <4>1. Of({x}) \in SUBSET T /\ Of(s \ {x}) \in SUBSET T
        OBVIOUS
      <4>2. QED BY <4>1, FS_Subset
    <3> HIDE DEF Of
    <3>7. Cardinality(Of({x})) \in Nat /\ Cardinality(Of(s \ {x})) \in Nat
      BY <3>6, FS_CardinalityType
    <3>8. Cardinality(Of(s)) = Cardinality(Of({x})) + Cardinality(Of(s \ {x}))
      <4> DEFINE A == Of({x})
                 B == Of(s \ {x})
      <4>1. IsFiniteSet(A) /\ IsFiniteSet(B) /\ A \cap B = {} /\ Of(s) = A \cup B
        BY <3>5, <3>6
      <4>2. Cardinality(A) \in Nat /\ Cardinality(B) \in Nat
        BY <3>7
      <4> HIDE DEF A, B
      <4>3. Cardinality(A \cup B) = Cardinality(A) + Cardinality(B) - Cardinality(A \cap B)
        BY ONLY <4>1, FS_Union
      <4>4. Cardinality(A \cap B) = 0
        BY ONLY <4>1, FS_EmptySet
      <4>5. Cardinality(A \cup B) = Cardinality(A) + Cardinality(B)
        BY ONLY <4>2, <4>3, <4>4
      <4>6. QED BY ONLY <4>1, <4>5 DEF A, B
    <3>9. QED BY ONLY <3>2, <3>3, <3>4, <3>8
  <2>2. \A s \in Small(D, n + 1) : s \in SUBSET D
    BY DEF Small
  <2>3. QED BY <1>6, <2>1, <2>2
<1> HIDE DEF S
<1>9. Cardinality(D) \in Nat /\ Small(D, Cardinality(D)) = SUBSET D
  BY SmallIsAll
<1>10. Cardinality(D) \in S
  BY <1>7, <1>8, <1>9, Induction
<1>11. g[D] = Cardinality(Of(D))
  BY <1>9, <1>10 DEF S
<1>12. Of(D) = T
  OBVIOUS
<1>13. QED BY <1>2, <1>11, <1>12 DEF f
LEMMA PartsType ==
  /\ DOMAIN EXCLUDE_PATH_PARTS = 1 .. 8
  /\ DOMAIN FULL_PATH_PARTS = 1 .. 5
  /\ \A i \in 1 .. 5 : FULL_PATH_PARTS[i] = EXCLUDE_PATH_PARTS[i + 3]
<1>1. DOMAIN EXCLUDE_PATH_PARTS = 1 .. 8
  BY DEF EXCLUDE_PATH_PARTS
<1> DEFINE parts == EXCLUDE_PATH_PARTS
<1> HIDE DEF parts
<1>2. FULL_PATH_PARTS = [i \in 1 .. 5 |-> parts[i + 3]]
  <2>1. FULL_PATH_PARTS = SubSeq(parts, 4, 8)
    BY DEF FULL_PATH_PARTS, parts
  <2>2. SubSeq(parts, 4, 8) = [i \in 1 .. 5 |-> parts[i + 3]]
    OBVIOUS
  <2>3. QED BY <2>1, <2>2
<1>3. QED BY <1>1, <1>2 DEF parts
LEMMA ActCounts ==
  ASSUME NEW parts, IsFiniteSet(DOMAIN parts), DOMAIN parts \subseteq Nat
  PROVE  LET kept == {t \in Tests : ~should_exclude(t, parts)}
         IN /\ Cardinality(kept) + (Cardinality(Tests) - Cardinality(kept)) = Cardinality(Tests)
            /\ Cardinality(Tests) - Cardinality(kept) = Total(Breakdown(parts))
<1> DEFINE kept == {t \in Tests : ~should_exclude(t, parts)}
           out  == {t \in Tests : should_exclude(t, parts)}
           c    == [t \in out |-> First(Hits(t, parts))]
           D    == DOMAIN parts
<1>1. IsFiniteSet(Tests)
  BY ArchAssumption DEF Tests
<1>2. IsFiniteSet(kept) /\ IsFiniteSet(out)
  <2>1. kept \in SUBSET Tests /\ out \in SUBSET Tests
    OBVIOUS
  <2>2. QED BY <1>1, <2>1, FS_Subset
<1>3. Cardinality(Tests) = Cardinality(kept) + Cardinality(out)
  <2>1. Tests = kept \cup out /\ kept \cap out = {}
    OBVIOUS
  <2> HIDE DEF kept, out
  <2>2. Cardinality(Tests) = Cardinality(kept) + Cardinality(out) - Cardinality({})
    BY <1>2, <2>1, FS_Union
  <2>3. Cardinality(kept) \in Nat /\ Cardinality(out) \in Nat
    BY <1>2, FS_CardinalityType
  <2>4. QED BY <2>2, <2>3, FS_EmptySet
<1>4. ASSUME NEW t \in out PROVE First(Hits(t, parts)) \in D
  <2>1. Hits(t, parts) \subseteq D /\ Hits(t, parts) # {}
    BY DEF Hits, should_exclude
  <2>2. Hits(t, parts) \subseteq Nat
    BY <2>1
  <2>3. \E i \in Hits(t, parts) : \A j \in Hits(t, parts) : i <= j
    BY <2>1, <2>2, LeastElement
  <2>4. First(Hits(t, parts)) \in Hits(t, parts)
    BY <2>3 DEF First
  <2>5. QED BY <2>1, <2>4
<1>5. c \in [out -> D]
  BY <1>4
<1>6. Breakdown(parts) = [i \in D |-> Cardinality({t \in out : c[t] = i})]
  <2>1. ASSUME NEW i \in D
        PROVE  {t \in Tests : should_exclude(t, parts) /\ First(Hits(t, parts)) = i}
                 = {t \in out : c[t] = i}
    OBVIOUS
  <2> HIDE DEF out, c
  <2>2. QED BY <2>1 DEF Breakdown
<1> HIDE DEF kept, out, c, D
<1>7. Total(Breakdown(parts)) = Cardinality(out)
  <2>1. IsFiniteSet(D)
    BY DEF D
  <2>2. QED BY <1>2, <1>5, <1>6, <2>1, CountByColour
<1>8. Cardinality(kept) \in Nat /\ Cardinality(out) \in Nat
  BY <1>2, FS_CardinalityType
<1>9. /\ Cardinality(kept) + (Cardinality(Tests) - Cardinality(kept)) = Cardinality(Tests)
      /\ Cardinality(Tests) - Cardinality(kept) = Total(Breakdown(parts))
  BY <1>3, <1>7, <1>8
<1>10. QED BY <1>9 DEF kept

(* Every test is kept or accounted for under one part of its path, and     *)
(* what is kept for CI is kept by --full too.                              *)
THEOREM FilterCounts == Spec => []FilterAccounts
<1>1. Init => FilterAccounts
  BY DEF Init, FilterAccounts
<1>2. FilterAccounts /\ [Next]_vars => FilterAccounts'
  <2> SUFFICES ASSUME FilterAccounts, [Next]_vars PROVE FilterAccounts'
    OBVIOUS
  <2>1. CASE FilterSmoke
    BY <2>1 DEF FilterSmoke, FilterAccounts
  <2>2. CASE FilterAct
    <3> DEFINE parts == exclude_parts(goal)
               kept  == {t \in Tests : ~should_exclude(t, parts)}
    <3>1. PICK n \in {5, 8} : DOMAIN parts = 1 .. n
      BY PartsType DEF exclude_parts
    <3>2. IsFiniteSet(DOMAIN parts) /\ DOMAIN parts \subseteq Nat
      <4>1. n \in Int /\ IsFiniteSet(1 .. n)
        BY FS_Interval
      <4> HIDE DEF parts
      <4>2. QED BY <3>1, <4>1
    <3>3. /\ goal' = goal /\ selected' = kept
          /\ counts' = [kept |-> Cardinality(kept),
                        excluded |-> Cardinality(Tests) - Cardinality(kept),
                        breakdown |-> Breakdown(parts)]
      BY <2>2 DEF FilterAct
    <3>4. /\ counts'.kept + counts'.excluded = Cardinality(Tests)
          /\ counts'.excluded = Total(counts'.breakdown)
      BY <3>2, <3>3, ActCounts
    <3>5. \A t \in kept : \A i \in DOMAIN parts : parts[i] \notin Suite[t].parts
      BY DEF should_exclude, Hits
    <3>6. goal = "act-full" => parts = FULL_PATH_PARTS
      BY DEF exclude_parts
    <3>7. goal # "act-full" => parts = EXCLUDE_PATH_PARTS
      BY DEF exclude_parts
    <3> HIDE DEF parts, kept
    <3>8. \A t \in kept : \A i \in DOMAIN FULL_PATH_PARTS :
            FULL_PATH_PARTS[i] \notin Suite[t].parts
      <4>1. CASE goal = "act-full"
        BY <3>5, <3>6, <4>1
      <4>2. CASE goal # "act-full"
        <5>1. \A i \in 1 .. 5 : i + 3 \in 1 .. 8
          OBVIOUS
        <5>2. QED BY <3>5, <3>7, <4>2, <5>1, PartsType
      <4>3. QED BY <4>1, <4>2
    <3>9. goal = "act" => \A t \in kept : \A i \in DOMAIN EXCLUDE_PATH_PARTS :
                             EXCLUDE_PATH_PARTS[i] \notin Suite[t].parts
      BY <3>5, <3>7
    <3>10. QED BY <3>3, <3>4, <3>8, <3>9 DEF FilterAccounts
  <2>3. CASE Build \/ Compile \/ Convert \/ _symbol_addr \/ Simulate
    BY <2>3 DEF Build, Compile, Convert, _symbol_addr, Simulate, FilterAccounts
  <2>4. CASE DutDone \/ (\E t \in Tests : RefTarget(t)) \/ RefDone \/ Compare \/ Report
    BY <2>4 DEF DutDone, RefTarget, RefDone, Compare, Report, FilterAccounts
  <2>5. CASE Ended \/ UNCHANGED vars
    BY <2>5 DEF Ended, vars, FilterAccounts
  <2>6. QED BY <2>1, <2>2, <2>3, <2>4, <2>5 DEF Next, Running
<1>3. QED BY <1>1, <1>2, PTL DEF Spec
=============================================================================
