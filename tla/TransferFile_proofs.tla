------------------------ MODULE TransferFile_proofs ------------------------
(* What attempts at a transfer do to files, for any number of attempts,    *)
(* blocks, parts and source versions, when a transfer is not repeated      *)
(* while its cancel has not returned: writes that fail or land late, cuts  *)
(* and removals that fail and a process that dies in the middle are steps  *)
(* like the others.                                                        *)
EXTENDS TransferFile, Integers, TLAPS, SequenceTheorems, WellFoundedInduction

-----------------------------------------------------------------------------
(* Numbers.                                                                *)

LEMMA Division ==
  ASSUME NEW a \in Nat, NEW b \in Nat, b > 0
  PROVE  a \div b \in Nat /\ (a \div b) * b <= a /\ a < (a \div b) * b + b
  OBVIOUS

LEMMA Products ==
  ASSUME NEW a \in Nat, NEW b \in Nat, NEW c \in Nat, a <= b
  PROVE  a * c <= b * c /\ a * c \in Nat /\ (a + 1) * c = a * c + c
  OBVIOUS

LEMMA Least ==
  ASSUME NEW S \in SUBSET Nat, S # {}
  PROVE  \E x \in S : \A y \in S : x <= y
<1> DEFINE R == {ss \in Nat \X Nat : ss[1] < ss[2]}
<1>1. IsWellFoundedOn(R, Nat) BY NatLessThanWellFounded, Zenon DEF OpToRel
<1>2. PICK x \in S : \A y \in S : ~(<<y, x>> \in R)
  <2> HIDE DEF R
  <2> QED BY <1>1, WFMin
<1>3. ASSUME NEW y \in S PROVE x <= y
  <2>1. ~(<<y, x>> \in R) BY <1>2
  <2>2. <<y, x>> \in Nat \X Nat OBVIOUS
  <2> QED BY <2>1, <2>2
<1>4. QED BY <1>3

LEMMA MaxOfTwo ==
  ASSUME NEW m \in Nat, NEW n \in Nat
  PROVE  Max({m, n}) = IF m >= n THEN m ELSE n
  BY DEF Max

LEMMA MaxBounded ==
  ASSUME NEW n \in Nat, NEW S \in SUBSET (0..n), S # {}
  PROVE  Max(S) \in S
<1> DEFINE T == {n - x : x \in S}
<1>1. T \in SUBSET Nat /\ T # {}
  <2>1. \A x \in S : n - x \in Nat OBVIOUS
  <2>2. PICK x \in S : TRUE OBVIOUS
  <2>3. n - x \in T BY <2>2
  <2>4. QED BY <2>1, <2>3
<1>2. PICK t \in T : \A y \in T : t <= y
  <2> HIDE DEF T
  <2> QED BY <1>1, Least
<1>3. PICK x \in S : t = n - x BY <1>2
<1>4. ASSUME NEW y \in S PROVE x >= y
  <2>1. n - y \in T OBVIOUS
  <2>2. t <= n - y BY <2>1, <1>2
  <2> QED BY <2>2, <1>3
<1>5. QED BY <1>4 DEF Max

-----------------------------------------------------------------------------
(* Files.                                                                  *)

Blocks == 0..MaxVersion

LEMMA SetLenIs ==
  ASSUME FileAssumption, NEW f \in Seq(Blocks), NEW n \in Nat
  PROVE  /\ SetLen(f, n) \in Seq(Blocks) /\ Len(SetLen(f, n)) = n
         /\ DOMAIN SetLen(f, n) = 1..n
         /\ \A k \in 1..n : SetLen(f, n)[k] = IF k <= Len(f) THEN f[k] ELSE Hole
<1>1. \A k \in 1..n : (IF k <= Len(f) THEN f[k] ELSE Hole) \in Blocks
  BY DEF Blocks, Hole, FileAssumption
<1>2. SetLen(f, n) \in [1..n -> Blocks] BY <1>1 DEF SetLen
<1>3. SetLen(f, n) \in Seq(Blocks) BY <1>2, SeqDef
<1>4. QED BY <1>2, <1>3 DEF SetLen

(* g is f with b at position k.                                            *)
Written(f, k, b, g) ==
  /\ g \in Seq(Blocks) /\ Len(g) = IF Len(f) >= k THEN Len(f) ELSE k
  /\ g[k] = b /\ \A j \in 1..Len(f) : j # k => g[j] = f[j]

LEMMA WriteAtIs ==
  ASSUME FileAssumption, NEW f \in Seq(Blocks), NEW k \in Nat \ {0}, NEW b \in Blocks
  PROVE  Written(f, k, b, WriteAt(f, k, b))
<1> DEFINE n == IF Len(f) >= k THEN Len(f) ELSE k
           g == SetLen(f, n)
<1>1. n \in Nat /\ k \in 1..n /\ Len(f) <= n OBVIOUS
<1>2. Max({Len(f), k}) = n BY MaxOfTwo
<1>3. WriteAt(f, k, b) = [g EXCEPT ![k] = b] BY <1>2 DEF WriteAt
<1> HIDE DEF n
<1>4. /\ g \in Seq(Blocks) /\ Len(g) = n
      /\ \A j \in 1..n : g[j] = IF j <= Len(f) THEN f[j] ELSE Hole
  BY <1>1, SetLenIs
<1> HIDE DEF g
<1>5. [g EXCEPT ![k] = b] \in Seq(Blocks) /\ Len([g EXCEPT ![k] = b]) = n
  BY <1>1, <1>4, ExceptSeq
<1>6. DOMAIN g = 1..n BY <1>4
<1>7. [g EXCEPT ![k] = b][k] = b BY <1>1, <1>6
<1>8. ASSUME NEW j \in 1..Len(f), j # k PROVE [g EXCEPT ![k] = b][j] = f[j]
  BY <1>1, <1>4, <1>6, <1>8
<1>9. QED BY <1>3, <1>5, <1>7, <1>8 DEF n, Written

-----------------------------------------------------------------------------
(* The parts of a copy: their ranges lie in the file, follow one another   *)
(* and cover it.                                                           *)

Divided(a) == parts[a] \in {1, Parts} /\ base[a] \in 0..Size

LEMMA RangeFits ==
  ASSUME FileAssumption, NEW a \in Attempts, Divided(a), NEW i \in PartsOf(a)
  PROVE  /\ PartRange(a, i).start \in Nat /\ PartRange(a, i).len \in Nat
         /\ PartRange(a, i).start + PartRange(a, i).len <= Size
<1> DEFINE p == parts[a]
           chunk == Size \div p
<1>1. p \in Nat /\ p > 0 /\ Size \in Nat /\ base[a] \in 0..Size BY DEF Divided, FileAssumption
<1>2. i \in Nat /\ i + 1 <= p BY <1>1 DEF PartsOf
<1>3. CASE p = 1 BY <1>1, <1>3 DEF PartRange
<1>4. CASE p # 1
  <2> HIDE DEF p
  <2>1. chunk \in Nat /\ chunk * p <= Size BY <1>1, Division
  <2> HIDE DEF chunk
  <2>2. (i + 1) * chunk <= p * chunk BY <1>1, <1>2, <2>1, Products
  <2>3. i * chunk \in Nat /\ (i + 1) * chunk = i * chunk + chunk BY <1>2, <2>1, Products
  <2>4. p * chunk = chunk * p BY <1>1, <2>1
  <2>5. i * chunk + chunk <= Size BY <1>1, <2>1, <2>2, <2>3, <2>4
  <2>6. PartRange(a, i) = [start |-> i * chunk,
                           len |-> IF i = p - 1 THEN Size - i * chunk ELSE chunk]
    BY <1>4 DEF PartRange, chunk, p
  <2>7. QED BY <1>1, <2>1, <2>3, <2>5, <2>6
<1>5. QED BY <1>3, <1>4

LEMMA RangesFollow ==
  ASSUME FileAssumption, NEW a \in Attempts, Divided(a), parts[a] > 1,
         NEW i \in PartsOf(a), NEW j \in PartsOf(a), i < j
  PROVE  PartRange(a, i).start + PartRange(a, i).len <= PartRange(a, j).start
<1> DEFINE p == parts[a]
           chunk == Size \div p
<1>1. p \in Nat /\ p > 1 /\ Size \in Nat BY DEF Divided, FileAssumption
<1>2. i \in Nat /\ j \in Nat /\ i + 1 <= j /\ i # p - 1 BY <1>1 DEF PartsOf
<1>3. PartRange(a, i).start = i * chunk /\ PartRange(a, i).len = chunk
      /\ PartRange(a, j).start = j * chunk
  BY <1>1, <1>2 DEF PartRange
<1> HIDE DEF p
<1>4. chunk \in Nat BY <1>1, Division
<1> HIDE DEF chunk
<1>5. (i + 1) * chunk <= j * chunk /\ (i + 1) * chunk = i * chunk + chunk
  BY <1>2, <1>4, Products
<1>6. QED BY <1>3, <1>5

LEMMA RangesCover ==
  ASSUME FileAssumption, NEW a \in Attempts, Divided(a), parts[a] > 1, NEW c \in 1..Size
  PROVE  \E i \in PartsOf(a) : /\ PartRange(a, i).start < c
                               /\ c <= PartRange(a, i).start + PartRange(a, i).len
<1> DEFINE p == parts[a]
           chunk == Size \div p
           q == (c - 1) \div chunk
<1>1. p \in Nat /\ p > 1 /\ Size \in Nat /\ p <= Size BY DEF Divided, FileAssumption
<1>2. \A i \in PartsOf(a) :
        /\ PartRange(a, i).start = i * chunk
        /\ PartRange(a, i).len = IF i = p - 1 THEN Size - i * chunk ELSE chunk
  BY <1>1 DEF PartRange
<1>3. PartsOf(a) = 0..(p - 1) BY DEF PartsOf
<1> HIDE DEF p
<1>4. chunk \in Nat /\ chunk * p <= Size /\ Size < chunk * p + p BY <1>1, Division
<1>5. chunk > 0
  <2> HIDE DEF chunk
  <2> SUFFICES ASSUME chunk = 0 PROVE FALSE BY <1>4
  <2>1. chunk * p = 0 BY <1>1
  <2> QED BY <1>1, <1>4, <2>1
<1> HIDE DEF chunk
<1>6. q \in Nat /\ q * chunk <= c - 1 /\ c - 1 < q * chunk + chunk BY <1>4, <1>5, Division
<1> HIDE DEF q
<1>7. CASE q < p - 1
  <2>1. q \in PartsOf(a) /\ q # p - 1 BY <1>1, <1>3, <1>6, <1>7
  <2>2. q * chunk \in Nat BY <1>4, <1>6, Products
  <2>3. QED BY <1>2, <1>4, <1>6, <2>1, <2>2
<1>8. CASE q >= p - 1
  <2>1. p - 1 \in Nat /\ p - 1 \in PartsOf(a) BY <1>1, <1>3
  <2>2. (p - 1) * chunk <= q * chunk /\ (p - 1) * chunk \in Nat /\ q * chunk \in Nat
    BY <1>4, <1>6, <1>8, <2>1, Products
  <2>3. QED BY <1>1, <1>2, <1>6, <2>1, <2>2
<1>9. QED BY <1>1, <1>6, <1>7, <1>8

(* Everything below the contiguous prefix has been written by some part.   *)
LEMMA PrefixCovered ==
  ASSUME FileAssumption, NEW a \in Attempts, Divided(a), parts[a] > 1,
         \A i \in PartsOf(a) : done[a][i] \in Nat /\ done[a][i] <= PartRange(a, i).len
  PROVE  /\ ContiguousPrefix(a) \in 0..Size
         /\ \A c \in 1..ContiguousPrefix(a) : \E i \in PartsOf(a) :
              c \in (PartRange(a, i).start + 1)..(PartRange(a, i).start + done[a][i])
<1> DEFINE full == {k \in 0..parts[a] : \A i \in PartsOf(a) : i < k => Finished(a, i)}
           k == Max(full)
<1>1. parts[a] \in Nat /\ Size \in Nat BY DEF Divided, FileAssumption
<1>2. PartsOf(a) = 0..(parts[a] - 1) BY DEF PartsOf
<1>3. 0 \in full BY <1>1, <1>2
<1>4. k \in full
  <2>1. full \in SUBSET (0..parts[a]) /\ full # {} BY <1>3
  <2> HIDE DEF full
  <2> QED BY <1>1, <2>1, MaxBounded
<1>5. k \in 0..parts[a] /\ \A i \in PartsOf(a) : i < k => Finished(a, i) BY <1>4
<1>6. ContiguousPrefix(a) = IF k = parts[a] THEN Size ELSE PartRange(a, k).start + done[a][k]
  BY DEF ContiguousPrefix
<1> HIDE DEF k, full
<1>7. CASE k = parts[a]
  <2>1. ContiguousPrefix(a) = Size BY <1>6, <1>7
  <2>2. ASSUME NEW c \in 1..Size
        PROVE \E i \in PartsOf(a) :
                c \in (PartRange(a, i).start + 1)..(PartRange(a, i).start + done[a][i])
    <3>1. PICK i \in PartsOf(a) : /\ PartRange(a, i).start < c
                                  /\ c <= PartRange(a, i).start + PartRange(a, i).len
      BY <1>1, RangesCover
    <3>2. Finished(a, i) BY <1>1, <1>2, <1>5, <1>7
    <3>3. done[a][i] = PartRange(a, i).len BY <3>2 DEF Finished
    <3>4. PartRange(a, i).start \in Nat /\ PartRange(a, i).len \in Nat BY RangeFits
    <3>5. QED BY <3>1, <3>3, <3>4
  <2>3. QED BY <1>1, <2>1, <2>2
<1>8. CASE k # parts[a]
  <2>1. k \in PartsOf(a) BY <1>1, <1>2, <1>5, <1>8
  <2>2. ContiguousPrefix(a) = PartRange(a, k).start + done[a][k] BY <1>6, <1>8
  <2>3. /\ PartRange(a, k).start \in Nat /\ PartRange(a, k).len \in Nat
        /\ PartRange(a, k).start + PartRange(a, k).len <= Size
    BY <2>1, RangeFits
  <2>4. done[a][k] \in Nat /\ done[a][k] <= PartRange(a, k).len BY <2>1
  <2>5. ASSUME NEW c \in 1..(PartRange(a, k).start + done[a][k])
        PROVE \E i \in PartsOf(a) :
                c \in (PartRange(a, i).start + 1)..(PartRange(a, i).start + done[a][i])
    <3>0. c \in 1..Size BY <1>1, <2>3, <2>4
    <3>1. PICK i \in PartsOf(a) : /\ PartRange(a, i).start < c
                                  /\ c <= PartRange(a, i).start + PartRange(a, i).len
      BY <1>1, <3>0, RangesCover
    <3>2. PartRange(a, i).start \in Nat /\ PartRange(a, i).len \in Nat /\ i \in Nat /\ k \in Nat
      BY RangeFits, <1>1, <1>2, <2>1
    <3>3. CASE i < k
      <4>1. done[a][i] = PartRange(a, i).len BY <1>5, <3>3 DEF Finished
      <4>2. QED BY <3>1, <3>2, <4>1
    <3>4. CASE i = k BY <2>3, <2>4, <3>1, <3>4
    <3>5. CASE i > k
      <4>1. PartRange(a, k).start + PartRange(a, k).len <= PartRange(a, i).start
        BY <2>1, <3>2, <3>5, RangesFollow
      <4>2. QED BY <2>3, <2>4, <3>1, <3>2, <4>1
    <3>6. QED BY <3>2, <3>3, <3>4, <3>5
  <2>6. QED BY <1>1, <2>2, <2>3, <2>4, <2>5
<1>9. QED BY <1>7, <1>8

-----------------------------------------------------------------------------
(* The invariant.                                                          *)

Statuses == {"none", "active", "completed", "failed", "canceled", "gone"}
Writes == [at : 1..Size, block : Versions]

StagingTypes ==
  /\ staging \in [Versions -> Seq(Blocks)] /\ there \in SUBSET Versions
  /\ inode \in [Versions -> Nat] /\ torn \in [Versions -> SUBSET Lapses]

LocalTypes ==
  /\ base \in [Attempts -> 0..Size] /\ done \in [Attempts -> [AllParts -> Nat]]
  /\ lost \in [Attempts -> SUBSET AllParts] /\ broken \in [Attempts -> SUBSET AllParts]
  /\ cancel \in [Attempts -> BOOLEAN]

FileTypes ==
  /\ upload \in BOOLEAN /\ large \in BOOLEAN /\ ver \in Versions
  /\ StagingTypes /\ LocalTypes
  /\ status \in [Attempts -> Statuses] /\ pc \in [Attempts -> Live \cup {"none", "ended"}]
  /\ want \in [Attempts -> Versions] /\ resume \in [Attempts -> BOOLEAN]
  /\ parts \in [Attempts -> {1, Parts}] /\ handle \in [Attempts -> Nat]
  /\ flight \in [Attempts -> [AllParts -> Seq(Writes)]]
  /\ joining \in SUBSET Attempts /\ faults \in Nat

(* A task that runs has an active record, or a cancel that waits for it.   *)
Accounted(a) ==
  /\ want[a] <= ver
  /\ pc[a] \in Live => status[a] = "active" \/ a \in joining
  /\ status[a] = "none" => pc[a] = "none"

(* The record that claims a staging path has it for itself.                *)
OneWriter ==
  \A a, b \in Attempts : pc[a] \in Live /\ pc[b] \in Live /\ want[a] = want[b] => a = b

(* No part has begun before the file is open, and none goes beyond its     *)
(* range.                                                                  *)
PartsFit(a) ==
  /\ pc[a] \in {"none", "prepare", "open"} =>
       lost[a] = {} /\ \A i \in AllParts : done[a][i] = 0 /\ flight[a][i] = <<>>
  /\ pc[a] = "copy" => \A i \in PartsOf(a) : done[a][i] <= PartRange(a, i).len

(* What is on its way to the file of the current source, or to one that is *)
(* about to become the target, was read from that source.                  *)
Sound(v) == v = ver \/ \E b \in Attempts : pc[b] = "replace" /\ want[b] = v
Faithful(a) ==
  Sound(want[a]) =>
    \A i \in AllParts : \A j \in 1..Len(flight[a][i]) : flight[a][i][j].block = want[a]

(* The staging file of the current source holds its first blocks, unless a *)
(* parallel copy is at it or it met a lapse.                               *)
Clean(v) == \A k \in DOMAIN staging[v] : staging[v][k] = v
Dividing(a) == pc[a] = "copy" /\ parts[a] > 1 /\ want[a] = ver
Resumable == torn[ver] = {} /\ (\A a \in Attempts : ~Dividing(a)) => Clean(ver)

(* What the parts of a parallel copy have counted is in the file or on its *)
(* way, but for the parts that lost a block.                               *)
InFile(a, c) == c <= Len(staging[want[a]]) /\ staging[want[a]][c] = want[a]
OnItsWay(a, i, c) == \E j \in 1..Len(flight[a][i]) : flight[a][i][j].at = c
Filled(a) ==
  pc[a] = "copy" =>
    /\ handle[a] = inode[want[a]]
    /\ Dividing(a) /\ want[a] \in there =>
         \A i \in PartsOf(a) \ lost[a] : \A k \in 1..done[a][i] :
           InFile(a, PartRange(a, i).start + k) \/ OnItsWay(a, i, PartRange(a, i).start + k)

(* A file that is about to become the target is the whole source.          *)
Installing(a) ==
  pc[a] = "replace" =>
    torn[want[a]] # {} \/ want[a] \notin there \/ staging[want[a]] = Whole(want[a])

FileFits(v) ==
  /\ Len(staging[v]) <= Size
  /\ v \notin there \/ v > ver => staging[v] = <<>>

FileInv ==
  /\ FileTypes /\ OneWriter /\ Resumable /\ TargetIntact
  /\ \A v \in Versions : FileFits(v)
  /\ \A a \in Attempts :
       Accounted(a) /\ PartsFit(a) /\ Faithful(a) /\ Filled(a) /\ Installing(a)

-----------------------------------------------------------------------------
(* What a step of one attempt leaves alone.                                *)

SameTask(b) ==
  /\ want'[b] = want[b] /\ parts'[b] = parts[b] /\ base'[b] = base[b] /\ handle'[b] = handle[b]
  /\ done'[b] = done[b] /\ flight'[b] = flight[b] /\ lost'[b] = lost[b] /\ pc'[b] = pc[b]

SameFile(v) ==
  /\ staging'[v] = staging[v] /\ inode'[v] = inode[v] /\ torn'[v] = torn[v]
  /\ v \in there' <=> v \in there

Removed(v) == v \notin there' /\ staging'[v] = <<>> /\ inode'[v] = inode[v]

(* A step of the task or the cancel of a: it keeps the source and the      *)
(* other attempts, touches no other staging file, and takes its own from   *)
(* another attempt only by removing it.                                    *)
StepOf(a) ==
  /\ ver' = ver /\ want' = want
  /\ pc'[a] \in Live => pc[a] \in Live
  /\ pc'[a] = "replace" => pc[a] = "replace" \/ want[a] = ver
  /\ \A b \in Attempts \ {a} :
       SameTask(b) /\ status'[b] = status[b] /\ (b \in joining => b \in joining')
  /\ \A v \in Versions : v # want[a] => SameFile(v)
  /\ \A b \in Attempts \ {a} :
       pc[b] \in Live /\ want[b] = want[a] => SameFile(want[a]) \/ Removed(want[a])

LEMMA SameRange ==
  ASSUME NEW b \in Attempts, parts'[b] = parts[b], base'[b] = base[b]
  PROVE  /\ PartsOf(b)' = PartsOf(b)
         /\ \A i : PartRange(b, i)' = PartRange(b, i)
<1>1. PartsOf(b)' = PartsOf(b) BY DEF PartsOf
<1>2. \A i : PartRange(b, i)' = PartRange(b, i) BY DEF PartRange
<1>3. QED BY <1>1, <1>2

LEMMA TargetKept ==
  ASSUME TargetIntact, target' = target, spoiled' = spoiled
  PROVE  TargetIntact'
  BY DEF TargetIntact, Intact, Whole

LEMMA PartsFitKept ==
  ASSUME NEW b \in Attempts, SameTask(b), PartsFit(b)
  PROVE  PartsFit(b)'
<1>1. PartsOf(b)' = PartsOf(b) /\ \A i : PartRange(b, i)' = PartRange(b, i)
  BY SameRange DEF SameTask
<1>2. QED BY <1>1 DEF PartsFit, SameTask

LEMMA FilledKept ==
  ASSUME NEW b \in Attempts, SameTask(b), SameFile(want[b]) \/ Removed(want[b]), ver' = ver,
         Filled(b)
  PROVE  Filled(b)'
<1>1. PartsOf(b)' = PartsOf(b) /\ \A i : PartRange(b, i)' = PartRange(b, i)
  BY SameRange DEF SameTask
<1>2. want'[b] = want[b] BY DEF SameTask
<1>3. SUFFICES ASSUME pc'[b] = "copy"
               PROVE  /\ handle'[b] = inode'[want[b]]
                      /\ Dividing(b)' /\ want[b] \in there' =>
                           \A i \in PartsOf(b) \ lost[b] : \A k \in 1..done[b][i] :
                             \/ InFile(b, PartRange(b, i).start + k)'
                             \/ OnItsWay(b, i, PartRange(b, i).start + k)'
  BY <1>1, <1>2 DEF Filled, SameTask
<1>4. pc[b] = "copy" /\ handle'[b] = inode'[want[b]]
  BY <1>3 DEF Filled, SameTask, SameFile, Removed
<1>5. ASSUME Dividing(b)', want[b] \in there', NEW i \in PartsOf(b) \ lost[b],
             NEW k \in 1..done[b][i]
      PROVE  \/ InFile(b, PartRange(b, i).start + k)'
             \/ OnItsWay(b, i, PartRange(b, i).start + k)'
  <2>1. SameFile(want[b]) BY <1>5 DEF Removed
  <2>2. Dividing(b) /\ want[b] \in there BY <1>5, <2>1 DEF Dividing, SameTask, SameFile
  <2>3. InFile(b, PartRange(b, i).start + k) \/ OnItsWay(b, i, PartRange(b, i).start + k)
    BY <1>4, <1>5, <2>2 DEF Filled
  <2>4. QED BY <1>1, <1>2, <2>1, <2>3 DEF InFile, OnItsWay, SameTask, SameFile
<1>6. QED BY <1>4, <1>5

LEMMA InstallingKept ==
  ASSUME NEW b \in Attempts, SameTask(b), SameFile(want[b]) \/ Removed(want[b]), Installing(b)
  PROVE  Installing(b)'
  BY DEF Installing, SameTask, SameFile, Removed, Whole

LEMMA FaithfulKept ==
  ASSUME NEW a \in Attempts, StepOf(a), NEW b \in Attempts, flight'[b] = flight[b], Faithful(b)
  PROVE  Faithful(b)'
<1>1. want'[b] = want[b] BY DEF StepOf
<1>2. Sound(want[b])' => Sound(want[b])
  <2> SUFFICES ASSUME Sound(want[b])', want[b] # ver PROVE Sound(want[b]) BY DEF Sound
  <2>1. PICK c \in Attempts : pc'[c] = "replace" /\ want[c] = want[b]
    BY <1>1 DEF Sound, StepOf
  <2>2. CASE c = a BY <2>1, <2>2 DEF Sound, StepOf
  <2>3. CASE c # a BY <2>1, <2>3 DEF Sound, StepOf, SameTask
  <2>4. QED BY <2>2, <2>3
<1>3. QED BY <1>1, <1>2 DEF Faithful

LEMMA StepKeeps ==
  ASSUME FileAssumption, FileInv, NEW a \in Attempts, StepOf(a), FileTypes', TargetIntact',
         Accounted(a)', PartsFit(a)', Faithful(a)', Filled(a)', Installing(a)',
         FileFits(want[a])', want[a] = ver => Resumable'
  PROVE  FileInv'
<1>1. /\ FileTypes /\ OneWriter /\ Resumable /\ \A v \in Versions : FileFits(v)
      /\ \A b \in Attempts : /\ Accounted(b) /\ PartsFit(b) /\ Faithful(b)
                              /\ Filled(b) /\ Installing(b)
  BY DEF FileInv
<1>2. ver' = ver /\ want' = want BY DEF StepOf
<1>3. OneWriter'
  <2>1. \A b \in Attempts : pc'[b] \in Live => pc[b] \in Live BY DEF StepOf, SameTask
  <2>2. QED BY <1>1, <1>2, <2>1 DEF OneWriter
<1>4. ASSUME NEW v \in Versions PROVE FileFits(v)'
  <2>1. CASE v = want[a] BY <1>2, <2>1 DEF FileFits
  <2>2. CASE v # want[a]
    <3>1. SameFile(v) BY <2>2 DEF StepOf
    <3>2. FileFits(v) BY <1>1
    <3>3. QED BY <1>2, <3>1, <3>2 DEF FileFits, SameFile
  <2>3. QED BY <2>1, <2>2
<1>5. Resumable'
  <2>1. CASE want[a] = ver BY <2>1
  <2>2. CASE want[a] # ver
    <3>1. ver \in Versions BY <1>1 DEF FileTypes
    <3>2. SameFile(ver) BY <2>2, <3>1 DEF StepOf
    <3>3. \A b \in Attempts : Dividing(b) => Dividing(b)'
      BY <1>2, <2>2 DEF StepOf, SameTask, Dividing
    <3>4. QED BY <1>1, <1>2, <3>2, <3>3 DEF Resumable, SameFile, Clean
  <2>3. QED BY <2>1, <2>2
<1>6. ASSUME NEW b \in Attempts, b # a
      PROVE  /\ Accounted(b)' /\ PartsFit(b)' /\ Faithful(b)'
             /\ Filled(b)' /\ Installing(b)'
  <2>1. SameTask(b) /\ status'[b] = status[b] /\ (b \in joining => b \in joining')
    BY <1>6 DEF StepOf
  <2>2. Accounted(b)' BY <1>1, <1>2, <2>1 DEF Accounted, SameTask
  <2>3. PartsFit(b)' BY <1>1, <2>1, PartsFitKept
  <2>4. Faithful(b)' BY <1>1, <2>1, FaithfulKept DEF SameTask
  <2>5. CASE pc[b] \in Live
    <3>1. SameFile(want[b]) \/ Removed(want[b])
      <4>1. CASE want[b] = want[a] BY <1>6, <2>5, <4>1 DEF StepOf
      <4>2. CASE want[b] # want[a]
        <5>1. want[b] \in Versions BY <1>1 DEF FileTypes
        <5>2. QED BY <4>2, <5>1 DEF StepOf
      <4>3. QED BY <4>1, <4>2
    <3>2. Filled(b)' BY <1>1, <1>2, <2>1, <3>1, FilledKept
    <3>3. Installing(b)' BY <1>1, <2>1, <3>1, InstallingKept
    <3>4. QED BY <2>2, <2>3, <2>4, <3>2, <3>3
  <2>6. CASE pc[b] \notin Live
    <3>1. pc'[b] \notin {"copy", "replace"} BY <2>1, <2>6 DEF SameTask, Live
    <3>2. Filled(b)' /\ Installing(b)' BY <3>1 DEF Filled, Installing
    <3>3. QED BY <2>2, <2>3, <2>4, <3>2
  <2>7. QED BY <2>5, <2>6
<1>7. QED BY <1>3, <1>4, <1>5, <1>6 DEF FileInv

(* The parts of FileInv a step of a needs of the state before it.          *)
LEMMA Before ==
  ASSUME FileInv, NEW a \in Attempts
  PROVE  /\ FileTypes /\ OneWriter /\ Resumable /\ TargetIntact
         /\ Accounted(a) /\ PartsFit(a) /\ Faithful(a) /\ Filled(a) /\ Installing(a)
         /\ want[a] \in Versions /\ FileFits(want[a])
<1>1. want[a] \in Versions BY DEF FileInv, FileTypes
<1>2. QED BY <1>1 DEF FileInv

(* A step that ends the task of a.                                         *)
LEMMA EndStep ==
  ASSUME FileAssumption, FileInv, NEW a \in Attempts, StepOf(a), pc'[a] = "ended",
         FileTypes', TargetIntact', status'[a] = "none" => status[a] = "none",
         pc[a] \in Live, flight'[a] = flight[a], FileFits(want[a])', want[a] = ver => Resumable'
  PROVE  FileInv'
<1>1. Accounted(a) /\ Faithful(a) BY Before
<1>2. Accounted(a)' BY <1>1 DEF Accounted, StepOf, Live
<1>3. PartsFit(a)' /\ Filled(a)' /\ Installing(a)' BY DEF PartsFit, Filled, Installing
<1>4. Faithful(a)' BY <1>1, FaithfulKept
<1>5. QED BY <1>2, <1>3, <1>4, StepKeeps

(* A file of which every block is known to be there is the whole source.   *)
LEMMA CleanIsWhole ==
  ASSUME FileAssumption, FileTypes, NEW v \in Versions, Clean(v), Len(staging[v]) = Size
  PROVE  staging[v] = Whole(v)
<1>1. staging[v] \in Seq(Blocks) BY DEF FileTypes, StagingTypes
<1>2. staging[v] \in [1..Size -> Blocks] BY <1>1
<1>3. \A k \in 1..Size : staging[v][k] = v BY <1>2 DEF Clean
<1>4. QED BY <1>2, <1>3 DEF Whole

(* The one attempt at the staging file of the current source knows what is *)
(* in it.                                                                  *)
LEMMA OwnFileClean ==
  ASSUME FileInv, NEW a \in Attempts, pc[a] \in Live, want[a] = ver, ~Dividing(a)
  PROVE  torn[ver] = {} => Clean(ver)
<1>1. \A b \in Attempts : ~Dividing(b)
  <2> SUFFICES ASSUME NEW b \in Attempts, Dividing(b) PROVE FALSE OBVIOUS
  <2>1. pc[b] \in Live /\ want[b] = want[a] BY DEF Dividing, Live
  <2>2. b = a BY <2>1 DEF FileInv, OneWriter
  <2>3. QED BY <2>2
<1>2. QED BY <1>1 DEF FileInv, Resumable

LEMMA EmptyResumable ==
  ASSUME ver' = ver, staging'[ver] = <<>>
  PROVE  Resumable'
  BY DEF Resumable, Clean

LEMMA SameFileResumable ==
  ASSUME ver' = ver, SameFile(ver), Resumable, \A b \in Attempts : Dividing(b) => Dividing(b)'
  PROVE  Resumable'
  BY DEF Resumable, Clean, SameFile

-----------------------------------------------------------------------------
(* What is done to staging files, and to the locals of a task that ends.   *)

LEMMA UnlinkFile ==
  ASSUME FileAssumption, FileTypes, NEW v \in Versions, Unlink(v)
  PROVE  /\ StagingTypes' /\ Removed(v) /\ Len(staging'[v]) = 0 /\ Len(staging'[v]) <= Size
         /\ \A w \in Versions : w # v => SameFile(w)
<1>1. <<>> \in Seq(Blocks) /\ Len(<<>>) = 0 /\ 0 <= Size BY DEF FileAssumption
<1>2. StagingTypes BY DEF FileTypes
<1>3. staging'[v] = <<>> BY <1>2 DEF Unlink, StagingTypes
<1>4. StagingTypes' BY <1>1, <1>2 DEF Unlink, StagingTypes
<1>5. QED BY <1>1, <1>2, <1>3, <1>4 DEF Unlink, Removed, SameFile, StagingTypes

LEMMA LeftFile ==
  ASSUME FileTypes, NEW a \in Attempts, Left(a)
  PROVE  /\ StagingTypes' /\ torn'[want[a]] # {} /\ staging' = staging /\ there' = there
         /\ \A w \in Versions : w # want[a] => SameFile(w)
<1>1. StagingTypes /\ want[a] \in Versions BY DEF FileTypes
<1>2. torn'[want[a]] = torn[want[a]] \cup {"left"} BY <1>1 DEF Left, Tear, StagingTypes
<1>3. StagingTypes' BY <1>1 DEF Left, Tear, StagingTypes, Lapses
<1>4. QED BY <1>1, <1>2, <1>3 DEF Left, Tear, SameFile, StagingTypes

LEMMA EndedIs ==
  ASSUME FileAssumption, FileTypes, NEW ends \in SUBSET Attempts, Ended(ends)
  PROVE  /\ LocalTypes' /\ pc' \in [Attempts -> Live \cup {"none", "ended"}]
         /\ \A a \in ends : pc'[a] = "ended"
         /\ \A b \in Attempts \ ends : /\ pc'[b] = pc[b] /\ base'[b] = base[b]
                                       /\ done'[b] = done[b] /\ lost'[b] = lost[b]
<1>1. LocalTypes /\ pc \in [Attempts -> Live \cup {"none", "ended"}] BY DEF FileTypes
<1>2. 0 \in 0..Size /\ [i \in AllParts |-> 0] \in [AllParts -> Nat] BY DEF FileAssumption
<1>3. base' \in [Attempts -> 0..Size] BY <1>1, <1>2 DEF Ended, LocalTypes
<1>4. done' \in [Attempts -> [AllParts -> Nat]] BY <1>1, <1>2 DEF Ended, LocalTypes
<1>5. /\ lost' \in [Attempts -> SUBSET AllParts] /\ broken' \in [Attempts -> SUBSET AllParts]
      /\ cancel' \in [Attempts -> BOOLEAN]
  BY <1>1 DEF Ended, LocalTypes
<1>6. QED BY <1>1, <1>3, <1>4, <1>5 DEF Ended, LocalTypes

LEMMA EndTaskIs ==
  ASSUME FileAssumption, FileTypes, NEW a \in Attempts,
         EndTask(a, "failed") \/ EndTask(a, "completed")
  PROVE  /\ LocalTypes' /\ pc' \in [Attempts -> Live \cup {"none", "ended"}]
         /\ status' \in [Attempts -> Statuses] /\ pc'[a] = "ended"
         /\ status'[a] = "none" => status[a] = "none"
         /\ \A b \in Attempts \ {a} : /\ pc'[b] = pc[b] /\ base'[b] = base[b]
                                       /\ done'[b] = done[b] /\ lost'[b] = lost[b]
                                       /\ status'[b] = status[b]
<1>1. Ended({a}) /\ {a} \in SUBSET Attempts BY DEF EndTask
<1>2. status \in [Attempts -> Statuses] BY DEF FileTypes
<1>3. /\ status' \in [Attempts -> Statuses] /\ \A b \in Attempts \ {a} : status'[b] = status[b]
      /\ status'[a] = "none" => status[a] = "none"
  BY <1>2 DEF EndTask, Statuses
<1>4. QED BY <1>1, <1>3, EndedIs

-----------------------------------------------------------------------------
(* The initial state and the start of an attempt.                          *)

LEMMA InitHolds ==
  ASSUME FileAssumption, Init
  PROVE  FileInv
<1>1. FileTypes
  <2>1. 1 \in Versions /\ 0 \in 0..Size BY DEF Versions, FileAssumption
  <2>2. <<>> \in Seq(Blocks) /\ <<>> \in Seq(Writes) OBVIOUS
  <2>3. [i \in AllParts |-> 0] \in [AllParts -> Nat]
        /\ [i \in AllParts |-> <<>>] \in [AllParts -> Seq(Writes)]
    BY <2>2
  <2>4. StagingTypes BY <2>2 DEF Init, StagingTypes
  <2>5. LocalTypes BY <2>1, <2>3 DEF Init, LocalTypes
  <2>6. QED BY <2>1, <2>3, <2>4, <2>5 DEF Init, FileTypes, Statuses
<1>2. OneWriter BY DEF Init, OneWriter, Live
<1>3. \A v \in Versions : staging[v] = <<>> /\ FileFits(v)
  <2>1. Len(<<>>) = 0 /\ 0 <= Size BY DEF FileAssumption
  <2>2. QED BY <2>1 DEF Init, FileFits
<1>4. Resumable BY <1>1, <1>3 DEF Resumable, Clean, FileTypes
<1>5. TargetIntact BY DEF Init, TargetIntact, Intact
<1>6. ASSUME NEW a \in Attempts
      PROVE  Accounted(a) /\ PartsFit(a) /\ Faithful(a) /\ Filled(a) /\ Installing(a)
  <2>1. Accounted(a) /\ Filled(a) /\ Installing(a)
    BY DEF Init, Accounted, Filled, Installing, Live
  <2>2. PartsFit(a) BY DEF Init, PartsFit
  <2>3. Faithful(a)
    <3>1. \A i \in AllParts : 1..Len(flight[a][i]) = {} BY DEF Init
    <3>2. QED BY <3>1 DEF Faithful
  <2>4. QED BY <2>1, <2>2, <2>3
<1>7. QED BY <1>1, <1>2, <1>3, <1>4, <1>5, <1>6 DEF FileInv

(* An attempt that starts finds no other at the same staging file: that    *)
(* one would be active, or a cancel would wait for it.                     *)
LEMMA StartStep ==
  ASSUME FileAssumption, ~EarlyRetry, FileInv, NEW a \in Attempts, NEW again \in BOOLEAN,
         Start(a, again)
  PROVE  FileInv'
<1>1. /\ FileTypes /\ OneWriter /\ Resumable /\ TargetIntact /\ \A v \in Versions : FileFits(v)
      /\ \A b \in Attempts : /\ Accounted(b) /\ PartsFit(b) /\ Faithful(b)
                              /\ Filled(b) /\ Installing(b)
  BY DEF FileInv
<1>2. /\ status[a] = "none" /\ joining = {}
      /\ \A b \in Attempts : want[b] = ver => status[b] # "active"
      /\ status' = [status EXCEPT ![a] = "active"]
      /\ pc' = [pc EXCEPT ![a] = "prepare"]
      /\ want' = [want EXCEPT ![a] = ver] /\ resume' = [resume EXCEPT ![a] = again]
      /\ parts' = [parts EXCEPT ![a] = IF again \/ ~large THEN 1 ELSE Parts]
      /\ UNCHANGED <<kind, ver, files, handle, flight, locals, joining, faults>>
  BY DEF Start
<1>3. /\ status'[a] = "active" /\ pc'[a] = "prepare" /\ want'[a] = ver /\ parts'[a] \in {1, Parts}
      /\ pc[a] = "none"
  BY <1>1, <1>2 DEF FileTypes, Accounted
<1>4. /\ staging' = staging /\ there' = there /\ inode' = inode /\ torn' = torn
      /\ target' = target /\ spoiled' = spoiled /\ ver' = ver /\ flight' = flight
      /\ done' = done /\ lost' = lost
  BY <1>2 DEF files, stagings, locals
<1>5. \A b \in Attempts \ {a} : SameTask(b) /\ status'[b] = status[b]
  BY <1>1, <1>2 DEF SameTask, FileTypes, locals
<1>6. FileTypes'
  <2>1. StagingTypes' /\ LocalTypes'
    BY <1>1, <1>2 DEF FileTypes, StagingTypes, LocalTypes, files, stagings, locals
  <2>2. QED BY <1>1, <1>2, <1>3, <2>1 DEF FileTypes, kind, Statuses, Live
<1>7. ASSUME NEW b \in Attempts \ {a}, pc[b] \in Live PROVE want[b] # ver
  <2>1. status[b] = "active" BY <1>1, <1>2, <1>7 DEF Accounted
  <2>2. QED BY <1>2, <2>1
<1>8. OneWriter'
  <2> SUFFICES ASSUME NEW b \in Attempts, NEW c \in Attempts, pc'[b] \in Live, pc'[c] \in Live,
                      want'[b] = want'[c]
               PROVE  b = c
    BY DEF OneWriter
  <2>1. CASE b # a /\ c # a
    <3>1. pc[b] \in Live /\ pc[c] \in Live /\ want[b] = want[c]
      BY <1>5, <2>1 DEF SameTask
    <3>2. QED BY <1>1, <3>1 DEF OneWriter
  <2>2. CASE b = a /\ c # a BY <1>3, <1>5, <1>7, <2>2 DEF SameTask
  <2>3. CASE b # a /\ c = a BY <1>3, <1>5, <1>7, <2>3 DEF SameTask
  <2>4. QED BY <2>1, <2>2, <2>3
<1>9. \A v \in Versions : FileFits(v)' BY <1>1, <1>4 DEF FileFits
<1>10. Resumable'
  <2>1. \A b \in Attempts : Dividing(b) => Dividing(b)'
    BY <1>3, <1>4, <1>5 DEF Dividing, SameTask
  <2>2. QED BY <1>1, <1>4, <2>1 DEF Resumable, Clean
<1>11. TargetIntact' BY <1>1, <1>4, TargetKept
<1>12. ASSUME NEW b \in Attempts, b # a
       PROVE  /\ Accounted(b)' /\ PartsFit(b)' /\ Faithful(b)'
              /\ Filled(b)' /\ Installing(b)'
  <2>1. SameTask(b) /\ status'[b] = status[b] /\ SameFile(want[b]) BY <1>4, <1>5, <1>12 DEF SameFile
  <2>2. Accounted(b)' BY <1>1, <1>2, <1>4, <2>1 DEF Accounted, SameTask
  <2>3. PartsFit(b)' BY <1>1, <2>1, PartsFitKept
  <2>4. Faithful(b)'
    <3>1. \A c \in Attempts : pc'[c] = "replace" => pc[c] = "replace" /\ want'[c] = want[c]
      BY <1>3, <1>5 DEF SameTask
    <3>2. Sound(want[b])' => Sound(want[b]) BY <1>4, <2>1, <3>1 DEF Sound, SameTask
    <3>3. QED BY <1>1, <1>4, <2>1, <3>2 DEF Faithful, SameTask
  <2>5. Filled(b)' BY <1>1, <1>4, <2>1, FilledKept
  <2>6. Installing(b)' BY <1>1, <2>1, InstallingKept
  <2>7. QED BY <2>2, <2>3, <2>4, <2>5, <2>6
<1>13. Accounted(a)'
  <2>1. ver \in Nat BY <1>1 DEF FileTypes, Versions
  <2>2. QED BY <1>3, <1>4, <2>1 DEF Accounted
<1>14. PartsFit(a)' /\ Faithful(a)'
  <2>1. \A i \in AllParts : flight'[a][i] = <<>> BY <1>1, <1>3, <1>4 DEF PartsFit
  <2>2. \A i \in AllParts : 1..Len(flight'[a][i]) = {} BY <2>1
  <2>3. Faithful(a)' BY <2>2 DEF Faithful
  <2>4. PartsFit(a)' BY <1>1, <1>3, <1>4 DEF PartsFit
  <2>5. QED BY <2>3, <2>4
<1>15. Filled(a)' /\ Installing(a)' BY <1>3 DEF Filled, Installing
<1>16. QED
  BY <1>6, <1>8, <1>9, <1>10, <1>11, <1>12, <1>13, <1>14, <1>15 DEF FileInv

-----------------------------------------------------------------------------
(* The steps of an attempt.                                                *)

LEMMA PrepareStep ==
  ASSUME FileAssumption, FileInv, NEW a \in Attempts, Prepare(a)
  PROVE  FileInv'
<1> DEFINE v == want[a]
<1>1. FileTypes /\ Resumable /\ TargetIntact /\ Accounted(a) /\ PartsFit(a) /\ Faithful(a)
      /\ v \in Versions /\ FileFits(v)
  BY Before
<1>2. /\ pc[a] = "prepare" /\ pc[a] \in Live /\ ver = v /\ pc' = [pc EXCEPT ![a] = "open"]
      /\ UNCHANGED <<kind, ver, target, spoiled, status, want, resume, parts, handle, flight, done,
                     lost, broken, cancel, joining, faults>>
  BY DEF Prepare, Live
<1>3. pc'[a] = "open" BY <1>1, <1>2 DEF FileTypes
<1>4. /\ StagingTypes' /\ base' \in [Attempts -> 0..Size]
      /\ \A b \in Attempts \ {a} : base'[b] = base[b]
      /\ (SameFile(v) \/ Removed(v)) /\ \A w \in Versions : w # v => SameFile(w)
  <2>1. CASE UNCHANGED stagings /\ Len(staging[v]) <= Size
             /\ base' = [base EXCEPT ![a] = Len(staging[v])]
    <3>1. Len(staging[v]) \in 0..Size
      <4>1. staging[v] \in Seq(Blocks) /\ Size \in Nat
        BY <1>1 DEF FileTypes, StagingTypes, FileAssumption
      <4>2. QED BY <2>1, <4>1
    <3>2. QED BY <1>1, <2>1, <3>1 DEF FileTypes, LocalTypes, StagingTypes, stagings, SameFile
  <2>2. CASE Unlink(v) /\ base' = [base EXCEPT ![a] = 0]
    <3>1. 0 \in 0..Size BY DEF FileAssumption
    <3>2. QED BY <1>1, <2>2, <3>1, UnlinkFile DEF FileTypes, LocalTypes
  <2>3. QED BY <2>1, <2>2 DEF Prepare
<1>5. FileTypes' BY <1>1, <1>2, <1>4 DEF FileTypes, LocalTypes, Live, kind
<1>6. StepOf(a) BY <1>1, <1>2, <1>3, <1>4 DEF StepOf, SameTask, FileTypes
<1>7. Accounted(a)' BY <1>1, <1>2, <1>3 DEF Accounted
<1>8. PartsFit(a)' BY <1>1, <1>2, <1>3 DEF PartsFit
<1>9. Faithful(a)' BY <1>1, <1>2, <1>6, FaithfulKept
<1>10. Filled(a)' /\ Installing(a)' BY <1>3 DEF Filled, Installing
<1>11. FileFits(v)' /\ Resumable'
  <2>1. CASE SameFile(v)
    <3>1. \A b \in Attempts : Dividing(b) => Dividing(b)'
      BY <1>2, <1>6 DEF Dividing, StepOf, SameTask
    <3>2. QED BY <1>1, <1>2, <2>1, <3>1, SameFileResumable DEF FileFits, SameFile
  <2>2. CASE Removed(v)
    <3>1. Len(<<>>) = 0 /\ 0 <= Size BY DEF FileAssumption
    <3>2. QED BY <1>2, <2>2, <3>1, EmptyResumable DEF FileFits, Removed
  <2>3. QED BY <1>4, <2>1, <2>2
<1>12. TargetIntact' BY <1>1, <1>2, TargetKept
<1>13. FileFits(want[a])' BY <1>2, <1>11 DEF FileFits
<1>14. QED BY <1>5, <1>6, <1>7, <1>8, <1>9, <1>10, <1>11, <1>12, <1>13, StepKeeps

LEMMA OpenStep ==
  ASSUME FileAssumption, FileInv, NEW a \in Attempts, Open(a)
  PROVE  FileInv'
<1> DEFINE v == want[a]
           n == IF parts[a] > 1 /\ ~upload THEN Size ELSE 0
           f == SetLen(<<>>, n)
<1>1. FileTypes /\ OneWriter /\ TargetIntact /\ Accounted(a) /\ PartsFit(a) /\ Faithful(a)
      /\ v \in Versions /\ FileFits(v)
  BY Before
<1>2. /\ pc[a] = "open" /\ pc[a] \in Live /\ pc' = [pc EXCEPT ![a] = "copy"]
      /\ there' = there \cup {v}
      /\ inode' = [inode EXCEPT ![v] = IF v \in there THEN @ ELSE @ + 1]
      /\ handle' = [handle EXCEPT ![a] = inode'[v]]
      /\ \/ base[a] > 0 /\ UNCHANGED <<staging, torn>>
         \/ staging' = [staging EXCEPT ![v] = f] /\ torn' = [torn EXCEPT ![v] = {}]
      /\ UNCHANGED <<kind, ver, target, spoiled, status, want, resume, parts, flight, locals,
                     joining, faults>>
  BY DEF Open, Live
<1>3. /\ f \in Seq(Blocks) /\ Len(f) <= Size /\ (parts[a] = 1 => Len(f) = 0)
      /\ DOMAIN f = 1..Len(f)
  <2>1. n \in Nat /\ n <= Size /\ (parts[a] = 1 => n = 0) BY DEF FileAssumption
  <2>2. <<>> \in Seq(Blocks) OBVIOUS
  <2> HIDE DEF n
  <2>3. QED BY <2>1, <2>2, SetLenIs
<1> HIDE DEF f
<1>4. StagingTypes /\ LocalTypes BY <1>1 DEF FileTypes
<1>5. pc'[a] = "copy" /\ handle'[a] = inode'[v] BY <1>1, <1>2 DEF FileTypes
<1>6. /\ inode' \in [Versions -> Nat] /\ there' \in SUBSET Versions /\ v \in there'
      /\ \A w \in Versions : w # v => inode'[w] = inode[w] /\ (w \in there' <=> w \in there)
  BY <1>1, <1>2, <1>4 DEF StagingTypes
<1>7. /\ staging' \in [Versions -> Seq(Blocks)] /\ torn' \in [Versions -> SUBSET Lapses]
      /\ \A w \in Versions : w # v => staging'[w] = staging[w] /\ torn'[w] = torn[w]
      /\ \/ staging'[v] = staging[v] /\ torn'[v] = torn[v]
         \/ staging'[v] = f
  BY <1>1, <1>2, <1>3, <1>4 DEF StagingTypes
<1>8. FileTypes'
  <2>1. StagingTypes' BY <1>6, <1>7 DEF StagingTypes
  <2>2. handle' \in [Attempts -> Nat] BY <1>1, <1>2, <1>6 DEF FileTypes
  <2>3. LocalTypes' BY <1>2, <1>4 DEF LocalTypes, locals
  <2>4. QED BY <1>1, <1>2, <2>1, <2>2, <2>3 DEF FileTypes, Live, kind
<1>9. StepOf(a)
  <2>1. \A b \in Attempts \ {a} : ~(pc[b] \in Live /\ want[b] = want[a])
    BY <1>1, <1>2 DEF OneWriter
  <2>2. \A b \in Attempts \ {a} :
          SameTask(b) /\ status'[b] = status[b] /\ (b \in joining => b \in joining')
    BY <1>1, <1>2 DEF SameTask, FileTypes, locals
  <2>3. \A w \in Versions : w # v => SameFile(w) BY <1>6, <1>7 DEF SameFile
  <2>4. QED BY <1>2, <1>5, <2>1, <2>2, <2>3 DEF StepOf
<1>10. Accounted(a)' BY <1>1, <1>2, <1>5 DEF Accounted
<1>11. lost[a] = {} /\ \A i \in AllParts : done[a][i] = 0 BY <1>1, <1>2 DEF PartsFit
<1>12. PartsOf(a) \subseteq AllParts /\ Divided(a)
  BY <1>1, <1>4 DEF FileTypes, LocalTypes, PartsOf, AllParts, Divided, FileAssumption
<1>13. /\ PartsOf(a)' = PartsOf(a) /\ \A i : PartRange(a, i)' = PartRange(a, i)
       /\ done' = done /\ lost' = lost /\ flight' = flight
  BY <1>2, SameRange DEF locals
<1>14. PartsFit(a)'
  <2>1. \A i \in PartsOf(a) : PartRange(a, i).len \in Nat BY <1>12, RangeFits
  <2>2. \A i \in PartsOf(a) : done[a][i] <= PartRange(a, i).len BY <1>11, <1>12, <2>1
  <2>3. QED BY <1>5, <1>13, <2>2 DEF PartsFit
<1>15. Faithful(a)' BY <1>1, <1>9, <1>13, FaithfulKept
<1>16. Filled(a)'
  <2>1. \A i \in PartsOf(a) : 1..done[a][i] = {} BY <1>11, <1>12
  <2>2. QED BY <1>2, <1>5, <1>13, <2>1 DEF Filled
<1>17. Installing(a)' BY <1>5 DEF Installing
<1>18. FileFits(want[a])'
  <2>1. v <= ver /\ v \in Nat /\ ver \in Nat BY <1>1 DEF Accounted, FileTypes, Versions
  <2>2. ~(v > ver) BY <2>1
  <2>3. Len(staging'[v]) <= Size BY <1>1, <1>3, <1>7 DEF FileFits
  <2>4. QED BY <1>2, <1>6, <2>2, <2>3 DEF FileFits
<1>19. TargetIntact' BY <1>1, <1>2, TargetKept
<1>20. ASSUME want[a] = ver PROVE Resumable'
  <2> SUFFICES ASSUME torn'[ver] = {}, ~Dividing(a)' PROVE Clean(ver)'
    BY <1>2 DEF Resumable
  <2>1. parts[a] = 1
    BY <1>2, <1>5, <1>1, <1>20 DEF Dividing, FileTypes, FileAssumption
  <2>2. CASE staging'[v] = staging[v] /\ torn'[v] = torn[v]
    <3>1. torn[ver] = {} => Clean(ver) BY <1>2, <1>20, OwnFileClean DEF Dividing
    <3>2. QED BY <1>2, <1>20, <2>2, <3>1 DEF Clean
  <2>3. CASE staging'[v] = f
    <3>1. DOMAIN f = {} BY <1>3, <2>1
    <3>2. QED BY <1>2, <1>20, <2>3, <3>1 DEF Clean
  <2>4. QED BY <1>7, <2>2, <2>3
<1>21. QED
  BY <1>8, <1>9, <1>10, <1>14, <1>15, <1>16, <1>17, <1>18, <1>19, <1>20, StepKeeps

(* The queue of a part: a block joins it at the end and leaves it in front. *)
LEMMA Queued ==
  ASSUME NEW q \in Seq(Writes), NEW w \in Writes
  PROVE  /\ Append(q, w) \in Seq(Writes) /\ Len(Append(q, w)) = Len(q) + 1
         /\ Append(q, w)[Len(q) + 1] = w /\ \A j \in 1..Len(q) : Append(q, w)[j] = q[j]
  OBVIOUS

LEMMA Unqueued ==
  ASSUME NEW q \in Seq(Writes), q # <<>>
  PROVE  /\ Head(q) = q[1] /\ Head(q) \in Writes /\ 1 \in 1..Len(q)
         /\ Tail(q) \in Seq(Writes) /\ Len(Tail(q)) = Len(q) - 1 /\ Len(q) \in Nat
         /\ \A j \in 1..Len(Tail(q)) : j + 1 \in 1..Len(q) /\ Tail(q)[j] = q[j + 1]
  OBVIOUS

LEMMA PartWriteStep ==
  ASSUME FileAssumption, FileInv, NEW a \in Attempts, NEW i \in AllParts, PartWrite(a, i)
  PROVE  FileInv'
<1> DEFINE v == want[a]
           p == PartRange(a, i).start + done[a][i] + 1
           w == [at |-> p, block |-> ver]
           q == flight[a][i]
<1>1. /\ FileTypes /\ OneWriter /\ Resumable /\ TargetIntact /\ Accounted(a) /\ PartsFit(a)
      /\ Faithful(a) /\ Filled(a) /\ v \in Versions /\ FileFits(v)
  BY Before
<1>2. /\ pc[a] = "copy" /\ pc[a] \in Live /\ i \in PartsOf(a) /\ ~Finished(a, i)
      /\ flight' = [flight EXCEPT ![a][i] = Append(q, w)]
      /\ done' = [done EXCEPT ![a][i] = @ + 1]
      /\ UNCHANGED <<kind, ver, files, status, pc, want, resume, parts, base, handle, lost, broken,
                     cancel, joining, faults>>
  BY DEF PartWrite, Live
<1>3. StagingTypes /\ LocalTypes /\ ver \in Versions BY <1>1 DEF FileTypes
<1>4. Divided(a) /\ PartsOf(a) \subseteq AllParts
  BY <1>1, <1>3 DEF FileTypes, LocalTypes, PartsOf, AllParts, Divided, FileAssumption
<1>5. \A j \in PartsOf(a) : /\ PartRange(a, j).start \in Nat /\ PartRange(a, j).len \in Nat
                            /\ PartRange(a, j).start + PartRange(a, j).len <= Size
                            /\ done[a][j] \in Nat /\ done[a][j] <= PartRange(a, j).len
  BY <1>1, <1>2, <1>3, <1>4, RangeFits DEF LocalTypes, PartsFit
<1>6. done[a][i] + 1 <= PartRange(a, i).len /\ p \in 1..Size
  BY <1>2, <1>5 DEF Finished, FileAssumption
<1>7. w \in Writes BY <1>3, <1>6 DEF Writes
<1>8. q \in Seq(Writes) BY <1>1 DEF FileTypes
<1>9. w.at = p /\ w.block = ver OBVIOUS
<1> HIDE DEF w, p
<1>10. /\ Append(q, w) \in Seq(Writes) /\ Len(Append(q, w)) = Len(q) + 1
       /\ Append(q, w)[Len(q) + 1] = w /\ \A j \in 1..Len(q) : Append(q, w)[j] = q[j]
       /\ Len(q) \in Nat
  BY <1>7, <1>8, Queued
<1>11. /\ flight' \in [Attempts -> [AllParts -> Seq(Writes)]] /\ flight'[a][i] = Append(q, w)
       /\ \A j \in AllParts \ {i} : flight'[a][j] = flight[a][j]
       /\ \A b \in Attempts \ {a} : flight'[b] = flight[b]
  BY <1>1, <1>2, <1>10 DEF FileTypes
<1>12. /\ done' \in [Attempts -> [AllParts -> Nat]] /\ done'[a][i] = done[a][i] + 1
       /\ \A j \in AllParts \ {i} : done'[a][j] = done[a][j]
       /\ \A b \in Attempts \ {a} : done'[b] = done[b]
  BY <1>2, <1>3 DEF LocalTypes
<1>13. staging' = staging /\ there' = there /\ inode' = inode /\ torn' = torn
       /\ target' = target /\ spoiled' = spoiled
  BY <1>2 DEF files, stagings
<1>14. FileTypes'
  <2>1. StagingTypes' BY <1>3, <1>13 DEF StagingTypes
  <2>2. LocalTypes' BY <1>2, <1>3, <1>12 DEF LocalTypes
  <2>3. QED BY <1>1, <1>2, <1>11, <2>1, <2>2 DEF FileTypes, kind
<1>15. StepOf(a)
  BY <1>2, <1>11, <1>12, <1>13 DEF StepOf, SameTask, SameFile
<1>16. /\ PartsOf(a)' = PartsOf(a) /\ \A j : PartRange(a, j)' = PartRange(a, j)
  BY <1>2, SameRange
<1>17. Accounted(a)' BY <1>1, <1>2 DEF Accounted
<1>18. PartsFit(a)'
  <2>1. \A j \in PartsOf(a) : done'[a][j] <= PartRange(a, j).len
    BY <1>4, <1>5, <1>6, <1>12
  <2>2. QED BY <1>2, <1>16, <2>1 DEF PartsFit
<1>19. Faithful(a)'
  <2> SUFFICES ASSUME Sound(v), NEW k \in AllParts, NEW j \in 1..Len(flight'[a][k])
               PROVE  flight'[a][k][j].block = v
    BY <1>2 DEF Faithful, Sound
  <2>1. CASE k # i \/ j <= Len(q)
    <3>1. j \in 1..Len(flight[a][k]) /\ flight'[a][k][j] = flight[a][k][j]
      BY <1>10, <1>11, <2>1
    <3>2. QED BY <1>1, <3>1 DEF Faithful
  <2>2. CASE k = i /\ ~(j <= Len(q))
    <3>1. flight'[a][k][j] = w BY <1>10, <1>11, <2>2
    <3>2. v = ver BY <1>1, <1>2 DEF Sound, OneWriter, Live
    <3>3. QED BY <1>9, <3>1, <3>2
  <2>3. QED BY <2>1, <2>2
<1>20. Filled(a)'
  <2>1. handle'[a] = inode'[v] BY <1>1, <1>2, <1>13 DEF Filled
  <2>2. ASSUME Dividing(a)', v \in there', NEW j \in PartsOf(a) \ lost[a],
               NEW k \in 1..done'[a][j]
        PROVE  InFile(a, PartRange(a, j).start + k)' \/ OnItsWay(a, j, PartRange(a, j).start + k)'
    <3>1. Dividing(a) BY <1>2, <2>2 DEF Dividing
    <3>2. CASE k \in 1..done[a][j]
      <4>1. InFile(a, PartRange(a, j).start + k) \/ OnItsWay(a, j, PartRange(a, j).start + k)
        BY <1>1, <1>2, <1>13, <2>2, <3>1, <3>2 DEF Filled
      <4>2. CASE InFile(a, PartRange(a, j).start + k)
        BY <1>2, <1>13, <1>16, <4>2 DEF InFile
      <4>3. CASE OnItsWay(a, j, PartRange(a, j).start + k)
        <5>1. PICK l \in 1..Len(flight[a][j]) : flight[a][j][l].at = PartRange(a, j).start + k
          BY <4>3 DEF OnItsWay
        <5>2. j \in AllParts BY <1>4, <2>2
        <5>3. l \in 1..Len(flight'[a][j]) /\ flight'[a][j][l] = flight[a][j][l]
          <6>1. CASE j = i
            <7>1. l \in 1..Len(q) /\ flight'[a][j] = Append(q, w) BY <1>11, <5>1, <6>1
            <7>2. l \in 1..(Len(q) + 1) /\ Append(q, w)[l] = q[l] BY <1>10, <7>1
            <7>3. QED BY <1>10, <6>1, <7>1, <7>2
          <6>2. CASE j # i BY <1>11, <5>1, <5>2, <6>2
          <6>3. QED BY <6>1, <6>2
        <5>4. QED BY <1>16, <5>1, <5>3 DEF OnItsWay
      <4>4. QED BY <4>1, <4>2, <4>3
    <3>3. CASE k \notin 1..done[a][j]
      <4>0. j \in AllParts /\ done[a][j] \in Nat BY <1>4, <1>5, <2>2
      <4>1. j = i /\ k = done[a][i] + 1
        <5>1. CASE j = i
          <6>1. k \in 1..(done[a][i] + 1) BY <1>12, <2>2, <5>1
          <6>2. k \notin 1..done[a][i] /\ done[a][i] \in Nat BY <3>3, <4>0, <5>1
          <6>3. QED BY <5>1, <6>1, <6>2
        <5>2. ASSUME j # i PROVE FALSE
          <6>1. j \in AllParts \ {i} BY <4>0, <5>2
          <6>2. done'[a][j] = done[a][j] BY <1>12, <6>1
          <6>3. QED BY <2>2, <3>3, <6>2
        <5>3. QED BY <5>1, <5>2
      <4>2. flight'[a][j][Len(q) + 1] = w /\ Len(q) + 1 \in 1..Len(flight'[a][j])
        BY <1>10, <1>11, <4>1
      <4>3. w.at = PartRange(a, j).start + k BY <1>5, <1>9, <1>2, <4>1 DEF p
      <4>4. QED BY <1>16, <4>2, <4>3 DEF OnItsWay
    <3>4. QED BY <3>2, <3>3
  <2>3. QED BY <1>2, <1>16, <2>1, <2>2 DEF Filled
<1>21. Installing(a)' BY <1>2 DEF Installing
<1>22. FileFits(want[a])' BY <1>1, <1>2, <1>13 DEF FileFits
<1>23. Resumable' BY <1>1, <1>2, <1>13 DEF Resumable, Dividing, Clean
<1>24. TargetIntact' BY <1>1, <1>13, TargetKept
<1>25. QED
  BY <1>14, <1>15, <1>17, <1>18, <1>19, <1>20, <1>21, <1>22, <1>23, <1>24, StepKeeps

LEMMA WriteLostStep ==
  ASSUME FileAssumption, FileInv, NEW a \in Attempts, NEW i \in AllParts, WriteLost(a, i)
  PROVE  FileInv'
<1> DEFINE v == want[a]
           q == flight[a][i]
<1>1. /\ FileTypes /\ Resumable /\ TargetIntact /\ Accounted(a) /\ PartsFit(a)
      /\ Faithful(a) /\ Filled(a) /\ Installing(a) /\ v \in Versions /\ FileFits(v)
  BY Before
<1>2. /\ q # <<>> /\ flight' = [flight EXCEPT ![a][i] = Tail(q)] /\ faults' = faults + 1
      /\ lost' = [lost EXCEPT ![a] = IF pc[a] = "copy" THEN @ \cup {i} ELSE @]
      /\ UNCHANGED <<kind, ver, files, status, pc, want, resume, parts, base, handle, done, broken,
                     cancel, joining>>
  BY DEF WriteLost, Fault
<1>3. StagingTypes /\ LocalTypes /\ q \in Seq(Writes) BY <1>1 DEF FileTypes
<1>4. /\ Tail(q) \in Seq(Writes)
      /\ \A j \in 1..Len(Tail(q)) : j + 1 \in 1..Len(q) /\ Tail(q)[j] = q[j + 1]
  BY <1>2, <1>3, Unqueued
<1>5. /\ flight' \in [Attempts -> [AllParts -> Seq(Writes)]] /\ flight'[a][i] = Tail(q)
      /\ \A j \in AllParts \ {i} : flight'[a][j] = flight[a][j]
      /\ \A b \in Attempts \ {a} : flight'[b] = flight[b]
  BY <1>1, <1>2, <1>4 DEF FileTypes
<1>6. /\ lost' \in [Attempts -> SUBSET AllParts] /\ lost[a] \subseteq lost'[a]
      /\ (pc[a] = "copy" => i \in lost'[a]) /\ (pc[a] # "copy" => lost'[a] = lost[a])
      /\ \A b \in Attempts \ {a} : lost'[b] = lost[b]
  BY <1>2, <1>3 DEF LocalTypes
<1>7. staging' = staging /\ there' = there /\ inode' = inode /\ torn' = torn
      /\ target' = target /\ spoiled' = spoiled
  BY <1>2 DEF files, stagings
<1>8. FileTypes'
  <2>1. StagingTypes' /\ LocalTypes' BY <1>2, <1>3, <1>6, <1>7 DEF StagingTypes, LocalTypes
  <2>2. QED BY <1>1, <1>2, <1>5, <2>1 DEF FileTypes, kind
<1>9. StepOf(a) BY <1>2, <1>5, <1>6, <1>7 DEF StepOf, SameTask, SameFile
<1>10. /\ PartsOf(a)' = PartsOf(a) /\ \A j : PartRange(a, j)' = PartRange(a, j)
  BY <1>2, SameRange
<1>11. Accounted(a)' BY <1>1, <1>2 DEF Accounted
<1>12. PartsFit(a)'
  <2>1. pc[a] \notin {"none", "prepare", "open"} BY <1>1, <1>2 DEF PartsFit
  <2>2. QED BY <1>1, <1>2, <1>10, <2>1 DEF PartsFit
<1>13. Faithful(a)'
  <2> SUFFICES ASSUME Sound(v), NEW k \in AllParts, NEW j \in 1..Len(flight'[a][k])
               PROVE  flight'[a][k][j].block = v
    BY <1>2 DEF Faithful, Sound
  <2>1. CASE k = i
    <3>1. flight'[a][k][j] = q[j + 1] /\ j + 1 \in 1..Len(q) BY <1>4, <1>5, <2>1
    <3>2. q[j + 1].block = v BY <1>1, <3>1 DEF Faithful
    <3>3. QED BY <3>1, <3>2
  <2>2. CASE k # i BY <1>1, <1>5, <2>2 DEF Faithful
  <2>3. QED BY <2>1, <2>2
<1>14. Filled(a)'
  <2>1. ASSUME pc[a] = "copy", Dividing(a)', v \in there', NEW j \in PartsOf(a) \ lost'[a],
               NEW k \in 1..done[a][j]
        PROVE  InFile(a, PartRange(a, j).start + k)' \/ OnItsWay(a, j, PartRange(a, j).start + k)'
    <3>1. Dividing(a) /\ j \in PartsOf(a) \ lost[a] /\ j # i BY <1>2, <1>6, <2>1 DEF Dividing
    <3>2. InFile(a, PartRange(a, j).start + k) \/ OnItsWay(a, j, PartRange(a, j).start + k)
      BY <1>1, <1>7, <2>1, <3>1 DEF Filled
    <3>3. j \in AllParts
      <4>1. parts[a] \in {1, Parts} BY <1>1 DEF FileTypes
      <4>2. PartsOf(a) \subseteq AllParts BY <4>1 DEF PartsOf, AllParts, FileAssumption
      <4>3. QED BY <3>1, <4>2
    <3>4. flight'[a][j] = flight[a][j] BY <1>5, <3>1, <3>3
    <3>5. QED BY <1>2, <1>7, <1>10, <3>2, <3>4 DEF InFile, OnItsWay
  <2>2. QED BY <1>1, <1>2, <1>7, <1>10, <2>1 DEF Filled
<1>15. Installing(a)' BY <1>1, <1>2, <1>7 DEF Installing, Whole
<1>16. FileFits(want[a])' BY <1>1, <1>2, <1>7 DEF FileFits
<1>17. Resumable' BY <1>1, <1>2, <1>7 DEF Resumable, Dividing, Clean
<1>18. TargetIntact' BY <1>1, <1>7, TargetKept
<1>19. QED
  BY <1>8, <1>9, <1>11, <1>12, <1>13, <1>14, <1>15, <1>16, <1>17, <1>18, StepKeeps

LEMMA PartErrorStep ==
  ASSUME FileAssumption, FileInv, NEW a \in Attempts, NEW i \in AllParts, PartError(a, i)
  PROVE  FileInv'
<1>1. /\ FileTypes /\ Resumable /\ TargetIntact /\ Accounted(a) /\ PartsFit(a)
      /\ Faithful(a) /\ Filled(a) /\ Installing(a) /\ want[a] \in Versions /\ FileFits(want[a])
  BY Before
<1>2. /\ broken' = [broken EXCEPT ![a] = @ \cup {i}]
      /\ cancel' = [cancel EXCEPT ![a] = @ \/ parts[a] > 1]
      /\ UNCHANGED <<kind, ver, files, status, pc, want, resume, parts, base, handle, flight, done,
                     lost, joining, faults>>
  BY DEF PartError
<1>3. staging' = staging /\ there' = there /\ inode' = inode /\ torn' = torn
      /\ target' = target /\ spoiled' = spoiled
  BY <1>2 DEF files, stagings
<1>4. FileTypes'
  <2>1. StagingTypes /\ LocalTypes BY <1>1 DEF FileTypes
  <2>2. broken' \in [Attempts -> SUBSET AllParts] BY <1>2, <2>1 DEF LocalTypes
  <2>3. cancel' \in [Attempts -> BOOLEAN] BY <1>2, <2>1 DEF LocalTypes
  <2>4. StagingTypes' /\ LocalTypes'
    BY <1>2, <1>3, <2>1, <2>2, <2>3 DEF StagingTypes, LocalTypes
  <2>5. QED BY <1>1, <1>2, <2>4 DEF FileTypes, kind
<1>5. StepOf(a) BY <1>2, <1>3 DEF StepOf, SameTask, SameFile
<1>6. SameTask(a) /\ SameFile(want[a]) BY <1>2, <1>3 DEF SameTask, SameFile
<1>7. Accounted(a)' BY <1>1, <1>2 DEF Accounted
<1>8. PartsFit(a)' /\ Faithful(a)' /\ Filled(a)' /\ Installing(a)'
  BY <1>1, <1>2, <1>5, <1>6, PartsFitKept, FaithfulKept, FilledKept, InstallingKept
<1>9. FileFits(want[a])' BY <1>1, <1>2, <1>3 DEF FileFits
<1>10. Resumable' BY <1>1, <1>2, <1>3 DEF Resumable, Dividing, Clean
<1>11. TargetIntact' BY <1>1, <1>3, TargetKept
<1>12. QED BY <1>4, <1>5, <1>7, <1>8, <1>9, <1>10, <1>11, StepKeeps

(* A block that lands in the file it was meant for.                        *)
LEMMA LandInFile ==
  ASSUME FileAssumption, FileInv, NEW a \in Attempts, NEW i \in AllParts, Land(a, i), Attached(a)
  PROVE  LET v == want[a]
             w == Head(flight[a][i])
         IN /\ StagingTypes' /\ Written(staging[v], w.at, w.block, staging'[v])
            /\ w.at \in 1..Size /\ w.block \in Versions /\ (Sound(v) => w.block = v)
            /\ torn[v] \subseteq torn'[v]
            /\ torn'[v] = {} => /\ torn[v] = {}
                                /\ w.at <= Len(staging[v]) + 1 \/ (parts[a] # 1 /\ pc[a] = "copy")
            /\ there' = there /\ inode' = inode
            /\ \A u \in Versions : u # v => SameFile(u)
<1> DEFINE v == want[a]
           w == Head(flight[a][i])
           f == staging[v]
<1>1. FileTypes /\ Faithful(a) /\ v \in Versions BY Before
<1>2. /\ flight[a][i] # <<>>
      /\ staging' = [staging EXCEPT ![v] = WriteAt(f, w.at, w.block)]
      /\ torn' = [torn EXCEPT ![v] = @ \cup
                    IF w.at > Len(f) + 1 /\ (parts[a] = 1 \/ pc[a] # "copy") THEN {"gap"} ELSE {}]
      /\ there' = there /\ inode' = inode
  BY DEF Land, Tear
<1>3. flight[a][i] \in Seq(Writes) /\ StagingTypes BY <1>1 DEF FileTypes
<1>4. w \in Writes /\ 1 \in 1..Len(flight[a][i]) /\ w = flight[a][i][1] BY <1>2, <1>3, Unqueued
<1>5. w.at \in 1..Size /\ w.block \in Versions BY <1>4 DEF Writes
<1>6. Sound(v) => w.block = v BY <1>1, <1>4 DEF Faithful
<1>7. Written(f, w.at, w.block, WriteAt(f, w.at, w.block))
  <2>1. f \in Seq(Blocks) BY <1>1, <1>3 DEF StagingTypes
  <2>2. w.at \in Nat \ {0} /\ w.block \in Blocks BY <1>5 DEF Versions, Blocks
  <2>3. QED BY <2>1, <2>2, WriteAtIs
<1> HIDE DEF w
<1>8. /\ staging' \in [Versions -> Seq(Blocks)] /\ staging'[v] = WriteAt(f, w.at, w.block)
      /\ \A u \in Versions : u # v => staging'[u] = staging[u]
  BY <1>1, <1>2, <1>3, <1>7 DEF StagingTypes, Written
<1>9. /\ torn' \in [Versions -> SUBSET Lapses]
      /\ torn'[v] = torn[v] \cup (IF w.at > Len(f) + 1 /\ (parts[a] = 1 \/ pc[a] # "copy")
                                  THEN {"gap"} ELSE {})
      /\ \A u \in Versions : u # v => torn'[u] = torn[u]
  BY <1>1, <1>2, <1>3 DEF StagingTypes, Lapses
<1>10. w.at > Len(f) + 1 \/ w.at <= Len(f) + 1
  <2>1. f \in Seq(Blocks) BY <1>1, <1>3 DEF StagingTypes
  <2>2. QED BY <1>5, <2>1
<1>11. torn'[v] = {} => /\ torn[v] = {}
                        /\ w.at <= Len(f) + 1 \/ (parts[a] # 1 /\ pc[a] = "copy")
  BY <1>9, <1>10
<1>12. StagingTypes' BY <1>2, <1>3, <1>8, <1>9 DEF StagingTypes
<1>13. Written(f, w.at, w.block, staging'[v]) BY <1>7, <1>8
<1>14. torn[v] \subseteq torn'[v] BY <1>9
<1>15. \A u \in Versions : u # v => SameFile(u) BY <1>2, <1>8, <1>9 DEF SameFile
<1>16. QED BY <1>2, <1>5, <1>6, <1>11, <1>12, <1>13, <1>14, <1>15 DEF w

LEMMA LandStep ==
  ASSUME FileAssumption, FileInv, NEW a \in Attempts, NEW i \in AllParts, Land(a, i)
  PROVE  FileInv'
<1> DEFINE v == want[a]
           q == flight[a][i]
           w == Head(q)
           f == staging[v]
           g == staging'[v]
<1>1. /\ FileTypes /\ OneWriter /\ Resumable /\ TargetIntact /\ \A u \in Versions : FileFits(u)
      /\ \A b \in Attempts : /\ Accounted(b) /\ PartsFit(b) /\ Faithful(b)
                              /\ Filled(b) /\ Installing(b)
      /\ v \in Versions
  BY Before DEF FileInv
<1>2. /\ q # <<>> /\ flight' = [flight EXCEPT ![a][i] = Tail(q)]
      /\ Attached(a) \/ UNCHANGED <<staging, torn>>
      /\ UNCHANGED <<kind, ver, there, inode, target, spoiled, status, pc, want, resume, parts,
                     handle, base, done, lost, broken, cancel, joining, faults>>
  BY DEF Land, locals
<1>3. StagingTypes /\ LocalTypes /\ q \in Seq(Writes) /\ f \in Seq(Blocks) /\ Size \in Nat
  BY <1>1 DEF FileTypes, StagingTypes, FileAssumption
<1>4. /\ Tail(q) \in Seq(Writes) /\ w = q[1] /\ Len(q) \in Nat /\ Len(Tail(q)) = Len(q) - 1
      /\ \A j \in 1..Len(Tail(q)) : j + 1 \in 1..Len(q) /\ Tail(q)[j] = q[j + 1]
  BY <1>2, <1>3, Unqueued
<1>5. /\ flight' \in [Attempts -> [AllParts -> Seq(Writes)]] /\ flight'[a][i] = Tail(q)
      /\ \A j \in AllParts \ {i} : flight'[a][j] = flight[a][j]
      /\ \A b \in Attempts \ {a} : flight'[b] = flight[b]
  BY <1>1, <1>2, <1>4 DEF FileTypes
(* What became of the file.                                                *)
<1>6. /\ StagingTypes' /\ \A u \in Versions : u # v => SameFile(u)
      /\ Attached(a) \/ SameFile(v)
      /\ Attached(a) => /\ Written(f, w.at, w.block, g) /\ w.at \in 1..Size
                        /\ (Sound(v) => w.block = v) /\ torn[v] \subseteq torn'[v]
                        /\ torn'[v] = {} =>
                             /\ torn[v] = {}
                             /\ w.at <= Len(f) + 1 \/ (parts[a] # 1 /\ pc[a] = "copy")
  <2>1. CASE Attached(a) BY <2>1, LandInFile
  <2>2. CASE ~Attached(a)
    <3>1. UNCHANGED <<staging, torn>> BY <1>2, <2>2
    <3>2. StagingTypes' BY <1>2, <1>3, <3>1 DEF StagingTypes
    <3>3. QED BY <1>2, <2>2, <3>1, <3>2 DEF SameFile
  <2>3. QED BY <2>1, <2>2
<1>7. Attached(a) => g \in Seq(Blocks) /\ Len(f) <= Len(g) /\ w.at <= Len(g) /\ Len(g) <= Size
  <2> SUFFICES ASSUME Attached(a) PROVE Len(f) <= Len(g) /\ w.at <= Len(g) /\ Len(g) <= Size
    BY <1>6 DEF Written
  <2>1. Len(f) <= Size BY <1>1 DEF FileFits
  <2>2. Len(g) = (IF Len(f) >= w.at THEN Len(f) ELSE w.at) /\ w.at \in 1..Size
    BY <1>6 DEF Written
  <2>3. Len(f) \in Nat BY <1>3
  <2> HIDE DEF w, f, g
  <2>4. QED BY <1>3, <2>1, <2>2, <2>3
<1> HIDE DEF w, g
<1>8. FileTypes'
  <2>1. LocalTypes' BY <1>2, <1>3 DEF LocalTypes
  <2>2. QED BY <1>1, <1>2, <1>5, <1>6, <2>1 DEF FileTypes, kind
<1>9. OneWriter' BY <1>1, <1>2 DEF OneWriter
<1>10. TargetIntact' BY <1>1, <1>2, TargetKept
<1>11. ASSUME NEW u \in Versions PROVE FileFits(u)'
  <2>1. CASE SameFile(u) BY <1>1, <1>2, <2>1 DEF FileFits, SameFile
  <2>2. CASE u = v /\ Attached(a)
    <3>1. v <= ver /\ v \in Nat /\ ver \in Nat
      BY <1>1 DEF Accounted, FileTypes, Versions
    <3>2. v \in there' /\ ~(v > ver) BY <1>2, <2>2, <3>1 DEF Attached
    <3>3. QED BY <1>2, <1>7, <2>2, <3>2 DEF FileFits, g
  <2>3. QED BY <1>6, <2>1, <2>2
<1>12. Resumable'
  <2> SUFFICES ASSUME torn'[ver] = {}, \A b \in Attempts : ~Dividing(b) PROVE Clean(ver)'
    BY <1>2 DEF Resumable, Dividing
  <2>0. ver \in Versions BY <1>1 DEF FileTypes
  <2>1. CASE SameFile(ver) BY <1>1, <1>2, <2>1 DEF Resumable, Clean, SameFile
  <2>2. CASE ver = v /\ Attached(a)
    <3>1. torn[v] = {} /\ (w.at <= Len(f) + 1 \/ (parts[a] # 1 /\ pc[a] = "copy"))
      BY <1>6, <2>2
    <3>2. ~(parts[a] # 1 /\ pc[a] = "copy")
      <4>1. parts[a] \in {1, Parts} BY <1>1 DEF FileTypes
      <4>2. parts[a] # 1 => parts[a] > 1 BY <4>1 DEF FileAssumption
      <4>3. QED BY <2>2, <4>2 DEF Dividing
    <3>3. Clean(v) BY <1>1, <2>2, <3>1 DEF Resumable
    <3>4. Written(f, w.at, w.block, g) /\ w.block = v /\ w.at \in 1..Size /\ g \in Seq(Blocks)
      BY <1>6, <1>7, <2>2 DEF Sound
    <3>5. ASSUME NEW k \in 1..Len(g) PROVE g[k] = v
      <4>1. CASE k = w.at BY <3>4, <4>1 DEF Written
      <4>2. CASE k # w.at
        <5>1. Len(g) = (IF Len(f) >= w.at THEN Len(f) ELSE w.at) BY <3>4 DEF Written
        <5>2. Len(f) \in Nat BY <1>3
        <5> HIDE DEF f
        <5>3. k \in 1..Len(f) BY <3>1, <3>2, <3>4, <3>5, <4>2, <5>1, <5>2
        <5>4. g[k] = f[k] BY <3>4, <4>2, <5>3 DEF Written
        <5>5. f[k] = v BY <1>3, <3>3, <5>3 DEF Clean, f
        <5>6. QED BY <5>4, <5>5
      <4>3. QED BY <4>1, <4>2
    <3>6. DOMAIN g = 1..Len(g) BY <3>4
    <3>7. QED BY <1>2, <2>2, <3>5, <3>6 DEF Clean, g
  <2>3. QED BY <1>6, <2>0, <2>1, <2>2
<1>13. ASSUME NEW b \in Attempts
       PROVE  /\ Accounted(b)' /\ PartsFit(b)' /\ Faithful(b)'
              /\ Filled(b)' /\ Installing(b)'
  <2>1. /\ Accounted(b) /\ PartsFit(b) /\ Faithful(b) /\ Filled(b) /\ Installing(b)
        /\ want[b] \in Versions
    BY <1>1 DEF FileTypes
  <2>2. /\ PartsOf(b)' = PartsOf(b) /\ \A j : PartRange(b, j)' = PartRange(b, j)
    BY <1>2, SameRange
  <2>3. Accounted(b)' BY <1>2, <2>1 DEF Accounted
  <2>4. PartsFit(b)'
    <3>1. CASE b = a
      <4>1. pc[a] \notin {"none", "prepare", "open"} BY <1>1, <1>2 DEF PartsFit
      <4>2. QED BY <1>2, <2>1, <2>2, <3>1, <4>1 DEF PartsFit
    <3>2. CASE b # a
      <4>1. flight'[b] = flight[b] BY <1>5, <3>2
      <4>2. QED BY <1>2, <2>1, <2>2, <4>1 DEF PartsFit
    <3>3. QED BY <3>1, <3>2
  <2>5. Faithful(b)'
    <3>1. Sound(want[b])' <=> Sound(want[b]) BY <1>2 DEF Sound
    <3>2. CASE b # a
      <4>1. flight'[b] = flight[b] BY <1>5, <3>2
      <4>2. QED BY <1>2, <2>1, <3>1, <4>1 DEF Faithful
    <3>3. CASE b = a
      <4> SUFFICES ASSUME Sound(v), NEW k \in AllParts, NEW j \in 1..Len(flight'[a][k])
                   PROVE  flight'[a][k][j].block = v
        BY <1>2, <3>1, <3>3 DEF Faithful
      <4>1. CASE k = i
        <5>1. flight'[a][k][j] = q[j + 1] /\ j + 1 \in 1..Len(q) BY <1>4, <1>5, <4>1
        <5>2. q[j + 1].block = v BY <1>1, <5>1 DEF Faithful
        <5>3. QED BY <5>1, <5>2
      <4>2. CASE k # i
        <5>1. flight'[a][k] = flight[a][k] BY <1>5, <4>2
        <5>2. QED BY <1>1, <5>1 DEF Faithful
      <4>3. QED BY <4>1, <4>2
    <3>4. QED BY <3>2, <3>3
  <2>6. Filled(b)'
    <3> SUFFICES ASSUME pc[b] = "copy", Dividing(b), want[b] \in there,
                        NEW j \in PartsOf(b) \ lost[b], NEW k \in 1..done[b][j]
                 PROVE  \/ InFile(b, PartRange(b, j).start + k)'
                        \/ OnItsWay(b, j, PartRange(b, j).start + k)'
      BY <1>2, <2>1, <2>2 DEF Filled, Dividing
    <3> DEFINE c == PartRange(b, j).start + k
    <3>1. /\ InFile(b, c) \/ OnItsWay(b, j, c)
          /\ handle[b] = inode[want[b]] /\ want[b] = ver /\ j \in AllParts
      <4>1. parts[b] \in {1, Parts} BY <1>1 DEF FileTypes
      <4>2. PartsOf(b) \subseteq AllParts BY <4>1 DEF PartsOf, AllParts, FileAssumption
      <4>3. QED BY <2>1, <4>2 DEF Filled, Dividing
    <3>2. c \in Nat \ {0}
      <4>1. Divided(b) BY <1>1, <1>3 DEF FileTypes, LocalTypes, Divided
      <4>2. PartRange(b, j).start \in Nat BY <4>1, RangeFits
      <4>3. done[b][j] \in Nat BY <1>3, <3>1 DEF LocalTypes
      <4>4. QED BY <4>2, <4>3
    <3> HIDE DEF c
    <3>3. ASSUME InFile(b, c) PROVE c <= Len(staging'[want[b]]) /\ staging'[want[b]][c] = want[b]
      <4>1. CASE SameFile(want[b]) BY <3>3, <4>1 DEF InFile, SameFile
      <4>2. CASE want[b] = v /\ Attached(a)
        <5>1. Written(f, w.at, w.block, g) /\ w.block = v BY <1>6, <3>1, <4>2 DEF Sound
        <5>2. c \in 1..Len(f) /\ f[c] = v BY <1>3, <3>2, <3>3, <4>2 DEF InFile
        <5>3. g[c] = v BY <5>1, <5>2 DEF Written
        <5>4. c <= Len(g)
          <6>1. Len(g) \in Nat /\ Len(f) \in Nat /\ Len(f) <= Len(g) BY <1>3, <1>7, <4>2
          <6>2. QED BY <5>2, <6>1
        <5>5. QED BY <4>2, <5>3, <5>4 DEF g
      <4>3. QED BY <1>6, <2>1, <4>1, <4>2
    <3>4. ASSUME OnItsWay(b, j, c)
          PROVE  \/ c <= Len(staging'[want[b]]) /\ staging'[want[b]][c] = want[b]
                 \/ \E l \in 1..Len(flight'[b][j]) : flight'[b][j][l].at = c
      <4>1. PICK l \in 1..Len(flight[b][j]) : flight[b][j][l].at = c BY <3>4 DEF OnItsWay
      <4>2. CASE b # a \/ j # i
        <5>1. flight'[b][j] = flight[b][j] BY <1>5, <3>1, <4>2
        <5>2. QED BY <4>1, <5>1
      <4>3. CASE b = a /\ j = i /\ l = 1
        <5>1. Attached(a) BY <3>1, <4>3 DEF Attached
        <5>2. w.at = c /\ Written(f, w.at, w.block, g) /\ w.block = v /\ w.at <= Len(g)
          BY <1>4, <1>6, <1>7, <3>1, <4>1, <4>3, <5>1 DEF Sound
        <5>3. QED BY <4>3, <5>2 DEF Written, g
      <4>4. CASE b = a /\ j = i /\ l # 1
        <5>1. l - 1 \in 1..Len(Tail(q)) BY <1>4, <4>1, <4>4
        <5>2. Tail(q)[l - 1] = q[l - 1 + 1] BY <1>4, <5>1
        <5>3. Tail(q)[l - 1].at = c BY <4>1, <4>4, <5>2
        <5>4. QED BY <1>5, <4>4, <5>1, <5>3
      <4>5. QED BY <4>2, <4>3, <4>4
    <3>5. QED BY <1>2, <2>2, <3>1, <3>3, <3>4 DEF InFile, OnItsWay, c
  <2>7. Installing(b)'
    <3> SUFFICES ASSUME pc[b] = "replace"
                 PROVE  torn'[want[b]] # {} \/ want[b] \notin there
                        \/ staging'[want[b]] = Whole(want[b])
      BY <1>2 DEF Installing, Whole
    <3>1. torn[want[b]] # {} \/ want[b] \notin there \/ staging[want[b]] = Whole(want[b])
      BY <2>1 DEF Installing
    <3>2. CASE SameFile(want[b]) BY <3>1, <3>2 DEF SameFile
    <3>3. CASE want[b] = v /\ Attached(a)
      <4>1. torn[v] \subseteq torn'[v] /\ Written(f, w.at, w.block, g) /\ w.block = v
            /\ w.at \in 1..Size /\ g \in Seq(Blocks)
        BY <1>6, <1>7, <3>3 DEF Sound
      <4>2. ASSUME f = Whole(v) PROVE g = Whole(v)
        <5>1. Len(f) = Size /\ \A k \in 1..Size : f[k] = v BY <1>3, <4>2 DEF Whole
        <5>2. Len(g) = Size /\ \A k \in 1..Size : g[k] = v BY <1>3, <4>1, <5>1 DEF Written
        <5>3. g \in [1..Size -> Blocks] BY <4>1, <5>2
        <5>4. QED BY <5>2, <5>3 DEF Whole
      <4>3. QED BY <3>1, <3>3, <4>1, <4>2 DEF g
    <3>4. QED BY <1>6, <2>1, <3>2, <3>3
  <2>8. QED BY <2>3, <2>4, <2>5, <2>6, <2>7
<1>14. QED BY <1>8, <1>9, <1>10, <1>11, <1>12, <1>13 DEF FileInv

-----------------------------------------------------------------------------
(* The end of a copy.                                                      *)

(* What a part has counted is in the file when it has lost nothing and     *)
(* nothing is on its way.                                                  *)
LEMMA CountedIsThere ==
  ASSUME FileAssumption, FileInv, NEW a \in Attempts, Dividing(a), want[a] \in there,
         NEW i \in PartsOf(a), i \notin lost[a], flight[a][i] = <<>>,
         NEW c \in (PartRange(a, i).start + 1)..(PartRange(a, i).start + done[a][i])
  PROVE  c <= Len(staging[ver]) /\ staging[ver][c] = ver
<1>1. FileTypes /\ Filled(a) /\ pc[a] = "copy" /\ want[a] = ver BY Before DEF Dividing
<1>2. Divided(a) /\ i \in AllParts
  <2>1. parts[a] \in {1, Parts} /\ base[a] \in 0..Size BY <1>1 DEF FileTypes, LocalTypes
  <2>2. QED BY <2>1 DEF Divided, PartsOf, AllParts, FileAssumption
<1>3. PartRange(a, i).start \in Nat /\ done[a][i] \in Nat
  BY <1>1, <1>2, RangeFits DEF FileTypes, LocalTypes
<1>4. PICK k \in 1..done[a][i] : c = PartRange(a, i).start + k
  <2>1. c - PartRange(a, i).start \in 1..done[a][i] BY <1>3
  <2>2. c = PartRange(a, i).start + (c - PartRange(a, i).start) BY <1>3
  <2>3. QED BY <2>1, <2>2
<1>5. InFile(a, PartRange(a, i).start + k) \/ OnItsWay(a, i, PartRange(a, i).start + k)
  BY <1>1 DEF Filled
<1>6. 1..Len(flight[a][i]) = {} OBVIOUS
<1>7. QED BY <1>1, <1>4, <1>5, <1>6 DEF InFile, OnItsWay

LEMMA JoinOkStep ==
  ASSUME FileAssumption, FileInv, NEW a \in Attempts, JoinOk(a)
  PROVE  FileInv'
<1>1. /\ FileTypes /\ OneWriter /\ Resumable /\ TargetIntact /\ Accounted(a) /\ PartsFit(a)
      /\ Faithful(a) /\ Filled(a) /\ want[a] \in Versions /\ FileFits(want[a])
  BY Before
<1>2. /\ pc[a] = "copy" /\ pc[a] \in Live /\ \A i \in PartsOf(a) : Returned(a, i)
      /\ pc' = [pc EXCEPT ![a] = "verify"]
      /\ UNCHANGED <<kind, ver, files, status, task, joining, faults>>
  BY DEF JoinOk, Joined, Live
<1>3. pc'[a] = "verify" BY <1>1, <1>2 DEF FileTypes
<1>4. /\ staging' = staging /\ there' = there /\ inode' = inode /\ torn' = torn
      /\ target' = target /\ spoiled' = spoiled
      /\ want' = want /\ parts' = parts /\ base' = base /\ handle' = handle /\ done' = done
      /\ flight' = flight /\ lost' = lost
  BY <1>2 DEF files, stagings, task, locals
<1>5. FileTypes'
  <2>1. StagingTypes' /\ LocalTypes'
    BY <1>1, <1>2, <1>4 DEF FileTypes, StagingTypes, LocalTypes, task, locals
  <2>2. QED BY <1>1, <1>2, <1>4, <2>1 DEF FileTypes, kind, task, Live
<1>6. StepOf(a)
  <2>1. \A b \in Attempts \ {a} : pc'[b] = pc[b] BY <1>1, <1>2 DEF FileTypes
  <2>2. QED BY <1>2, <1>3, <1>4, <2>1 DEF StepOf, SameTask, SameFile
<1>7. Accounted(a)' BY <1>1, <1>2, <1>3, <1>4 DEF Accounted
<1>8. PartsFit(a)' /\ Filled(a)' /\ Installing(a)' BY <1>3 DEF PartsFit, Filled, Installing
<1>9. Faithful(a)' BY <1>1, <1>4, <1>6, FaithfulKept
<1>10. FileFits(want[a])' BY <1>1, <1>2, <1>4 DEF FileFits
<1>11. TargetIntact' BY <1>1, <1>4, TargetKept
<1>12. ASSUME want[a] = ver PROVE Resumable'
  <2> SUFFICES ASSUME torn[ver] = {} PROVE Clean(ver) BY <1>2, <1>4 DEF Resumable, Clean
  <2>1. CASE ~Dividing(a) BY <1>2, <1>12, <2>1, OwnFileClean
  <2>2. CASE ver \notin there
    <3>1. staging[ver] = <<>> BY <1>1, <1>12, <2>2 DEF FileFits
    <3>2. QED BY <3>1 DEF Clean
  <2>3. CASE Dividing(a) /\ ver \in there
    <3>1. staging[ver] \in Seq(Blocks) /\ Len(staging[ver]) <= Size /\ Size \in Nat
      BY <1>1, <1>12 DEF FileTypes, StagingTypes, FileFits, FileAssumption
    <3>2. Divided(a) BY <1>1 DEF FileTypes, LocalTypes, Divided
    <3>3. parts[a] > 1 BY <2>3 DEF Dividing
    <3>4. ASSUME NEW c \in 1..Len(staging[ver]) PROVE staging[ver][c] = ver
      <4>1. c \in 1..Size BY <3>1
      <4>2. PICK i \in PartsOf(a) : /\ PartRange(a, i).start < c
                                    /\ c <= PartRange(a, i).start + PartRange(a, i).len
        BY <3>2, <3>3, <4>1, RangesCover
      <4>3. done[a][i] = PartRange(a, i).len /\ flight[a][i] = <<>> /\ i \notin lost[a]
        BY <1>2 DEF Returned, Finished
      <4>4. PartRange(a, i).start \in Nat /\ PartRange(a, i).len \in Nat BY <3>2, RangeFits
      <4>5. c \in (PartRange(a, i).start + 1)..(PartRange(a, i).start + done[a][i])
        BY <4>1, <4>2, <4>3, <4>4
      <4>6. QED BY <1>12, <2>3, <4>3, <4>5, CountedIsThere
    <3>5. QED BY <3>1, <3>4 DEF Clean
  <2>4. QED BY <2>1, <2>2, <2>3
<1>13. QED BY <1>5, <1>6, <1>7, <1>8, <1>9, <1>10, <1>11, <1>12, StepKeeps

(* The file is cut to a prefix that was counted: whatever of it was not    *)
(* acknowledged is a lapse.                                                *)
LEMMA CutFile ==
  ASSUME FileAssumption, FileInv, NEW a \in Attempts, pc[a] = "copy", parts[a] > 1, Cut(a)
  PROVE  /\ StagingTypes' /\ Len(staging'[want[a]]) <= Size /\ there' = there
         /\ want[a] \in there /\ \A u \in Versions : u # want[a] => SameFile(u)
         /\ want[a] = ver /\ torn'[ver] = {} => \A k \in DOMAIN staging'[ver] : staging'[ver][k] = ver
<1> DEFINE v == want[a]
           f == staging[v]
           n == ContiguousPrefix(a)
<1>1. FileTypes /\ PartsFit(a) /\ v \in Versions BY Before
<1>2. StagingTypes /\ LocalTypes /\ f \in Seq(Blocks) /\ Size \in Nat
  BY <1>1 DEF FileTypes, StagingTypes, FileAssumption
<1>3. /\ v \in there /\ staging' = [staging EXCEPT ![v] = SetLen(f, n)]
      /\ torn' = [torn EXCEPT ![v] = @ \cup IF Unconfirmed(a) THEN {"ahead"} ELSE {}]
      /\ there' = there /\ inode' = inode
  BY DEF Cut, Tear
<1>4. Divided(a) /\ PartsOf(a) \subseteq AllParts
  BY <1>1, <1>2 DEF FileTypes, LocalTypes, PartsOf, AllParts, Divided, FileAssumption
<1>5. \A i \in PartsOf(a) : done[a][i] \in Nat /\ done[a][i] <= PartRange(a, i).len
  BY <1>1, <1>2, <1>4 DEF LocalTypes, PartsFit
<1>6. /\ n \in 0..Size
      /\ \A c \in 1..n : \E i \in PartsOf(a) :
           c \in (PartRange(a, i).start + 1)..(PartRange(a, i).start + done[a][i])
  BY <1>4, <1>5, PrefixCovered
<1> HIDE DEF n
<1>7. /\ SetLen(f, n) \in Seq(Blocks) /\ Len(SetLen(f, n)) = n
      /\ DOMAIN SetLen(f, n) = 1..n /\ n <= Size
      /\ \A k \in 1..n : SetLen(f, n)[k] = IF k <= Len(f) THEN f[k] ELSE Hole
  <2>1. n \in Nat /\ n <= Size BY <1>2, <1>6
  <2>2. f \in Seq(Blocks) BY <1>2
  <2> HIDE DEF f
  <2>3. QED BY <2>1, <2>2, SetLenIs
<1>8. /\ staging' \in [Versions -> Seq(Blocks)] /\ staging'[v] = SetLen(f, n)
      /\ \A u \in Versions : u # v => staging'[u] = staging[u]
  BY <1>1, <1>2, <1>3, <1>7 DEF StagingTypes
<1>9. /\ torn' \in [Versions -> SUBSET Lapses]
      /\ torn'[v] = {} => ~Unconfirmed(a)
      /\ \A u \in Versions : u # v => torn'[u] = torn[u]
  BY <1>1, <1>2, <1>3 DEF StagingTypes, Lapses
<1>10. StagingTypes' BY <1>2, <1>3, <1>8, <1>9 DEF StagingTypes
<1>11. \A u \in Versions : u # v => SameFile(u) BY <1>3, <1>8, <1>9 DEF SameFile
<1>12. ASSUME v = ver, torn'[ver] = {}, NEW k \in DOMAIN staging'[ver]
       PROVE  staging'[ver][k] = ver
  <2>1. k \in 1..n BY <1>7, <1>8, <1>12
  <2>2. PICK i \in PartsOf(a) :
          k \in (PartRange(a, i).start + 1)..(PartRange(a, i).start + done[a][i])
    BY <1>6, <2>1
  <2>3. i \notin lost[a] /\ flight[a][i] = <<>> BY <1>9, <1>12 DEF Unconfirmed
  <2>4. Dividing(a) BY <1>12 DEF Dividing
  <2>5. k <= Len(staging[ver]) /\ staging[ver][k] = ver
    BY <1>3, <1>12, <2>2, <2>3, <2>4, CountedIsThere
  <2>6. QED BY <1>7, <1>8, <1>12, <2>1, <2>5
<1>13. QED BY <1>3, <1>7, <1>8, <1>10, <1>11, <1>12

LEMMA JoinErrorStep ==
  ASSUME FileAssumption, FileInv, NEW a \in Attempts, JoinError(a)
  PROVE  FileInv'
<1> DEFINE v == want[a]
<1>1. FileTypes /\ OneWriter /\ TargetIntact /\ Accounted(a) /\ v \in Versions /\ FileFits(v)
  BY Before
<1>2. /\ pc[a] = "copy" /\ pc[a] \in Live /\ EndTask(a, "failed")
      /\ UNCHANGED <<kind, ver, target, spoiled, want, resume, parts, handle, flight, joining,
                     faults>>
  BY DEF JoinError, Joined, Live
<1>3. /\ LocalTypes' /\ pc' \in [Attempts -> Live \cup {"none", "ended"}]
      /\ status' \in [Attempts -> Statuses] /\ pc'[a] = "ended"
      /\ status'[a] = "none" => status[a] = "none"
      /\ \A b \in Attempts \ {a} : /\ pc'[b] = pc[b] /\ base'[b] = base[b]
                                    /\ done'[b] = done[b] /\ lost'[b] = lost[b]
                                    /\ status'[b] = status[b]
  BY <1>1, <1>2, EndTaskIs
<1>4. v <= ver /\ v \in Nat /\ ver \in Nat BY <1>1 DEF Accounted, FileTypes, Versions
<1>5. /\ StagingTypes' /\ FileFits(v)' /\ \A u \in Versions : u # v => SameFile(u)
      /\ v = ver /\ torn'[ver] = {} => \A k \in DOMAIN staging'[ver] : staging'[ver][k] = ver
  <2>1. CASE parts[a] = 1 /\ UNCHANGED stagings
    <3>1. StagingTypes' /\ \A u \in Versions : SameFile(u)
      BY <1>1, <2>1 DEF FileTypes, StagingTypes, stagings, SameFile
    <3>2. FileFits(v)' BY <1>1, <1>2, <2>1 DEF FileFits, stagings
    <3>3. v = ver => (torn[ver] = {} => Clean(ver))
      BY <1>2, <2>1, OwnFileClean DEF Dividing
    <3>4. QED BY <2>1, <3>1, <3>2, <3>3 DEF Clean, stagings
  <2>2. CASE parts[a] # 1 /\ Cut(a)
    <3>1. parts[a] > 1
      <4>1. parts[a] \in {1, Parts} BY <1>1 DEF FileTypes
      <4>2. QED BY <2>2, <4>1 DEF FileAssumption
    <3>2. /\ StagingTypes' /\ Len(staging'[v]) <= Size /\ there' = there /\ v \in there
          /\ \A u \in Versions : u # v => SameFile(u)
          /\ v = ver /\ torn'[ver] = {} => \A k \in DOMAIN staging'[ver] : staging'[ver][k] = ver
      BY <1>2, <2>2, <3>1, CutFile
    <3>3. FileFits(v)' BY <1>2, <1>4, <3>2 DEF FileFits
    <3>4. QED BY <3>2, <3>3
  <2>3. CASE Unlink(v)
    <3>1. /\ StagingTypes' /\ Removed(v) /\ Len(staging'[v]) <= Size
          /\ \A w \in Versions : w # v => SameFile(w)
      BY <1>1, <2>3, UnlinkFile
    <3>2. FileFits(v)' BY <1>2, <3>1 DEF FileFits, Removed
    <3>3. QED BY <3>1, <3>2 DEF Removed
  <2>4. CASE Left(a)
    <3>1. /\ StagingTypes' /\ torn'[v] # {} /\ staging' = staging /\ there' = there
          /\ \A w \in Versions : w # v => SameFile(w)
      BY <1>1, <2>4, LeftFile
    <3>2. FileFits(v)' BY <1>1, <1>2, <3>1 DEF FileFits
    <3>3. QED BY <3>1, <3>2
  <2>5. QED BY <2>1, <2>2, <2>3, <2>4 DEF JoinError
<1>6. FileTypes' BY <1>1, <1>2, <1>3, <1>5 DEF FileTypes, kind
<1>7. StepOf(a)
  <2>1. \A b \in Attempts \ {a} : ~(pc[b] \in Live /\ want[b] = want[a])
    BY <1>1, <1>2 DEF OneWriter
  <2>2. QED BY <1>2, <1>3, <1>5, <2>1 DEF StepOf, SameTask
<1>8. TargetIntact' BY <1>1, <1>2, TargetKept
<1>9. v = ver => Resumable' BY <1>2, <1>5 DEF Resumable, Clean
<1>10. FileFits(want[a])' BY <1>2, <1>5 DEF FileFits
<1>11. QED BY <1>2, <1>3, <1>6, <1>7, <1>8, <1>9, <1>10, EndStep

LEMMA VerifyStep ==
  ASSUME FileAssumption, FileInv, NEW a \in Attempts, Verify(a)
  PROVE  FileInv'
<1> DEFINE v == want[a]
<1>1. /\ FileTypes /\ OneWriter /\ Resumable /\ TargetIntact /\ Accounted(a) /\ Faithful(a)
      /\ v \in Versions /\ FileFits(v)
  BY Before
<1>2. /\ pc[a] = "verify" /\ pc[a] \in Live
      /\ UNCHANGED <<kind, ver, files, want, resume, parts, handle, flight, joining, faults>>
  BY DEF Verify, Live
<1>3. /\ staging' = staging /\ there' = there /\ inode' = inode /\ torn' = torn
      /\ target' = target /\ spoiled' = spoiled
  BY <1>2 DEF files, stagings
<1>4. StagingTypes' BY <1>1, <1>3 DEF FileTypes, StagingTypes
<1>5. FileFits(want[a])' BY <1>1, <1>2, <1>3 DEF FileFits
<1>6. TargetIntact' BY <1>1, <1>3, TargetKept
<1>7. CASE EndTask(a, "failed")
  <2>1. /\ LocalTypes' /\ pc' \in [Attempts -> Live \cup {"none", "ended"}]
        /\ status' \in [Attempts -> Statuses] /\ pc'[a] = "ended"
        /\ status'[a] = "none" => status[a] = "none"
        /\ \A b \in Attempts \ {a} : /\ pc'[b] = pc[b] /\ base'[b] = base[b]
                                      /\ done'[b] = done[b] /\ lost'[b] = lost[b]
                                      /\ status'[b] = status[b]
    BY <1>1, <1>7, EndTaskIs
  <2>2. FileTypes' BY <1>1, <1>2, <1>4, <2>1 DEF FileTypes, kind
  <2>3. StepOf(a) BY <1>2, <1>3, <2>1 DEF StepOf, SameTask, SameFile
  <2>4. \A b \in Attempts : Dividing(b) => Dividing(b)'
    BY <1>2, <2>1 DEF Dividing
  <2>5. Resumable' BY <1>1, <1>2, <1>3, <2>4 DEF Resumable, Clean
  <2>6. QED BY <1>2, <1>5, <1>6, <2>1, <2>2, <2>3, <2>5, EndStep
<1>8. CASE /\ Len(staging[v]) = Size /\ ver = v
           /\ pc' = [pc EXCEPT ![a] = "replace"] /\ UNCHANGED <<status, locals>>
  <2>1. pc'[a] = "replace" BY <1>1, <1>8 DEF FileTypes
  <2>2. /\ base' = base /\ done' = done /\ lost' = lost /\ broken' = broken /\ cancel' = cancel
        /\ status' = status
    BY <1>8 DEF locals
  <2>3. FileTypes'
    <3>1. LocalTypes' BY <1>1, <2>2 DEF FileTypes, LocalTypes
    <3>2. QED BY <1>1, <1>2, <1>4, <1>8, <2>2, <3>1 DEF FileTypes, kind, Live
  <2>4. StepOf(a)
    <3>1. \A b \in Attempts \ {a} : pc'[b] = pc[b] BY <1>1, <1>8 DEF FileTypes
    <3>2. QED BY <1>2, <1>3, <1>8, <2>2, <3>1 DEF StepOf, SameTask, SameFile
  <2>5. Accounted(a)' BY <1>1, <1>2, <2>1, <2>2 DEF Accounted
  <2>6. PartsFit(a)' /\ Filled(a)' BY <2>1 DEF PartsFit, Filled
  <2>7. Faithful(a)' BY <1>1, <1>2, <2>4, FaithfulKept
  <2>8. torn[v] = {} => staging[v] = Whole(v)
    <3>1. torn[ver] = {} => Clean(ver) BY <1>2, <1>8, OwnFileClean DEF Dividing
    <3>2. QED BY <1>1, <1>8, <3>1, CleanIsWhole
  <2>9. Installing(a)' BY <1>2, <1>3, <2>8 DEF Installing, Whole
  <2>10. \A b \in Attempts : Dividing(b) => Dividing(b)'
    BY <1>1, <1>2, <1>8 DEF Dividing, FileTypes
  <2>11. Resumable' BY <1>1, <1>2, <1>3, <2>10 DEF Resumable, Clean
  <2>12. QED BY <1>5, <1>6, <2>3, <2>4, <2>5, <2>6, <2>7, <2>9, <2>11, StepKeeps
<1>9. QED BY <1>7, <1>8 DEF Verify

(* The staging file that becomes the target is the whole source, unless it *)
(* met a lapse.                                                            *)
LEMMA ReplaceStep ==
  ASSUME FileAssumption, FileInv, NEW a \in Attempts, Replace(a)
  PROVE  FileInv'
<1> DEFINE v == want[a]
<1>1. /\ FileTypes /\ OneWriter /\ Resumable /\ TargetIntact /\ Installing(a)
      /\ v \in Versions /\ FileFits(v)
  BY Before
<1>2. /\ pc[a] = "replace" /\ pc[a] \in Live
      /\ EndTask(a, "failed") \/ EndTask(a, "completed")
      /\ UNCHANGED <<kind, ver, want, resume, parts, handle, flight, joining, faults>>
  BY DEF Replace, Live
<1>3. /\ LocalTypes' /\ pc' \in [Attempts -> Live \cup {"none", "ended"}]
      /\ status' \in [Attempts -> Statuses] /\ pc'[a] = "ended"
      /\ status'[a] = "none" => status[a] = "none"
      /\ \A b \in Attempts \ {a} : /\ pc'[b] = pc[b] /\ base'[b] = base[b]
                                    /\ done'[b] = done[b] /\ lost'[b] = lost[b]
                                    /\ status'[b] = status[b]
  BY <1>1, <1>2, EndTaskIs
<1>4. \A b \in Attempts : Dividing(b) => Dividing(b)' BY <1>2, <1>3 DEF Dividing
<1>5. /\ StagingTypes' /\ FileFits(v)' /\ \A u \in Versions : u # v => SameFile(u)
      /\ v = ver => Resumable'
  <2>1. CASE UNCHANGED files
    <3>1. /\ staging' = staging /\ there' = there /\ inode' = inode /\ torn' = torn
      BY <2>1 DEF files, stagings
    <3>2. Resumable' BY <1>1, <1>2, <1>4, <3>1 DEF Resumable, Clean
    <3>3. QED BY <1>1, <1>2, <3>1, <3>2 DEF FileTypes, StagingTypes, FileFits, SameFile
  <2>2. CASE Unlink(v)
    <3>1. /\ StagingTypes' /\ Removed(v) /\ Len(staging'[v]) <= Size
          /\ \A w \in Versions : w # v => SameFile(w)
      BY <1>1, <2>2, UnlinkFile
    <3>2. FileFits(v)' BY <1>2, <3>1 DEF FileFits, Removed
    <3>3. v = ver => Resumable' BY <1>2, <3>1, EmptyResumable DEF Removed
    <3>4. QED BY <3>1, <3>2, <3>3
  <2>3. QED BY <2>1, <2>2 DEF Replace
<1>6. TargetIntact'
  <2>1. CASE UNCHANGED files BY <1>1, <2>1, TargetKept DEF files
  <2>2. CASE v \in there /\ target' = staging[v] /\ spoiled' = torn[v]
    <3>1. torn[v] # {} \/ staging[v] = Whole(v) BY <1>1, <1>2, <2>2 DEF Installing
    <3>2. QED BY <1>1, <2>2, <3>1 DEF TargetIntact, Intact, Whole
  <2>3. QED BY <2>1, <2>2 DEF Replace
<1>7. FileTypes' BY <1>1, <1>2, <1>3, <1>5 DEF FileTypes, kind
<1>8. StepOf(a)
  <2>1. \A b \in Attempts \ {a} : ~(pc[b] \in Live /\ want[b] = want[a])
    BY <1>1, <1>2 DEF OneWriter
  <2>2. QED BY <1>2, <1>3, <1>5, <2>1 DEF StepOf, SameTask
<1>9. FileFits(want[a])' BY <1>2, <1>5 DEF FileFits
<1>10. QED BY <1>2, <1>3, <1>5, <1>6, <1>7, <1>8, <1>9, EndStep

LEMMA StepFailsStep ==
  ASSUME FileAssumption, FileInv, NEW a \in Attempts, StepFails(a)
  PROVE  FileInv'
<1>1. /\ FileTypes /\ Resumable /\ TargetIntact /\ want[a] \in Versions /\ FileFits(want[a])
  BY Before
<1>2. /\ pc[a] \in Live /\ pc[a] # "copy" /\ EndTask(a, "failed")
      /\ UNCHANGED <<kind, ver, files, want, resume, parts, handle, flight, joining, faults>>
  BY DEF StepFails, Live
<1>3. /\ LocalTypes' /\ pc' \in [Attempts -> Live \cup {"none", "ended"}]
      /\ status' \in [Attempts -> Statuses] /\ pc'[a] = "ended"
      /\ status'[a] = "none" => status[a] = "none"
      /\ \A b \in Attempts \ {a} : /\ pc'[b] = pc[b] /\ base'[b] = base[b]
                                    /\ done'[b] = done[b] /\ lost'[b] = lost[b]
                                    /\ status'[b] = status[b]
  BY <1>1, <1>2, EndTaskIs
<1>4. /\ staging' = staging /\ there' = there /\ inode' = inode /\ torn' = torn
      /\ target' = target /\ spoiled' = spoiled
  BY <1>2 DEF files, stagings
<1>5. FileTypes' BY <1>1, <1>2, <1>3, <1>4 DEF FileTypes, StagingTypes, kind
<1>6. StepOf(a) BY <1>2, <1>3, <1>4 DEF StepOf, SameTask, SameFile
<1>7. \A b \in Attempts : Dividing(b) => Dividing(b)' BY <1>2, <1>3 DEF Dividing
<1>8. Resumable' BY <1>1, <1>2, <1>4, <1>7 DEF Resumable, Clean
<1>9. FileFits(want[a])' BY <1>1, <1>2, <1>4 DEF FileFits
<1>10. TargetIntact' BY <1>1, <1>4, TargetKept
<1>11. QED BY <1>2, <1>3, <1>5, <1>6, <1>8, <1>9, <1>10, EndStep

-----------------------------------------------------------------------------
(* Commands, the death of the process, and a source that changes.          *)

LEMMA CancelStep ==
  ASSUME FileAssumption, FileInv, NEW a \in Attempts, Cancel(a) \/ CancelJoined(a)
  PROVE  FileInv'
<1>1. /\ FileTypes /\ Resumable /\ TargetIntact /\ Accounted(a) /\ PartsFit(a)
      /\ Faithful(a) /\ Filled(a) /\ Installing(a) /\ want[a] \in Versions /\ FileFits(want[a])
  BY Before
<1>2. /\ UNCHANGED <<kind, ver, files, pc, want, resume, parts, handle, flight, base, done, lost,
                     broken, faults>>
      /\ cancel' \in [Attempts -> BOOLEAN] /\ status' \in [Attempts -> Statuses]
      /\ joining' \in SUBSET Attempts /\ \A b \in Attempts \ {a} : status'[b] = status[b]
      /\ \A b \in Attempts \ {a} : b \in joining => b \in joining'
      /\ pc[a] \in Live => status'[a] = "active" \/ a \in joining'
      /\ status'[a] = "none" => status[a] = "none"
  <2>1. CASE Cancel(a)
    <3>1. cancel \in [Attempts -> BOOLEAN] BY <1>1 DEF FileTypes, LocalTypes
    <3>2. QED BY <1>1, <2>1, <3>1 DEF Cancel, FileTypes, Statuses
  <2>2. CASE CancelJoined(a)
    <3>1. cancel \in [Attempts -> BOOLEAN] BY <1>1 DEF FileTypes, LocalTypes
    <3>2. QED BY <1>1, <2>2, <3>1 DEF CancelJoined, FileTypes, task, locals, Live
  <2>3. QED BY <2>1, <2>2
<1>3. /\ staging' = staging /\ there' = there /\ inode' = inode /\ torn' = torn
      /\ target' = target /\ spoiled' = spoiled
  BY <1>2 DEF files, stagings
<1>4. FileTypes' BY <1>1, <1>2, <1>3 DEF FileTypes, StagingTypes, LocalTypes, kind
<1>5. StepOf(a) BY <1>2, <1>3 DEF StepOf, SameTask, SameFile
<1>6. SameTask(a) /\ SameFile(want[a]) BY <1>2, <1>3 DEF SameTask, SameFile
<1>7. Accounted(a)' BY <1>1, <1>2 DEF Accounted
<1>8. PartsFit(a)' /\ Faithful(a)' /\ Filled(a)' /\ Installing(a)'
  BY <1>1, <1>2, <1>5, <1>6, PartsFitKept, FaithfulKept, FilledKept, InstallingKept
<1>9. FileFits(want[a])' BY <1>1, <1>2, <1>3 DEF FileFits
<1>10. Resumable' BY <1>1, <1>2, <1>3 DEF Resumable, Dividing, Clean
<1>11. TargetIntact' BY <1>1, <1>3, TargetKept
<1>12. QED BY <1>4, <1>5, <1>7, <1>8, <1>9, <1>10, <1>11, StepKeeps

LEMMA GraceExpiresStep ==
  ASSUME FileAssumption, FileInv, NEW a \in Attempts, GraceExpires(a)
  PROVE  FileInv'
<1> DEFINE v == want[a]
<1>1. /\ FileTypes /\ OneWriter /\ Resumable /\ TargetIntact /\ Accounted(a)
      /\ v \in Versions /\ FileFits(v)
  BY Before
<1>2. /\ pc[a] \in Live /\ Ended({a}) /\ joining' = joining \ {a}
      /\ \/ (parts[a] = 1 \/ pc[a] # "copy") /\ UNCHANGED stagings
         \/ Unlink(v)
         \/ Left(a)
      /\ UNCHANGED <<kind, ver, target, spoiled, status, want, resume, parts, handle, flight, faults>>
  BY DEF GraceExpires
<1>3. /\ LocalTypes' /\ pc' \in [Attempts -> Live \cup {"none", "ended"}] /\ pc'[a] = "ended"
      /\ \A b \in Attempts \ {a} : /\ pc'[b] = pc[b] /\ base'[b] = base[b]
                                    /\ done'[b] = done[b] /\ lost'[b] = lost[b]
  BY <1>1, <1>2, EndedIs
<1>4. /\ StagingTypes' /\ FileFits(v)' /\ \A u \in Versions : u # v => SameFile(u)
      /\ v = ver => Resumable'
  <2>1. CASE (parts[a] = 1 \/ pc[a] # "copy") /\ UNCHANGED stagings
    <3>1. /\ staging' = staging /\ there' = there /\ inode' = inode /\ torn' = torn
      BY <2>1 DEF stagings
    <3>2. v = ver => (torn[ver] = {} => Clean(ver)) BY <1>2, <2>1, OwnFileClean DEF Dividing
    <3>3. v = ver => Resumable' BY <1>2, <3>1, <3>2 DEF Resumable, Clean
    <3>4. QED BY <1>1, <1>2, <3>1, <3>3 DEF FileTypes, StagingTypes, FileFits, SameFile
  <2>2. CASE Unlink(v)
    <3>1. /\ StagingTypes' /\ Removed(v) /\ Len(staging'[v]) <= Size
          /\ \A w \in Versions : w # v => SameFile(w)
      BY <1>1, <2>2, UnlinkFile
    <3>2. FileFits(v)' BY <1>2, <3>1 DEF FileFits, Removed
    <3>3. v = ver => Resumable' BY <1>2, <3>1, EmptyResumable DEF Removed
    <3>4. QED BY <3>1, <3>2, <3>3
  <2>3. CASE Left(a)
    <3>1. /\ StagingTypes' /\ torn'[v] # {} /\ staging' = staging /\ there' = there
          /\ \A w \in Versions : w # v => SameFile(w)
      BY <1>1, <2>3, LeftFile
    <3>2. FileFits(v)' BY <1>1, <1>2, <3>1 DEF FileFits
    <3>3. v = ver => Resumable' BY <1>2, <3>1 DEF Resumable
    <3>4. QED BY <3>1, <3>2, <3>3
  <2>4. QED BY <1>2, <2>1, <2>2, <2>3
<1>5. FileTypes' BY <1>1, <1>2, <1>3, <1>4 DEF FileTypes, kind
<1>6. StepOf(a)
  <2>1. \A b \in Attempts \ {a} : ~(pc[b] \in Live /\ want[b] = want[a])
    BY <1>1, <1>2 DEF OneWriter
  <2>2. QED BY <1>2, <1>3, <1>4, <2>1 DEF StepOf, SameTask
<1>7. TargetIntact' BY <1>1, <1>2, TargetKept
<1>8. FileFits(want[a])' BY <1>2, <1>4 DEF FileFits
<1>9. QED BY <1>2, <1>3, <1>4, <1>5, <1>6, <1>7, <1>8, EndStep

(* The staging file may go while a canceled task is still at it.           *)
LEMMA RemoveRecordStep ==
  ASSUME FileAssumption, FileInv, NEW a \in Attempts, RemoveRecord(a)
  PROVE  FileInv'
<1> DEFINE v == want[a]
<1>1. /\ FileTypes /\ Resumable /\ TargetIntact /\ Accounted(a) /\ PartsFit(a)
      /\ Faithful(a) /\ Filled(a) /\ Installing(a) /\ v \in Versions /\ FileFits(v)
  BY Before
<1>2. /\ status[a] \in {"completed", "failed", "canceled"}
      /\ status' = [status EXCEPT ![a] = "gone"]
      /\ UNCHANGED stagings \/ Unlink(v)
      /\ UNCHANGED <<kind, ver, target, spoiled, pc, task, joining, faults>>
  BY DEF RemoveRecord
<1>3. /\ want' = want /\ parts' = parts /\ base' = base /\ handle' = handle /\ done' = done
      /\ flight' = flight /\ lost' = lost /\ broken' = broken /\ cancel' = cancel
      /\ resume' = resume
  BY <1>2 DEF task, locals
<1>4. \A b \in Attempts : Dividing(b) => Dividing(b)' BY <1>2, <1>3 DEF Dividing
<1>5. /\ StagingTypes' /\ FileFits(v)' /\ \A u \in Versions : u # v => SameFile(u)
      /\ v = ver => Resumable'
      /\ SameFile(v) \/ Removed(v)
  <2>1. CASE UNCHANGED stagings
    <3>1. /\ staging' = staging /\ there' = there /\ inode' = inode /\ torn' = torn
      BY <2>1 DEF stagings
    <3>2. Resumable' BY <1>1, <1>2, <1>4, <3>1 DEF Resumable, Clean
    <3>3. FileFits(v)' BY <1>1, <1>2, <1>3, <3>1 DEF FileFits
    <3>4. QED BY <1>1, <3>1, <3>2, <3>3 DEF FileTypes, StagingTypes, SameFile
  <2>2. CASE Unlink(v)
    <3>1. /\ StagingTypes' /\ Removed(v) /\ Len(staging'[v]) <= Size
          /\ \A w \in Versions : w # v => SameFile(w)
      BY <1>1, <2>2, UnlinkFile
    <3>2. FileFits(v)' BY <1>3, <3>1 DEF FileFits, Removed
    <3>3. v = ver => Resumable' BY <1>2, <3>1, EmptyResumable DEF Removed
    <3>4. QED BY <3>1, <3>2, <3>3
  <2>3. QED BY <1>2, <2>1, <2>2
<1>6. FileTypes'
  <2>1. LocalTypes' BY <1>1, <1>3 DEF FileTypes, LocalTypes
  <2>2. QED BY <1>1, <1>2, <1>3, <1>5, <2>1 DEF FileTypes, kind, Statuses
<1>7. SameTask(a) BY <1>2, <1>3 DEF SameTask
<1>8. StepOf(a)
  <2>1. \A b \in Attempts \ {a} : status'[b] = status[b] BY <1>1, <1>2 DEF FileTypes
  <2>2. QED BY <1>2, <1>3, <1>5, <2>1 DEF StepOf, SameTask
<1>9. Accounted(a)'
  <2>1. status'[a] = "gone" BY <1>1, <1>2 DEF FileTypes
  <2>2. QED BY <1>1, <1>2, <1>3, <2>1 DEF Accounted
<1>10. PartsFit(a)' /\ Faithful(a)' /\ Filled(a)' /\ Installing(a)'
  BY <1>1, <1>2, <1>3, <1>5, <1>7, <1>8, PartsFitKept, FaithfulKept, FilledKept, InstallingKept
<1>11. TargetIntact' BY <1>1, <1>2, TargetKept
<1>12. FileFits(want[a])' BY <1>3, <1>5 DEF FileFits
<1>13. QED BY <1>5, <1>6, <1>8, <1>9, <1>10, <1>11, <1>12, StepKeeps

(* A copy by several parts that dies is a lapse of its staging file.       *)
LEMMA CrashStep ==
  ASSUME FileAssumption, FileInv, Crash
  PROVE  FileInv'
<1>1. /\ FileTypes /\ Resumable /\ TargetIntact /\ \A v \in Versions : FileFits(v)
      /\ \A b \in Attempts : Accounted(b) /\ PartsFit(b) /\ Faithful(b)
  BY DEF FileInv
<1> DEFINE ends == {b \in Attempts : pc[b] \in Live}
           dies(v) == \E b \in Attempts : pc[b] = "copy" /\ parts[b] > 1 /\ want[b] = v
<1>2. /\ faults' = faults + 1 /\ joining' = {} /\ Ended(ends)
      /\ torn' = [v \in Versions |-> torn[v] \cup IF dies(v) THEN {"killed"} ELSE {}]
      /\ flight' = flight \/ flight' = [b \in Attempts |-> [i \in AllParts |-> <<>>]]
      /\ status' = [b \in Attempts |-> IF status[b] = "active" THEN "canceled" ELSE status[b]]
      /\ UNCHANGED <<kind, ver, staging, there, inode, target, spoiled, want, resume, parts, handle>>
  BY DEF Crash, Fault
<1>3. ends \in SUBSET Attempts /\ \A b \in Attempts \ ends : pc[b] \in {"none", "ended"}
  BY <1>1 DEF FileTypes
<1> HIDE DEF ends
<1>4. /\ LocalTypes' /\ pc' \in [Attempts -> Live \cup {"none", "ended"}]
      /\ \A b \in Attempts : \/ pc'[b] = "ended"
                             \/ /\ pc'[b] = "none" /\ pc[b] = "none" /\ base'[b] = base[b]
                                /\ done'[b] = done[b] /\ lost'[b] = lost[b]
  <2>1. /\ LocalTypes' /\ pc' \in [Attempts -> Live \cup {"none", "ended"}]
        /\ \A b \in ends : pc'[b] = "ended"
        /\ \A b \in Attempts \ ends : /\ pc'[b] = pc[b] /\ base'[b] = base[b]
                                      /\ done'[b] = done[b] /\ lost'[b] = lost[b]
    BY <1>1, <1>2, <1>3, EndedIs
  <2>2. QED BY <1>3, <2>1
<1>5. \A b \in Attempts : pc'[b] \in {"none", "ended"} BY <1>4
<1>6. FileTypes'
  <2>1. status' \in [Attempts -> Statuses] BY <1>1, <1>2 DEF FileTypes, Statuses
  <2>2. StagingTypes' BY <1>1, <1>2 DEF FileTypes, StagingTypes, Lapses
  <2>3. flight' \in [Attempts -> [AllParts -> Seq(Writes)]]
    <3>1. <<>> \in Seq(Writes) OBVIOUS
    <3>2. [b \in Attempts |-> [i \in AllParts |-> <<>>]] \in [Attempts -> [AllParts -> Seq(Writes)]]
      BY <3>1
    <3>3. flight \in [Attempts -> [AllParts -> Seq(Writes)]] BY <1>1 DEF FileTypes
    <3>4. flight' = flight \/ flight' = [b \in Attempts |-> [i \in AllParts |-> <<>>]] BY <1>2
    <3>5. QED BY <3>2, <3>3, <3>4
  <2>4. QED BY <1>1, <1>2, <1>4, <2>1, <2>2, <2>3 DEF FileTypes, kind
<1>7. OneWriter' BY <1>5 DEF OneWriter, Live
<1>8. TargetIntact' BY <1>1, <1>2, TargetKept
<1>9. \A v \in Versions : FileFits(v)' BY <1>1, <1>2 DEF FileFits
<1>10. Resumable'
  <2> SUFFICES ASSUME torn'[ver] = {} PROVE Clean(ver) BY <1>2 DEF Resumable, Clean
  <2>1. ver \in Versions BY <1>1 DEF FileTypes
  <2>2. torn[ver] = {} /\ ~dies(ver) BY <1>2, <2>1
  <2>3. \A b \in Attempts : ~Dividing(b) BY <2>2 DEF Dividing
  <2>4. QED BY <1>1, <2>2, <2>3 DEF Resumable
<1>11. ASSUME NEW b \in Attempts
       PROVE  /\ Accounted(b)' /\ PartsFit(b)' /\ Faithful(b)'
              /\ Filled(b)' /\ Installing(b)'
  <2>1. Accounted(b)'
    <3>1. status'[b] = "none" => status[b] = "none" BY <1>2
    <3>2. status[b] = "none" => pc'[b] = "none"
      <4>1. pc[b] = "none" => b \notin ends BY DEF ends, Live
      <4>2. pc[b] = "none" => pc'[b] = "none" BY <1>1, <1>2, <4>1 DEF Ended, FileTypes
      <4>3. QED BY <1>1, <4>2 DEF Accounted
    <3>3. QED BY <1>1, <1>2, <1>5, <3>1, <3>2 DEF Accounted, Live
  <2>2. PartsFit(b)'
    <3>1. CASE pc'[b] = "ended" BY <3>1 DEF PartsFit
    <3>2. CASE pc'[b] # "ended"
      <4>1. pc[b] = "none" /\ done'[b] = done[b] /\ lost'[b] = lost[b] /\ pc'[b] = "none"
        BY <1>4, <3>2
      <4>2. \A i \in AllParts : flight'[b][i] = <<>> BY <1>1, <1>2, <4>1 DEF PartsFit
      <4>3. QED BY <1>1, <4>1, <4>2 DEF PartsFit
    <3>3. QED BY <3>1, <3>2
  <2>3. Faithful(b)'
    <3>1. Sound(want[b])' => Sound(want[b]) BY <1>2, <1>5 DEF Sound
    <3>2. CASE flight' = flight BY <1>1, <1>2, <3>1, <3>2 DEF Faithful
    <3>3. CASE flight' = [c \in Attempts |-> [i \in AllParts |-> <<>>]]
      <4>1. \A i \in AllParts : 1..Len(flight'[b][i]) = {} BY <3>3
      <4>2. QED BY <4>1 DEF Faithful
    <3>4. QED BY <1>2, <3>2, <3>3
  <2>4. Filled(b)' /\ Installing(b)' BY <1>5 DEF Filled, Installing
  <2>5. QED BY <2>1, <2>2, <2>3, <2>4
<1>12. QED BY <1>6, <1>7, <1>8, <1>9, <1>10, <1>11 DEF FileInv

LEMMA SourceChangesStep ==
  ASSUME FileAssumption, FileInv, SourceChanges
  PROVE  FileInv'
<1>1. /\ FileTypes /\ OneWriter /\ TargetIntact /\ \A v \in Versions : FileFits(v)
      /\ \A b \in Attempts : /\ Accounted(b) /\ PartsFit(b) /\ Faithful(b)
                              /\ Filled(b) /\ Installing(b) /\ want[b] \in Versions
  BY DEF FileInv, FileTypes
<1>2. /\ ver < MaxVersion /\ ver' = ver + 1 /\ faults' = faults + 1
      /\ UNCHANGED <<kind, files, status, pc, task, joining>>
  BY DEF SourceChanges, Fault
<1>3. ver' \in Versions /\ ver \in Nat /\ ver' > ver
  BY <1>1, <1>2 DEF FileTypes, Versions, FileAssumption
<1>4. /\ staging' = staging /\ there' = there /\ inode' = inode /\ torn' = torn
      /\ target' = target /\ spoiled' = spoiled
      /\ want' = want /\ parts' = parts /\ base' = base /\ handle' = handle /\ done' = done
      /\ flight' = flight /\ lost' = lost /\ broken' = broken /\ cancel' = cancel
      /\ resume' = resume
  BY <1>2 DEF files, stagings, task, locals
<1>5. FileTypes'
  <2>1. StagingTypes' /\ LocalTypes' BY <1>1, <1>4 DEF FileTypes, StagingTypes, LocalTypes
  <2>2. QED BY <1>1, <1>2, <1>3, <1>4, <2>1 DEF FileTypes, kind
<1>6. OneWriter' BY <1>1, <1>2, <1>4 DEF OneWriter
<1>7. TargetIntact' BY <1>1, <1>4, TargetKept
<1>8. ASSUME NEW v \in Versions PROVE FileFits(v)'
  <2>1. v \in Nat /\ (v > ver' => v > ver) BY <1>3 DEF Versions
  <2>2. QED BY <1>1, <1>4, <2>1 DEF FileFits
<1>9. staging[ver'] = <<>> BY <1>1, <1>3 DEF FileFits
<1>10. Resumable' BY <1>4, <1>9 DEF Resumable, Clean
<1>11. ASSUME NEW b \in Attempts
       PROVE  /\ Accounted(b)' /\ PartsFit(b)' /\ Faithful(b)'
              /\ Filled(b)' /\ Installing(b)'
  <2>1. want[b] \in Nat /\ want[b] <= ver BY <1>1 DEF Versions, Accounted
  <2>2. Accounted(b)'
    <3>1. want[b] <= ver' BY <1>3, <2>1 DEF Versions
    <3>2. QED BY <1>1, <1>2, <1>4, <3>1 DEF Accounted
  <2>3. want[b] # ver' BY <1>2, <1>3, <2>1
  <2>4. SameTask(b) BY <1>2, <1>4 DEF SameTask
  <2>5. PartsFit(b)' BY <1>1, <2>4, PartsFitKept
  <2>6. Faithful(b)'
    <3>1. Sound(want[b])' => Sound(want[b]) BY <1>2, <1>4, <2>3 DEF Sound
    <3>2. QED BY <1>1, <1>4, <3>1 DEF Faithful
  <2>7. Filled(b)' BY <1>1, <1>2, <1>4, <2>3 DEF Filled, Dividing
  <2>8. Installing(b)' BY <1>1, <1>2, <1>4 DEF Installing, Whole
  <2>9. QED BY <2>2, <2>5, <2>6, <2>7, <2>8
<1>12. QED BY <1>5, <1>6, <1>7, <1>8, <1>10, <1>11 DEF FileInv

LEMMA Stutter ==
  ASSUME FileAssumption, FileInv, UNCHANGED vars
  PROVE  FileInv'
<1>1. /\ FileTypes /\ OneWriter /\ Resumable /\ TargetIntact /\ \A v \in Versions : FileFits(v)
      /\ \A b \in Attempts : /\ Accounted(b) /\ PartsFit(b) /\ Faithful(b)
                              /\ Filled(b) /\ Installing(b)
  BY DEF FileInv
<1>2. UNCHANGED <<kind, ver, files, status, pc, task, joining, faults>> BY DEF vars
<1>3. /\ staging' = staging /\ there' = there /\ inode' = inode /\ torn' = torn
      /\ target' = target /\ spoiled' = spoiled
      /\ want' = want /\ parts' = parts /\ base' = base /\ handle' = handle /\ done' = done
      /\ flight' = flight /\ lost' = lost /\ broken' = broken /\ cancel' = cancel
      /\ resume' = resume
  BY <1>2 DEF files, stagings, task, locals
<1>4. FileTypes' BY <1>1, <1>2, <1>3 DEF FileTypes, StagingTypes, LocalTypes, kind
<1>5. OneWriter' /\ \A v \in Versions : FileFits(v)' BY <1>1, <1>2, <1>3 DEF OneWriter, FileFits
<1>6. Resumable' BY <1>1, <1>2, <1>3 DEF Resumable, Dividing, Clean
<1>7. TargetIntact' BY <1>1, <1>3, TargetKept
<1>8. ASSUME NEW b \in Attempts
      PROVE  /\ Accounted(b)' /\ PartsFit(b)' /\ Faithful(b)'
             /\ Filled(b)' /\ Installing(b)'
  <2>1. SameTask(b) /\ SameFile(want[b]) BY <1>2, <1>3 DEF SameTask, SameFile
  <2>2. Accounted(b)' BY <1>1, <1>2, <1>3 DEF Accounted
  <2>3. Faithful(b)' BY <1>1, <1>2, <1>3 DEF Faithful, Sound
  <2>4. PartsFit(b)' /\ Filled(b)' /\ Installing(b)'
    BY <1>1, <1>2, <2>1, PartsFitKept, FilledKept, InstallingKept
  <2>5. QED BY <2>2, <2>3, <2>4
<1>9. QED BY <1>4, <1>5, <1>6, <1>7, <1>8 DEF FileInv

-----------------------------------------------------------------------------
(* The invariant holds while a transfer is not repeated before its cancel  *)
(* has returned, for any number of attempts, parts, blocks and versions of *)
(* the source, whatever fails and whenever the process dies.               *)
THEOREM FileInvariant ==
  ASSUME ~EarlyRetry
  PROVE  Spec => []FileInv
<1>1. Init => FileInv BY FileAssumption, InitHolds
<1>2. FileInv /\ [Next]_vars => FileInv'
  <2> SUFFICES ASSUME FileInv, [Next]_vars PROVE FileInv' OBVIOUS
  <2>1. CASE UNCHANGED vars BY <2>1, FileAssumption, Stutter
  <2>2. ASSUME NEW a \in Attempts,
               \/ \E again \in BOOLEAN : Start(a, again)
               \/ Prepare(a) \/ Open(a)
        PROVE  FileInv'
    BY <2>2, FileAssumption, StartStep, PrepareStep, OpenStep
  <2>3. ASSUME NEW a \in Attempts, NEW i \in AllParts,
               PartWrite(a, i) \/ Land(a, i) \/ WriteLost(a, i) \/ PartError(a, i)
        PROVE  FileInv'
    BY <2>3, FileAssumption, PartWriteStep, LandStep, WriteLostStep, PartErrorStep
  <2>4. ASSUME NEW a \in Attempts,
               JoinOk(a) \/ JoinError(a) \/ Verify(a) \/ Replace(a) \/ StepFails(a)
        PROVE  FileInv'
    BY <2>4, FileAssumption, JoinOkStep, JoinErrorStep, VerifyStep, ReplaceStep, StepFailsStep
  <2>5. ASSUME NEW a \in Attempts,
               Cancel(a) \/ CancelJoined(a) \/ GraceExpires(a) \/ RemoveRecord(a)
        PROVE  FileInv'
    BY <2>5, FileAssumption, CancelStep, GraceExpiresStep, RemoveRecordStep
  <2>6. CASE Crash BY <2>6, FileAssumption, CrashStep
  <2>7. CASE SourceChanges BY <2>7, FileAssumption, SourceChangesStep
  <2>8. QED BY <2>1, <2>2, <2>3, <2>4, <2>5, <2>6, <2>7 DEF Next
<1>3. QED BY <1>1, <1>2, PTL DEF Spec

(* The target is only ever replaced by a complete copy of one version of   *)
(* the source, however attempts are interrupted, canceled, resumed and     *)
(* forgotten, unless the staging file that replaced it had met one of the  *)
(* lapses (run_transfer, run_parallel_upload, run_parallel_download).      *)
THEOREM TargetIntactTheorem ==
  ASSUME ~EarlyRetry
  PROVE  Spec => []TargetIntact
<1>1. FileInv => TargetIntact BY DEF FileInv
<1>2. QED BY <1>1, FileInvariant, PTL

(* Between attempts a staging file of the present source that has met no   *)
(* lapse holds its first blocks and nothing else: prepare_local_staging    *)
(* and prepare_remote_staging may trust its length.                        *)
THEOREM StagingTheorem ==
  ASSUME ~EarlyRetry
  PROVE  Spec => []StagingResumable
<1>1. FileInv => StagingResumable
  <2> SUFFICES ASSUME FileInv, \A a \in Attempts : pc[a] \notin Live, torn[ver] = {}
               PROVE  Clean(ver)
    BY DEF StagingResumable, Clean
  <2>1. \A a \in Attempts : ~Dividing(a) BY DEF Dividing, Live
  <2>2. QED BY <2>1 DEF FileInv, Resumable
<1>2. QED BY <1>1, FileInvariant, PTL
=============================================================================
