------------------------- MODULE TerminalFlow_proofs -------------------------
(***************************************************************************)
(* The output path of a terminal, for any feed, capacity and size of       *)
(* frames and buffers: the flow control implements TerminalCredit, credit  *)
(* is conserved and the backlog of the WebView bounded, and no output is   *)
(* lost, repeated or reordered on its way to the screen.                   *)
(***************************************************************************)
EXTENDS TerminalFlow, Integers, TLAPS, SequenceTheorems, WellFoundedInduction

-----------------------------------------------------------------------------
(* Numbers.                                                                *)

LEMMA Division ==
  ASSUME NEW a \in Nat, NEW b \in Nat, b > 0
  PROVE  a \div b \in Nat /\ (a \div b) * b <= a /\ a < (a \div b) * b + b
  OBVIOUS

LEMMA Products ==
  ASSUME NEW a \in Nat, NEW b \in Nat, NEW c \in Nat, a <= b
  PROVE  a * c <= b * c /\ a * c \in Nat /\ (a + 1) * c = a * c + c
  OBVIOUS

(* A set of numbers has a least one; induction over sequences rests on it. *)
LEMMA Least ==
  ASSUME NEW S \in SUBSET Nat, S # {}
  PROVE  \E x \in S : \A y \in S : x <= y
<1> DEFINE R == {ss \in Nat \X Nat : ss[1] < ss[2]}
<1>1. IsWellFoundedOn(R, Nat) BY NatLessThanWellFounded, Zenon DEF OpToRel
<1>2. PICK x \in S : \A y \in S : ~(<<y, x>> \in R)
  <2> HIDE DEF R
  <2> QED BY <1>1, WFMin
<1>3. ASSUME NEW y \in S PROVE x <= y
  <2>1. ~(<<y, x>> \in R) BY <1>2
  <2>2. <<y, x>> \in Nat \X Nat OBVIOUS
  <2> QED BY <2>1, <2>2
<1>4. QED BY <1>3

LEMMA MinIs ==
  ASSUME NEW S \in SUBSET Nat, S # {}
  PROVE  Min(S) \in S /\ \A y \in S : Min(S) <= y
<1>1. \E x \in S : \A y \in S : x =< y BY Least
<1>2. QED BY <1>1 DEF Min

-----------------------------------------------------------------------------
(* The bytes of a sequence of frames.                                      *)

Frames == [kind : Kinds \cup {"closed"}, data : Seq(Nat)]

UptoN(s, n, u) ==
  /\ u \in [0..n -> Seq(Nat)] /\ u[0] = <<>>
  /\ \A k \in 1..n : u[k] = u[k - 1] \o s[k].data
Upto(s, u) == UptoN(s, Len(s), u)

LEMMA UptoExists ==
  ASSUME NEW s \in Seq(Frames)
  PROVE  \E u : Upto(s, u)
<1> DEFINE S == {n \in Nat : n <= Len(s) /\ ~\E u : UptoN(s, n, u)}
<1>0. Len(s) \in Nat OBVIOUS
<1>1. \A n \in Nat : n <= Len(s) /\ n \notin S => \E u : UptoN(s, n, u) OBVIOUS
<1>2. SUFFICES S = {} BY <1>0, <1>1 DEF Upto
<1>3. SUFFICES ASSUME S # {} PROVE FALSE OBVIOUS
<1>4. \A n \in S : n \in Nat /\ n <= Len(s) /\ ~\E u : UptoN(s, n, u) OBVIOUS
<1>5. S \in SUBSET Nat OBVIOUS
<1> HIDE DEF S
<1>6. PICK n \in S : \A m \in S : n <= m BY <1>3, <1>5, Least
<1>7. n \in Nat /\ n <= Len(s) /\ ~\E u : UptoN(s, n, u) BY <1>4
<1>8. CASE n = 0
  <2>1. UptoN(s, 0, [k \in 0..0 |-> <<>>]) BY DEF UptoN
  <2>2. QED BY <1>7, <1>8, <2>1
<1>9. CASE n # 0
  <2>1. n - 1 \in Nat /\ n - 1 <= Len(s) BY <1>0, <1>7, <1>9
  <2>2. n - 1 \notin S BY <1>6, <1>7
  <2>3. PICK u : UptoN(s, n - 1, u) BY <1>1, <2>1, <2>2
  <2> DEFINE w == [k \in 0..n |-> IF k = n THEN u[n - 1] \o s[n].data ELSE u[k]]
  <2>4. s[n] \in Frames BY <1>7, <1>9
  <2>5. s[n].data \in Seq(Nat) BY <2>4 DEF Frames
  <2>6. u[n - 1] \in Seq(Nat) /\ \A k \in 0..(n - 1) : u[k] \in Seq(Nat)
    <3>1. u \in [0..(n - 1) -> Seq(Nat)] BY <2>3 DEF UptoN
    <3>2. n - 1 \in 0..(n - 1) BY <2>1
    <3>3. QED BY <3>1, <3>2
  <2>7. u[n - 1] \o s[n].data \in Seq(Nat) BY <2>5, <2>6, ConcatProperties
  <2>8. w \in [0..n -> Seq(Nat)]
    <3>1. \A k \in 0..n : k # n => k \in 0..(n - 1) BY <1>7
    <3>2. QED BY <2>6, <2>7, <3>1
  <2>9. w[0] = <<>> BY <1>7, <1>9, <2>3 DEF UptoN
  <2>10. ASSUME NEW k \in 1..n PROVE w[k] = w[k - 1] \o s[k].data
    <3>1. k \in 0..n /\ k - 1 \in 0..n /\ k - 1 # n BY <1>7
    <3>2. w[k - 1] = u[k - 1] BY <3>1
    <3>3. CASE k = n BY <3>1, <3>2, <3>3
    <3>4. CASE k # n
      <4>1. k \in 1..(n - 1) BY <1>7, <3>4
      <4>2. u[k] = u[k - 1] \o s[k].data BY <2>3, <4>1 DEF UptoN
      <4>3. QED BY <3>1, <3>2, <3>4, <4>2
    <3>5. QED BY <3>3, <3>4
  <2>11. UptoN(s, n, w)
    <3> HIDE DEF w
    <3> QED BY <2>8, <2>9, <2>10 DEF UptoN
  <2>12. QED BY <1>7, <2>11
<1>10. QED BY <1>8, <1>9

LEMMA BytesUpto ==
  ASSUME NEW s \in Seq(Frames)
  PROVE  \E u : Upto(s, u) /\ Bytes(s) = u[Len(s)]
<1> DEFINE F(u) == [k \in 0..Len(s) |-> IF k = 0 THEN <<>> ELSE u[k - 1] \o s[k].data]
<1>1. PICK u : Upto(s, u) BY UptoExists
<1>2. u = F(u)
  <2>1. \A k \in 0..Len(s) : u[k] = IF k = 0 THEN <<>> ELSE u[k - 1] \o s[k].data
    <3> SUFFICES ASSUME NEW k \in 0..Len(s)
                 PROVE  u[k] = IF k = 0 THEN <<>> ELSE u[k - 1] \o s[k].data
      OBVIOUS
    <3>1. Len(s) \in Nat OBVIOUS
    <3>2. CASE k = 0 BY <1>1, <3>2 DEF Upto, UptoN
    <3>3. CASE k # 0
      <4>1. k \in 1..Len(s) BY <3>1, <3>3
      <4>2. u[k] = u[k - 1] \o s[k].data BY <1>1, <4>1 DEF Upto, UptoN
      <4>3. QED BY <3>3, <4>2
    <3>4. QED BY <3>2, <3>3
  <2>2. DOMAIN u = 0..Len(s) /\ u = [k \in DOMAIN u |-> u[k]] BY <1>1 DEF Upto, UptoN
  <2>3. QED BY <2>1, <2>2
<1>3. PICK w : w = F(w) /\ Bytes(s) = w[Len(s)] BY <1>2 DEF Bytes
<1> DEFINE S == {n \in Nat : n <= Len(s) /\ w[n] # u[n]}
<1>4. S = {}
  <2> SUFFICES ASSUME S # {} PROVE FALSE OBVIOUS
  <2>1. PICK n \in S : \A m \in S : n <= m
    <3>1. S \in SUBSET Nat OBVIOUS
    <3> HIDE DEF S
    <3> QED BY <3>1, Least
  <2>2. n \in 0..Len(s) /\ w[n] # u[n] /\ Len(s) \in Nat BY <2>1
  <2>3. w[n] = (IF n = 0 THEN <<>> ELSE w[n - 1] \o s[n].data) BY <1>3, <2>2
  <2>4. u[n] = (IF n = 0 THEN <<>> ELSE u[n - 1] \o s[n].data) BY <1>2, <2>2
  <2>5. n # 0 => w[n - 1] = u[n - 1] BY <2>1, <2>2
  <2>6. QED BY <2>2, <2>3, <2>4, <2>5
<1>5. w[Len(s)] = u[Len(s)]
  <2>1. Len(s) \in Nat OBVIOUS
  <2>2. QED BY <1>4, <2>1
<1>6. QED BY <1>1, <1>3, <1>5

LEMMA BytesType ==
  ASSUME NEW s \in Seq(Frames)
  PROVE  Bytes(s) \in Seq(Nat) /\ Payload(s) \in Nat /\ Payload(s) = Len(Bytes(s))
<1>1. PICK u : Upto(s, u) /\ Bytes(s) = u[Len(s)] BY BytesUpto
<1>2. Len(s) \in 0..Len(s) OBVIOUS
<1>3. Bytes(s) \in Seq(Nat) BY <1>1, <1>2 DEF Upto, UptoN
<1>4. QED BY <1>3 DEF Payload

LEMMA BytesEmpty == Bytes(<<>>) = <<>>
<1>1. <<>> \in Seq(Frames) /\ Len(<<>>) = 0 OBVIOUS
<1>2. PICK u : Upto(<<>>, u) /\ Bytes(<<>>) = u[Len(<<>>)] BY <1>1, BytesUpto
<1>3. QED BY <1>1, <1>2 DEF Upto, UptoN

(* Concatenation, as an operator whose laws the provers are given.         *)
Cat(x, y) == x \o y

LEMMA CatType ==
  ASSUME NEW x \in Seq(Nat), NEW y \in Seq(Nat)
  PROVE  Cat(x, y) \in Seq(Nat) /\ Len(Cat(x, y)) = Len(x) + Len(y)
  BY ConcatProperties DEF Cat

LEMMA CatEmpty ==
  ASSUME NEW x \in Seq(Nat)
  PROVE  Cat(x, <<>>) = x /\ Cat(<<>>, x) = x
  BY ConcatEmptySeq DEF Cat

LEMMA CatAssoc ==
  ASSUME NEW x \in Seq(Nat), NEW y \in Seq(Nat), NEW z \in Seq(Nat)
  PROVE  Cat(Cat(x, y), z) = Cat(x, Cat(y, z))
  BY SMTT(30) DEF Cat

LEMMA BytesConcat ==
  ASSUME NEW s \in Seq(Frames), NEW t \in Seq(Frames)
  PROVE  s \o t \in Seq(Frames) /\ Bytes(s \o t) = Bytes(s) \o Bytes(t)
<1>1. /\ s \o t \in Seq(Frames) /\ Len(s \o t) = Len(s) + Len(t)
      /\ \A i \in 1..(Len(s) + Len(t)) :
           (s \o t)[i] = IF i <= Len(s) THEN s[i] ELSE t[i - Len(s)]
  BY ConcatProperties
<1>2. PICK u : Upto(s, u) /\ Bytes(s) = u[Len(s)] BY BytesUpto
<1>3. PICK w : Upto(t, w) /\ Bytes(t) = w[Len(t)] BY BytesUpto
<1>4. PICK v : Upto(s \o t, v) /\ Bytes(s \o t) = v[Len(s \o t)] BY <1>1, BytesUpto
<1>5. Len(s) \in Nat /\ Len(t) \in Nat OBVIOUS
<1> DEFINE S == {n \in Nat : n <= Len(s) /\ v[n] # u[n]}
           Good(n) == v[Len(s) + n] = u[Len(s)] \o w[n]
           T == {n \in Nat : n <= Len(t) /\ ~Good(n)}
<1>6. S = {}
  <2> SUFFICES ASSUME S # {} PROVE FALSE OBVIOUS
  <2>1. PICK n \in S : \A m \in S : n <= m
    <3>1. S \in SUBSET Nat OBVIOUS
    <3> HIDE DEF S
    <3> QED BY <3>1, Least
  <2>2. n \in Nat /\ n <= Len(s) /\ v[n] # u[n] BY <2>1
  <2>3. n # 0 BY <1>2, <1>4, <2>2 DEF Upto, UptoN
  <2>4. n \in 1..Len(s) /\ n \in 1..Len(s \o t) /\ (s \o t)[n] = s[n] BY <1>1, <1>5, <2>2, <2>3
  <2>5. v[n] = v[n - 1] \o s[n].data BY <1>4, <2>4 DEF Upto, UptoN
  <2>6. u[n] = u[n - 1] \o s[n].data BY <1>2, <2>4 DEF Upto, UptoN
  <2>7. v[n - 1] = u[n - 1] BY <2>1, <2>2, <2>3, <1>5
  <2>8. QED BY <2>2, <2>5, <2>6, <2>7
<1>7. v[Len(s)] = u[Len(s)] BY <1>5, <1>6
<1>8. u[Len(s)] \in Seq(Nat) /\ \A n \in 0..Len(t) : w[n] \in Seq(Nat)
  <2>1. Len(s) \in 0..Len(s) BY <1>5
  <2>2. QED BY <1>2, <1>3, <2>1 DEF Upto, UptoN
<1>9. \A n \in Nat : n <= Len(t) /\ n \notin T => Good(n) OBVIOUS
<1>10. T = {}
  <2> SUFFICES ASSUME T # {} PROVE FALSE OBVIOUS
  <2>1. T \in SUBSET Nat OBVIOUS
  <2>2. \A n \in T : n \in Nat /\ n <= Len(t) /\ ~Good(n) OBVIOUS
  <2> HIDE DEF T, Good
  <2>3. PICK n \in T : \A m \in T : n <= m BY <2>1, Least
  <2>4. n \in Nat /\ n <= Len(t) /\ ~Good(n) BY <2>2
  <2>5. n # 0
    <3>1. u[Len(s)] \o <<>> = u[Len(s)] BY <1>8, ConcatEmptySeq
    <3>2. w[0] = <<>> BY <1>3 DEF Upto, UptoN
    <3>3. v[Len(s) + 0] = u[Len(s)] \o w[0] BY <1>5, <1>7, <3>1, <3>2
    <3>4. QED BY <2>4, <3>3 DEF Good
  <2>6. /\ n \in 1..Len(t) /\ Len(s) + n \in 1..Len(s \o t) /\ (s \o t)[Len(s) + n] = t[n]
        /\ n - 1 \in 0..Len(t) /\ (Len(s) + n) - 1 = Len(s) + (n - 1)
    BY <1>1, <1>5, <2>4, <2>5
  <2>7. v[Len(s) + n] = v[(Len(s) + n) - 1] \o t[n].data BY <1>4, <2>6 DEF Upto, UptoN
  <2>8. w[n] = w[n - 1] \o t[n].data BY <1>3, <2>6 DEF Upto, UptoN
  <2>9. n - 1 \notin T BY <2>3, <2>4
  <2>10. v[Len(s) + (n - 1)] = u[Len(s)] \o w[n - 1] 
    <3>1. n - 1 \in Nat /\ n - 1 <= Len(t) BY <1>5, <2>6
    <3>2. Good(n - 1) BY <1>9, <2>9, <3>1
    <3>3. QED BY <3>2 DEF Good
  <2>11. t[n] \in Frames BY <2>6
  <2>12. t[n].data \in Seq(Nat) BY <2>11 DEF Frames
  <2>13. w[n - 1] \in Seq(Nat) /\ u[Len(s)] \in Seq(Nat) BY <1>8, <2>6
  <2>14. (u[Len(s)] \o w[n - 1]) \o t[n].data = u[Len(s)] \o (w[n - 1] \o t[n].data)
    <3> DEFINE x == u[Len(s)]
               y == w[n - 1]
               z == t[n].data
    <3>1. x \in Seq(Nat) /\ y \in Seq(Nat) /\ z \in Seq(Nat) BY <2>12, <2>13
    <3> HIDE DEF x, y, z
    <3>2. Cat(Cat(x, y), z) = Cat(x, Cat(y, z)) BY <3>1, CatAssoc
    <3>3. QED BY <3>2 DEF x, y, z, Cat
  <2>15. Good(n) BY <2>6, <2>7, <2>8, <2>10, <2>14 DEF Good
  <2>16. QED BY <2>4, <2>15
<1>11. v[Len(s) + Len(t)] = u[Len(s)] \o w[Len(t)]
  <2> HIDE DEF T
  <2>1. Len(t) <= Len(t) BY <1>5
  <2>2. Good(Len(t)) BY <1>5, <1>9, <1>10, <2>1
  <2>3. QED BY <2>2
<1>12. QED BY <1>1, <1>2, <1>3, <1>4, <1>11

LEMMA BytesOne ==
  ASSUME NEW f \in Frames
  PROVE  <<f>> \in Seq(Frames) /\ Bytes(<<f>>) = f.data
<1>1. <<f>> \in Seq(Frames) /\ Len(<<f>>) = 1 /\ <<f>>[1] = f OBVIOUS
<1>2. PICK u : Upto(<<f>>, u) /\ Bytes(<<f>>) = u[1] BY <1>1, BytesUpto
<1>3. f.data \in Seq(Nat) BY DEF Frames
<1>4. 1 \in 1..Len(<<f>>) /\ 1 - 1 = 0 BY <1>1
<1>5. u[1] = u[0] \o f.data /\ u[0] = <<>> BY <1>1, <1>2, <1>4 DEF Upto, UptoN
<1>6. QED BY <1>1, <1>2, <1>3, <1>5, ConcatEmptySeq

LEMMA BytesAppend ==
  ASSUME NEW s \in Seq(Frames), NEW f \in Frames
  PROVE  Append(s, f) \in Seq(Frames) /\ Bytes(Append(s, f)) = Bytes(s) \o f.data
<1>1. Append(s, f) = s \o <<f>> BY AppendIsConcat
<1>2. <<f>> \in Seq(Frames) /\ Bytes(<<f>>) = f.data BY BytesOne
<1>3. QED BY <1>1, <1>2, BytesConcat

LEMMA BytesHead ==
  ASSUME NEW s \in Seq(Frames), s # <<>>
  PROVE  /\ Head(s) \in Frames /\ Tail(s) \in Seq(Frames)
         /\ Bytes(s) = Head(s).data \o Bytes(Tail(s))
<1>1. Head(s) \in Frames /\ Tail(s) \in Seq(Frames) BY HeadTailProperties
<1>2. <<Head(s)>> \in Seq(Frames) /\ Bytes(<<Head(s)>>) = Head(s).data BY <1>1, BytesOne
<1>3. s = <<Head(s)>> \o Tail(s) BY <1>1
<1>4. QED BY <1>1, <1>2, <1>3, BytesConcat

-----------------------------------------------------------------------------
(* The invariant.                                                          *)

(* Frames that carry output: never empty, never larger than send_frame     *)
(* accepts.                                                                *)
OutFrames == {f \in [kind : Kinds, data : Seq(Nat)] : Len(f.data) \in 1..BatchBytes}
Messages == {m \in [kind : Kinds, n : Nat \ {0}] : m.kind = "system" => m.n <= BatchBytes}
ReaderPcs == {"read", "emit", "send", "push", "remove", "announce", "done"}
StartPcs == {"idle", "lookup", "lock", "send", "push", "ok", "err", "started", "refused"}
ClosePcs == {"idle", "shut", "join", "announce", "done"}

FlowTypes ==
  /\ feed \in Seq(Messages) /\ arrived \in Nat
  /\ pc \in [Tasks -> ReaderPcs \cup StartPcs \cup ClosePcs]
  /\ pc["reader"] \in ReaderPcs /\ pc["start"] \in StartPcs /\ pc["close"] \in ClosePcs
  /\ gate \in {"free", "reader", "start"}
  /\ ready \in Seq(OutFrames) /\ pending \in Seq(OutFrames) /\ startq \in Seq(OutFrames)
  /\ batch \in [kind : Kinds, data : Seq(Nat)] /\ Len(batch.data) < BatchBytes
  /\ leaving \in BOOLEAN /\ channel \in BOOLEAN /\ streaming \in BOOLEAN
  /\ slots \in Nat /\ sent \in Nat /\ acked \in Nat /\ flowClosed \in BOOLEAN
  /\ wire \in Seq(OutFrames \cup {CloseFrame}) /\ xterm \in Seq(OutFrames)
  /\ stream \in {"none", "open", "cut", "ended"} /\ shown \in Seq(Nat)
  /\ consumed \in Nat /\ acks \in SUBSET Nat

(* Who has frames to send, and that it holds the gate while it sends them. *)
Holding ==
  /\ pc["reader"] \in {"emit", "send", "push"} <=> ready # <<>>
  /\ pc["start"] \in {"send", "push"} <=> startq # <<>>
  /\ \A t \in Senders : pc[t] \in {"send", "push"} <=> gate = t

(* Before terminal_start has the gate nothing leaves the back end, and     *)
(* after it nothing is buffered.                                           *)
Starting ==
  /\ pc["start"] = "idle" <=> stream = "none"
  /\ pc["start"] \in {"idle", "lookup", "lock"} => ~streaming
  /\ ~streaming => /\ ~channel /\ gate = "free" /\ consumed = 0
                   /\ wire = <<>> /\ xterm = <<>> /\ shown = <<>>
  /\ streaming => pending = <<>>

(* What the front end has yet to process was counted as sent.              *)
InPush ==
  IF pc["reader"] = "push" THEN Len(Head(ready).data)
  ELSE IF pc["start"] = "push" THEN Len(Head(startq).data) ELSE 0
Counted == stream = "open" => consumed + Payload(xterm) + Payload(wire) + InPush <= sent

(* The close frame of a reader that ended is the last of the channel.      *)
Sealed ==
  /\ pc["close"] \in {"join", "announce", "done"} => flowClosed
  /\ ~flowClosed =>
       /\ streaming /\ ~channel => pc["reader"] = "done" /\ startq = <<>>
       /\ \A i \in DOMAIN wire : wire[i] = CloseFrame => i = Len(wire) /\ streaming /\ ~channel
       /\ stream = "ended" => wire = <<>> /\ streaming /\ ~channel

FlowInv == FlowTypes /\ Holding /\ Starting /\ Counted
OrderInv == Sealed /\ OutputConserved

-----------------------------------------------------------------------------
(* Frames and the batch.                                                   *)

LEMMA OutFrameIs ==
  ASSUME FlowAssumption
  PROVE  /\ OutFrames \subseteq Frames /\ CloseFrame \in Frames /\ CloseFrame \notin OutFrames
         /\ Seq(OutFrames) \subseteq Seq(Frames)
         /\ Seq(OutFrames \cup {CloseFrame}) \subseteq Seq(Frames)
         /\ \A f \in OutFrames : f.data \in Seq(Nat) /\ Len(f.data) \in 1..BatchBytes
<1>1. OutFrames \subseteq Frames BY DEF OutFrames, Frames
<1>2. CloseFrame \in Frames /\ CloseFrame.data = <<>> BY DEF CloseFrame, Frame, Frames
<1>3. CloseFrame \notin OutFrames BY <1>2 DEF OutFrames
<1>4. \A f \in OutFrames : f.data \in Seq(Nat) /\ Len(f.data) \in 1..BatchBytes BY DEF OutFrames
<1>5. Seq(OutFrames) \subseteq Seq(Frames) BY <1>1, SeqMonotonic
<1>6. Seq(OutFrames \cup {CloseFrame}) \subseteq Seq(Frames) BY <1>1, <1>2, SeqMonotonic
<1>7. QED BY <1>1, <1>2, <1>3, <1>4, <1>5, <1>6

LEMMA OutFrameMade ==
  ASSUME NEW k \in Kinds, NEW d \in Seq(Nat), Len(d) \in 1..BatchBytes
  PROVE  Frame(k, d) \in OutFrames /\ Frame(k, d).data = d
  BY DEF OutFrames, Frame

Chunk(total, k, i) == Frame(k, SubSeq(total, (i - 1) * BatchBytes + 1, i * BatchBytes))

LEMMA ChunksAre ==
  ASSUME FlowAssumption, NEW total \in Seq(Nat), NEW k \in Kinds, NEW full \in Nat,
         full * BatchBytes <= Len(total)
  PROVE  /\ [i \in 1..full |-> Chunk(total, k, i)] \in Seq(OutFrames)
         /\ Bytes([i \in 1..full |-> Chunk(total, k, i)]) = SubSeq(total, 1, full * BatchBytes)
<1> DEFINE s == [i \in 1..full |-> Chunk(total, k, i)]
<1>0. BatchBytes \in Nat /\ BatchBytes >= 1 /\ Len(total) \in Nat BY DEF FlowAssumption
<1>1. ASSUME NEW i \in 1..full
      PROVE  /\ Chunk(total, k, i) \in OutFrames
             /\ (i - 1) * BatchBytes \in Nat /\ i * BatchBytes = (i - 1) * BatchBytes + BatchBytes
             /\ i * BatchBytes <= Len(total)
             /\ Chunk(total, k, i).data = SubSeq(total, (i - 1) * BatchBytes + 1, i * BatchBytes)
  <2>1. i \in Nat /\ i - 1 \in Nat /\ i - 1 <= full /\ i <= full BY <1>1
  <2>2. i * BatchBytes <= full * BatchBytes /\ i * BatchBytes \in Nat BY <1>0, <2>1, Products
  <2>3. (i - 1) * BatchBytes \in Nat
        /\ ((i - 1) + 1) * BatchBytes = (i - 1) * BatchBytes + BatchBytes
    BY <1>0, <2>1, Products
  <2>4. (i - 1) + 1 = i BY <2>1
  <2>5. i * BatchBytes = (i - 1) * BatchBytes + BatchBytes BY <2>3, <2>4
  <2>6. i * BatchBytes <= Len(total) BY <1>0, <2>2
  <2> DEFINE m == (i - 1) * BatchBytes + 1
             n == i * BatchBytes
  <2>7. m \in 1..(Len(total) + 1) /\ n \in (m - 1)..Len(total) /\ n - m + 1 = BatchBytes
    BY <1>0, <2>3, <2>5, <2>6
  <2> HIDE DEF m, n
  <2>8. SubSeq(total, m, n) \in Seq(Nat) /\ Len(SubSeq(total, m, n)) = n - m + 1
    BY <2>7, SubSeqProperties
  <2> DEFINE d == SubSeq(total, m, n)
  <2>d. d \in Seq(Nat) /\ Len(d) \in 1..BatchBytes BY <1>0, <2>7, <2>8
  <2>9. Frame(k, SubSeq(total, m, n)) \in OutFrames
        /\ Frame(k, SubSeq(total, m, n)).data = SubSeq(total, m, n)
    <3> HIDE DEF d
    <3>1. Frame(k, d) \in OutFrames /\ Frame(k, d).data = d BY <2>d, OutFrameMade
    <3>2. QED BY <3>1 DEF d
  <2>10. Chunk(total, k, i) = Frame(k, SubSeq(total, m, n)) BY DEF Chunk, m, n
  <2>11. QED BY <2>3, <2>5, <2>6, <2>9, <2>10 DEF m, n
<1>2. s \in [1..full -> OutFrames] BY <1>1
<1>3. s \in Seq(OutFrames) /\ Len(s) = full BY <1>2, SeqDef
<1>4. s \in Seq(Frames) BY <1>3, OutFrameIs
<1>5. \A i \in 1..full : s[i] = Chunk(total, k, i) OBVIOUS
<1> HIDE DEF s
<1>6. PICK u : Upto(s, u) /\ Bytes(s) = u[full] BY <1>3, <1>4, BytesUpto
<1> DEFINE Good(n) == u[n] = SubSeq(total, 1, n * BatchBytes)
           T == {n \in Nat : n <= full /\ ~Good(n)}
<1>7. \A n \in Nat : n <= full /\ n \notin T => Good(n) OBVIOUS
<1>8. T = {}
  <2> SUFFICES ASSUME T # {} PROVE FALSE OBVIOUS
  <2>1. T \in SUBSET Nat OBVIOUS
  <2>2. \A n \in T : n \in Nat /\ n <= full /\ ~Good(n) OBVIOUS
  <2> HIDE DEF T, Good
  <2>3. PICK n \in T : \A m \in T : n <= m BY <2>1, Least
  <2>4. n \in Nat /\ n <= full /\ ~Good(n) BY <2>2
  <2>5. n # 0
    <3>1. u[0] = <<>> BY <1>6 DEF Upto, UptoN
    <3>2. 0 * BatchBytes = 0 BY <1>0
    <3>3. SubSeq(total, 1, 0) = <<>> BY SubSeqEmpty
    <3>4. Good(0) BY <3>1, <3>2, <3>3 DEF Good
    <3>5. QED BY <2>4, <3>4
  <2>6. n \in 1..full /\ n - 1 \in Nat /\ n - 1 <= full /\ n - 1 \notin T BY <2>3, <2>4, <2>5
  <2>7. u[n] = u[n - 1] \o s[n].data BY <1>3, <1>6, <2>6 DEF Upto, UptoN
  <2>8. u[n - 1] = SubSeq(total, 1, (n - 1) * BatchBytes)
    <3>1. Good(n - 1) BY <1>7, <2>6
    <3>2. QED BY <3>1 DEF Good
  <2>9. /\ s[n].data = SubSeq(total, (n - 1) * BatchBytes + 1, n * BatchBytes)
        /\ (n - 1) * BatchBytes \in Nat /\ n * BatchBytes = (n - 1) * BatchBytes + BatchBytes
        /\ n * BatchBytes <= Len(total)
    BY <1>1, <1>5, <2>6
  <2> DEFINE p == (n - 1) * BatchBytes
             q == n * BatchBytes
  <2>10. p \in 0..Len(total) /\ q \in p..Len(total) /\ 1 \in 1..(Len(total) + 1) /\ 1 - 1 = 0
    BY <1>0, <2>9
  <2> HIDE DEF p, q
  <2>11. SubSeq(total, 1, p) \o SubSeq(total, p + 1, q) = SubSeq(total, 1, q)
    BY <2>10, ConcatAdjacentSubSeq
  <2>12. Good(n) BY <2>7, <2>8, <2>9, <2>11 DEF Good, p, q
  <2>13. QED BY <2>4, <2>12
<1>9. Good(full)
  <2> HIDE DEF T, Good
  <2> QED BY <1>7, <1>8
<1>10. QED BY <1>3, <1>6, <1>9 DEF s

(* TerminalOutputBatch::push neither loses nor reorders bytes, and makes   *)
(* only frames of a valid size.                                            *)
LEMMA PushIs ==
  ASSUME FlowAssumption, NEW b \in [kind : Kinds, data : Seq(Nat)], Len(b.data) < BatchBytes,
         NEW k \in Kinds, NEW d \in Seq(Nat)
  PROVE  /\ Push(b, k, d).ready \in Seq(OutFrames)
         /\ Push(b, k, d).rest \in [kind : Kinds, data : Seq(Nat)]
         /\ Len(Push(b, k, d).rest.data) < BatchBytes
         /\ Bytes(Push(b, k, d).ready) \o Push(b, k, d).rest.data = b.data \o d
<1> DEFINE flush == b.data # <<>> /\ (b.kind # k \/ Len(b.data) + Len(d) > BatchBytes)
           total == IF flush THEN d ELSE b.data \o d
           full == Len(total) \div BatchBytes
           first == IF flush THEN <<b>> ELSE <<>>
           chunks == [i \in 1..full |-> Chunk(total, k, i)]
           rest == SubSeq(total, full * BatchBytes + 1, Len(total))
<1>1. Push(b, k, d).ready = first \o chunks /\ Push(b, k, d).rest = Frame(k, rest)
  BY DEF Push, Chunk
<1>2. b.data \in Seq(Nat) /\ b.data \o d \in Seq(Nat) BY ConcatProperties
<1>3. total \in Seq(Nat) /\ Len(total) \in Nat BY <1>2
<1>4. BatchBytes \in Nat /\ BatchBytes > 0 BY DEF FlowAssumption
<1>5. first \in Seq(OutFrames) /\ first \o chunks = first \o chunks
  <2>1. CASE flush
    <3>1. Len(b.data) \in 1..BatchBytes BY <1>2, <1>4, <2>1
    <3>2. b \in OutFrames BY <3>1 DEF OutFrames
    <3>3. QED BY <2>1, <3>2
  <2>2. CASE ~flush BY <2>2
  <2>3. QED BY <2>1, <2>2
<1>6. first \in Seq(Frames) BY <1>5, OutFrameIs
<1>7. Bytes(first) \o total = b.data \o d
  <2>1. CASE flush
    <3>1. b \in Frames BY DEF Frames
    <3>2. Bytes(<<b>>) = b.data BY <3>1, BytesOne
    <3>3. QED BY <2>1, <3>2
  <2>2. CASE ~flush
    <3>1. <<>> \o total = total BY <1>3, ConcatEmptySeq
    <3>2. QED BY <2>2, <3>1, BytesEmpty
  <2>3. QED BY <2>1, <2>2
<1> HIDE DEF flush, total, first
<1>8. full \in Nat /\ full * BatchBytes <= Len(total) /\ Len(total) < full * BatchBytes + BatchBytes
  BY <1>3, <1>4, Division
<1> HIDE DEF full
<1>9. chunks \in Seq(OutFrames) /\ Bytes(chunks) = SubSeq(total, 1, full * BatchBytes)
  BY <1>3, <1>8, ChunksAre
<1> HIDE DEF chunks
<1>10. full * BatchBytes \in Nat BY <1>4, <1>8, Products
<1> DEFINE c == full * BatchBytes
<1>11. c \in 0..Len(total) /\ 1 \in 1..(Len(total) + 1) /\ Len(total) \in c..Len(total) /\ 1 - 1 = 0
       /\ c + 1 \in 1..(Len(total) + 1) /\ Len(total) \in ((c + 1) - 1)..Len(total)
  BY <1>3, <1>8, <1>10
<1>12. c \in Nat /\ Len(total) < c + BatchBytes BY <1>8, <1>10
<1> HIDE DEF c
<1>13. rest \in Seq(Nat) /\ Len(rest) = Len(total) - (c + 1) + 1
  <2> DEFINE m == c + 1
             n == Len(total)
  <2>1. rest = SubSeq(total, m, n) BY DEF c
  <2>2. m \in 1..(Len(total) + 1) /\ n \in (m - 1)..Len(total) BY <1>11
  <2> HIDE DEF m, n, rest
  <2>3. SubSeq(total, m, n) \in Seq(Nat) /\ Len(SubSeq(total, m, n)) = n - m + 1
    BY <1>3, <2>2, SubSeqProperties
  <2>4. QED BY <2>1, <2>3 DEF m, n
<1>14. Len(rest) < BatchBytes BY <1>3, <1>4, <1>12, <1>13
<1>15. Bytes(chunks) \o rest = total
  <2>1. SubSeq(total, 1, c) \o SubSeq(total, c + 1, Len(total)) = SubSeq(total, 1, Len(total))
    BY <1>3, <1>11, ConcatAdjacentSubSeq
  <2>2. SubSeq(total, 1, Len(total)) = total BY <1>3, SubSeqFull
  <2>3. QED BY <1>9, <2>1, <2>2 DEF c
<1> HIDE DEF rest
<1>16. chunks \in Seq(Frames) BY <1>9, OutFrameIs
<1>17. first \o chunks \in Seq(OutFrames) BY <1>5, <1>9, ConcatProperties
<1>18. Bytes(first \o chunks) = Bytes(first) \o Bytes(chunks) BY <1>6, <1>16, BytesConcat
<1>19. Bytes(first) \in Seq(Nat) /\ Bytes(chunks) \in Seq(Nat) BY <1>6, <1>16, BytesType
<1>20. (Bytes(first) \o Bytes(chunks)) \o rest = Bytes(first) \o (Bytes(chunks) \o rest)
  <2> DEFINE x == Bytes(first)
             y == Bytes(chunks)
  <2>1. x \in Seq(Nat) /\ y \in Seq(Nat) /\ rest \in Seq(Nat) BY <1>13, <1>19
  <2> HIDE DEF x, y
  <2>2. Cat(Cat(x, y), rest) = Cat(x, Cat(y, rest)) BY <2>1, CatAssoc
  <2>3. QED BY <2>2 DEF x, y, Cat
<1>21. Frame(k, rest) \in [kind : Kinds, data : Seq(Nat)] /\ Frame(k, rest).data = rest
  BY <1>13 DEF Frame
<1>22. QED BY <1>1, <1>7, <1>14, <1>15, <1>17, <1>18, <1>20, <1>21

-----------------------------------------------------------------------------
(* The startup buffer.                                                     *)

(* The oldest frames give way, whole, only when the buffer would overflow, *)
(* and what is dropped is a prefix.                                        *)
LEMMA PushPendingIs ==
  ASSUME FlowAssumption, NEW p \in Seq(OutFrames), NEW f \in OutFrames
  PROVE  /\ PushPending(p, f) \in Seq(OutFrames)
         /\ \E d \in Seq(Nat) :
              /\ Bytes(p) \o f.data = d \o Bytes(PushPending(p, f))
              /\ d = <<>> \/ Payload(PushPending(p, f)) > MaxPending - BatchBytes
<1>0. /\ BatchBytes \in Nat /\ MaxPending \in Nat /\ BatchBytes <= MaxPending /\ Len(p) \in Nat
      /\ f.data \in Seq(Nat) /\ Len(f.data) \in 1..BatchBytes /\ p \in Seq(Frames) /\ f \in Frames
  BY OutFrameIs DEF FlowAssumption
<1>1. KeepLast(f) = f BY <1>0 DEF KeepLast
<1> DEFINE L == Len(p)
           From(k) == SubSeq(p, k + 1, L)
           fits == {k \in 0..L : Payload(From(k)) + Len(f.data) <= MaxPending}
           k0 == Min(fits)
<1>2. PushPending(p, f) = Append(From(k0), f) BY <1>1 DEF PushPending
<1>3. ASSUME NEW k \in 0..L PROVE From(k) \in Seq(OutFrames) /\ From(k) \in Seq(Frames)
  <2> DEFINE m == k + 1
  <2>1. m \in 1..(Len(p) + 1) /\ L \in (m - 1)..Len(p) BY <1>0
  <2> HIDE DEF m
  <2>2. SubSeq(p, m, Len(p)) \in Seq(OutFrames) BY <1>0, <2>1, SubSeqProperties
  <2>3. QED BY <2>2, OutFrameIs DEF m
<1>4. k0 \in fits /\ \A k \in fits : k0 <= k
  <2>1. From(L) = <<>> BY <1>0, SubSeqEmpty
  <2>2. Payload(From(L)) = 0
    <3> HIDE DEF From
    <3> QED BY <2>1, BytesEmpty DEF Payload
  <2>3. L \in fits BY <1>0, <2>2
  <2>4. fits \in SUBSET Nat BY <1>0
  <2> HIDE DEF fits
  <2>5. QED BY <2>3, <2>4, MinIs
<1>5. k0 \in 0..L /\ \A k \in 0..L : k < k0 => Payload(From(k)) + Len(f.data) > MaxPending
  <2>1. ASSUME NEW k \in 0..L, k < k0 PROVE Payload(From(k)) + Len(f.data) > MaxPending
    <3>1. k0 \in 0..L BY <1>4
    <3>2. k \notin fits
      <4>1. k \in Int /\ k0 \in Int /\ ~(k0 <= k) BY <1>0, <2>1, <3>1
      <4> HIDE DEF fits, k0
      <4>2. QED BY <1>4, <4>1
    <3>3. From(k) \in Seq(Frames) BY <1>3
    <3>4. Payload(From(k)) \in Nat BY <3>3, BytesType
    <3>5. QED BY <1>0, <3>2, <3>4
  <2>2. QED BY <1>4, <2>1
<1> DEFINE R == From(k0)
<1> HIDE DEF fits, k0
<1>6. R \in Seq(OutFrames) /\ R \in Seq(Frames) BY <1>3, <1>5
<1>7. Append(R, f) \in Seq(OutFrames) BY <1>6
<1>8. Bytes(Append(R, f)) = Bytes(R) \o f.data /\ Append(R, f) \in Seq(Frames)
  <2> HIDE DEF R
  <2> QED BY <1>0, <1>6, BytesAppend
<1>9. PICK d \in Seq(Nat) : Bytes(p) = d \o Bytes(R)
                            /\ (d = <<>> \/ Payload(R) + Len(f.data) > MaxPending - BatchBytes)
  <2>1. CASE k0 = 0
    <3>1. R = p BY <1>0, <2>1, SubSeqFull
    <3>2. Bytes(p) \in Seq(Nat) BY <1>0, BytesType
    <3>3. <<>> \o Bytes(p) = Bytes(p) /\ <<>> \in Seq(Nat) BY <3>2, ConcatEmptySeq
    <3> HIDE DEF R
    <3>4. QED BY <3>1, <3>3
  <2>2. CASE k0 # 0
    <3> DEFINE P == SubSeq(p, 1, k0)
               Q == From(k0 - 1)
    <3>1. k0 \in 1..L /\ k0 - 1 \in 0..L /\ k0 - 1 < k0 /\ (k0 - 1) + 1 = k0 /\ 1 - 1 = 0
          /\ 1 \in 1..(Len(p) + 1) /\ k0 \in 0..Len(p) /\ L \in k0..Len(p)
      BY <1>0, <1>5, <2>2
    <3>2. P \in Seq(OutFrames) BY <1>0, <3>1, SubSeqProperties
    <3>3. P \in Seq(Frames) BY <3>2, OutFrameIs
    <3>4. P \o R = p
      <4>1. SubSeq(p, 1, k0) \o SubSeq(p, k0 + 1, L) = SubSeq(p, 1, L)
        BY <1>0, <3>1, ConcatAdjacentSubSeq
      <4>2. SubSeq(p, 1, L) = p BY <1>0, SubSeqFull
      <4>3. QED BY <4>1, <4>2
    <3>5. Q = <<p[k0]>> \o R
      <4>1. Q = SubSeq(p, k0, L) BY <3>1
      <4>2. SubSeq(p, k0, L) = <<p[k0]>> \o SubSeq(p, k0 + 1, L)
        BY <1>0, <3>1, SubSeqRecursiveFirst
      <4>3. QED BY <4>1, <4>2
    <3>6. p[k0] \in OutFrames BY <3>1
    <3>7. p[k0] \in Frames /\ p[k0].data \in Seq(Nat) /\ Len(p[k0].data) \in 1..BatchBytes
      BY <3>6, OutFrameIs
    <3>8. <<p[k0]>> \in Seq(Frames) /\ Bytes(<<p[k0]>>) = p[k0].data BY <3>7, BytesOne
    <3>9. Payload(Q) + Len(f.data) > MaxPending BY <1>5, <3>1
    <3> HIDE DEF P, Q, R, From
    <3>10. Bytes(Q) = p[k0].data \o Bytes(R) BY <1>6, <3>5, <3>8, BytesConcat
    <3>11. Bytes(R) \in Seq(Nat) /\ Payload(R) \in Nat /\ Payload(R) = Len(Bytes(R)) BY <1>6, BytesType
    <3>12. Payload(Q) = Len(p[k0].data) + Payload(R)
      <4>1. Len(p[k0].data \o Bytes(R)) = Len(p[k0].data) + Len(Bytes(R))
        BY <3>7, <3>11, ConcatProperties
      <4>2. QED BY <3>10, <3>11, <4>1 DEF Payload
    <3>13. Payload(R) + Len(f.data) > MaxPending - BatchBytes
      <4> DEFINE x == Len(p[k0].data)
                 y == Len(f.data)
                 z == Payload(R)
      <4>1. x \in Nat /\ y \in Nat /\ z \in Nat /\ x <= BatchBytes BY <1>0, <3>7, <3>11
      <4>2. Payload(Q) = x + z /\ Payload(Q) + y > MaxPending BY <3>9, <3>12
      <4> HIDE DEF x, y, z
      <4>4. z + y > MaxPending - BatchBytes BY <1>0, <4>1, <4>2
      <4>5. QED BY <4>4 DEF y, z
    <3>14. Bytes(p) = Bytes(P) \o Bytes(R) BY <1>6, <3>3, <3>4, BytesConcat
    <3>15. Bytes(P) \in Seq(Nat) BY <3>3, BytesType
    <3>16. QED BY <3>13, <3>14, <3>15
  <2>3. QED BY <2>1, <2>2
<1> DEFINE N == Append(R, f)
<1> HIDE DEF R, From
<1>10. Bytes(R) \in Seq(Nat) /\ Payload(R) \in Nat /\ Payload(R) = Len(Bytes(R)) BY <1>6, BytesType
<1>11. Payload(N) = Payload(R) + Len(f.data)
  <2>1. Len(Bytes(R) \o f.data) = Len(Bytes(R)) + Len(f.data) BY <1>0, <1>10, ConcatProperties
  <2>2. QED BY <1>8, <1>10, <2>1 DEF Payload
<1>12. Bytes(p) \o f.data = d \o Bytes(N)
  <2> DEFINE r == Bytes(R)
             a == f.data
  <2>1. r \in Seq(Nat) /\ a \in Seq(Nat) BY <1>0, <1>10
  <2>2. Bytes(p) = Cat(d, r) /\ Bytes(N) = Cat(r, a) BY <1>8, <1>9 DEF Cat
  <2> HIDE DEF r, a, N
  <2>3. Cat(Cat(d, r), a) = Cat(d, Cat(r, a)) BY <2>1, CatAssoc
  <2>4. QED BY <2>2, <2>3 DEF Cat, a
<1>13. PushPending(p, f) = N BY <1>2 DEF R
<1>14. QED BY <1>7, <1>9, <1>11, <1>12, <1>13

-----------------------------------------------------------------------------
(* The steps of the reader.                                                *)

LEMMA GoEmitIs ==
  ASSUME FlowTypes, NEW frames \in Seq(OutFrames), NEW last \in BOOLEAN, GoEmit(frames, last)
  PROVE  /\ ready' \in Seq(OutFrames) /\ ready' = frames /\ leaving' \in BOOLEAN
         /\ pc' \in [Tasks -> ReaderPcs \cup StartPcs \cup ClosePcs]
         /\ pc'["reader"] \in {"read", "emit", "remove"}
         /\ pc'["reader"] = "emit" <=> ready' # <<>>
         /\ pc'["start"] = pc["start"] /\ pc'["close"] = pc["close"]
  BY DEF FlowTypes, GoEmit, Tasks, ReaderPcs

LEMMA BatchFrames ==
  ASSUME FlowTypes
  PROVE  /\ AsFrames(batch) \in Seq(OutFrames) /\ Bytes(AsFrames(batch)) = batch.data
         /\ batch.data # <<>> => batch \in OutFrames /\ AsFrames(batch) = <<batch>>
         /\ NoBatch \in [kind : Kinds, data : Seq(Nat)] /\ NoBatch.data = <<>>
<1>1. CASE batch.data = <<>>
  BY <1>1, BytesEmpty DEF AsFrames, FlowTypes, NoBatch, Frame, Kinds
<1>2. CASE batch.data # <<>>
  <2>1. Len(batch.data) \in 1..BatchBytes
    <3>1. batch.data \in Seq(Nat) /\ Len(batch.data) < BatchBytes BY DEF FlowTypes
    <3>2. Len(batch.data) \in Nat /\ Len(batch.data) # 0 BY <1>2, <3>1
    <3>3. BatchBytes \in Nat BY FlowAssumption
    <3>4. QED BY <3>1, <3>2, <3>3
  <2>2. batch \in OutFrames BY <2>1 DEF FlowTypes, OutFrames
  <2>3. batch \in Frames BY <2>2 DEF OutFrames, Frames
  <2>4. Bytes(<<batch>>) = batch.data BY <2>3, BytesOne
  <2>5. NoBatch \in [kind : Kinds, data : Seq(Nat)] /\ NoBatch.data = <<>> BY DEF NoBatch, Frame, Kinds
  <2>6. QED BY <1>2, <2>2, <2>4, <2>5 DEF AsFrames
<1>3. QED BY <1>1, <1>2

(* A step of the reader outside send_frame: only what it has read and is   *)
(* about to emit changes.                                                  *)
LEMMA ReaderAlone ==
  ASSUME FlowInv,
         feed' \in Seq(Messages), arrived' \in Nat, leaving' \in BOOLEAN,
         ready' \in Seq(OutFrames),
         batch' \in [kind : Kinds, data : Seq(Nat)], Len(batch'.data) < BatchBytes,
         pc' \in [Tasks -> ReaderPcs \cup StartPcs \cup ClosePcs],
         pc["reader"] \notin {"send", "push"},
         pc'["reader"] \in ReaderPcs \ {"send", "push"},
         pc'["reader"] = "emit" <=> ready' # <<>>,
         pc'["start"] = pc["start"], pc'["close"] = pc["close"],
         UNCHANGED <<gate, gateState, flow, ipc, front>>
  PROVE  FlowInv'
<1> USE DEF FlowInv
<1>1. FlowTypes' BY DEF FlowTypes, gateState, flow, ipc, front
<1>2. Holding' BY DEF Holding, Senders, gateState
<1>3. Starting' BY DEF Starting, gateState, flow, ipc, front
<1>4. InPush' = InPush BY DEF InPush, gateState
<1>5. Counted' BY <1>4 DEF Counted, flow, ipc, front
<1>6. QED BY <1>1, <1>2, <1>3, <1>5

LEMMA ReadSteps ==
  ASSUME FlowInv, ReadData \/ ReadExit \/ ReadClosed \/ FlushTick \/ ReadEof \/ RemoveRecord
  PROVE  FlowInv'
<1>0. FlowTypes BY DEF FlowInv
<1>1. BatchBytes \in Nat /\ BatchBytes > 0 BY FlowAssumption
<1>2. ASSUME feed # <<>>
      PROVE  /\ Head(feed) \in Messages /\ Tail(feed) \in Seq(Messages) /\ Head(feed).n \in Nat
             /\ arrived + Head(feed).n \in Nat
             /\ Head(feed).kind \in Kinds /\ Head(feed).n > 0
             /\ Numbered(Head(feed).n) \in Seq(Nat) /\ Len(Numbered(Head(feed).n)) = Head(feed).n
             /\ Head(feed).kind = "system" => Head(feed).n <= BatchBytes
  <2>1. feed \in Seq(Messages) /\ arrived \in Nat BY <1>0 DEF FlowTypes
  <2>2. Head(feed) \in Messages /\ Tail(feed) \in Seq(Messages) BY <1>2, <2>1, HeadTailProperties
  <2>3. Head(feed).n \in Nat /\ Head(feed).n > 0 /\ Head(feed).kind \in Kinds
        /\ (Head(feed).kind = "system" => Head(feed).n <= BatchBytes)
    BY <2>2 DEF Messages
  <2>4. Numbered(Head(feed).n) \in Seq(Nat) /\ Len(Numbered(Head(feed).n)) = Head(feed).n
    BY <2>1, <2>3 DEF Numbered
  <2>5. QED BY <2>1, <2>2, <2>3, <2>4
<1>3. NoBatch \in [kind : Kinds, data : Seq(Nat)] /\ Len(NoBatch.data) < BatchBytes
  BY <1>0, <1>1, BatchFrames
<1>4. CASE ReadData
  <2> USE <1>4 DEF ReadData
  <2> DEFINE k == Head(feed).kind
             d == Numbered(Head(feed).n)
             p == Push(batch, k, d)
  <2>1. feed # <<>> OBVIOUS
  <2>2. k \in Kinds /\ d \in Seq(Nat) BY <1>2, <2>1
  <2>3. batch \in [kind : Kinds, data : Seq(Nat)] /\ Len(batch.data) < BatchBytes BY <1>0 DEF FlowTypes
  <2> HIDE DEF k, d
  <2>4. p.ready \in Seq(OutFrames) /\ p.rest \in [kind : Kinds, data : Seq(Nat)]
        /\ Len(p.rest.data) < BatchBytes
    BY <2>2, <2>3, PushIs, FlowAssumption
  <2> DEFINE r == p.rest
             q == p.ready
  <2>5. PICK urgent \in BOOLEAN : /\ batch' = IF urgent THEN NoBatch ELSE r
                                  /\ GoEmit(IF urgent THEN q \o AsFrames(r) ELSE q, FALSE)
    BY DEF k, d
  <2> HIDE DEF r, q, p
  <2>6. r \in [kind : Kinds, data : Seq(Nat)] /\ Len(r.data) < BatchBytes /\ q \in Seq(OutFrames)
    BY <2>4 DEF r, q
  <2>7. AsFrames(r) \in Seq(OutFrames)
    <3>1. CASE r.data = <<>> BY <3>1 DEF AsFrames
    <3>2. CASE r.data # <<>>
      <4>1. r.data \in Seq(Nat) BY <2>6
      <4>2. Len(r.data) \in 1..BatchBytes BY <1>1, <2>6, <3>2, <4>1
      <4>3. r \in OutFrames BY <2>6, <4>2 DEF OutFrames
      <4>4. QED BY <3>2, <4>3 DEF AsFrames
    <3>3. QED BY <3>1, <3>2
  <2> DEFINE frames == IF urgent THEN q \o AsFrames(r) ELSE q
  <2>8. frames \in Seq(OutFrames) BY <2>6, <2>7, ConcatProperties
  <2>9. GoEmit(frames, FALSE) BY <2>5
  <2>10. batch' \in [kind : Kinds, data : Seq(Nat)] /\ Len(batch'.data) < BatchBytes
    BY <1>3, <2>5, <2>6
  <2> HIDE DEF frames
  <2>11. /\ ready' \in Seq(OutFrames) /\ leaving' \in BOOLEAN
         /\ pc' \in [Tasks -> ReaderPcs \cup StartPcs \cup ClosePcs]
         /\ pc'["reader"] \in {"read", "emit", "remove"}
         /\ pc'["reader"] = "emit" <=> ready' # <<>>
         /\ pc'["start"] = pc["start"] /\ pc'["close"] = pc["close"]
    BY <1>0, <2>8, <2>9, GoEmitIs
  <2>12. feed' \in Seq(Messages) /\ arrived' \in Nat BY <1>2, <2>1
  <2>13. QED BY <2>10, <2>11, <2>12, ReaderAlone DEF ReaderPcs, registry
<1>5. CASE ReadExit
  <2> USE <1>5 DEF ReadExit
  <2> DEFINE d == Numbered(Head(feed).n)
             f == Frame("system", d)
             frames == AsFrames(batch) \o <<f>>
  <2>1. feed # <<>> /\ Head(feed).kind = "system" OBVIOUS
  <2>2. d \in Seq(Nat) /\ Len(d) \in 1..BatchBytes BY <1>1, <1>2, <2>1
  <2>3. "system" \in Kinds BY DEF Kinds
  <2> HIDE DEF d
  <2>4. f \in OutFrames BY <2>2, <2>3, OutFrameMade
  <2>5. GoEmit(frames, FALSE) BY DEF d
  <2> HIDE DEF f
  <2>6. frames \in Seq(OutFrames) BY <1>0, <2>4, BatchFrames, ConcatProperties
  <2> HIDE DEF frames
  <2>7. /\ ready' \in Seq(OutFrames) /\ leaving' \in BOOLEAN
        /\ pc' \in [Tasks -> ReaderPcs \cup StartPcs \cup ClosePcs]
        /\ pc'["reader"] \in {"read", "emit", "remove"}
        /\ pc'["reader"] = "emit" <=> ready' # <<>>
        /\ pc'["start"] = pc["start"] /\ pc'["close"] = pc["close"]
    BY <1>0, <2>5, <2>6, GoEmitIs
  <2>8. feed' \in Seq(Messages) /\ arrived' \in Nat BY <1>2, <2>1
  <2>9. QED BY <1>3, <2>7, <2>8, ReaderAlone DEF ReaderPcs
<1>6. CASE ReadClosed
  <2> USE <1>6 DEF ReadClosed
  <2>1. ready = <<>> BY DEF FlowInv, Holding
  <2>2. feed' \in Seq(Messages) BY <1>2
  <2>3. QED BY <1>0, <2>1, <2>2, ReaderAlone DEF FlowTypes, ReaderPcs, Tasks
<1>7. CASE FlushTick
  <2> USE <1>7 DEF FlushTick
  <2>1. <<batch>> \in Seq(OutFrames) BY <1>0, BatchFrames
  <2>2. /\ ready' \in Seq(OutFrames) /\ leaving' \in BOOLEAN
        /\ pc' \in [Tasks -> ReaderPcs \cup StartPcs \cup ClosePcs]
        /\ pc'["reader"] \in {"read", "emit", "remove"}
        /\ pc'["reader"] = "emit" <=> ready' # <<>>
        /\ pc'["start"] = pc["start"] /\ pc'["close"] = pc["close"]
    BY <1>0, <2>1, GoEmitIs
  <2>3. QED BY <1>0, <1>3, <2>2, ReaderAlone DEF ReaderPcs, FlowTypes
<1>8. CASE ReadEof
  <2> USE <1>8 DEF ReadEof
  <2>1. AsFrames(batch) \in Seq(OutFrames) BY <1>0, BatchFrames
  <2>2. /\ ready' \in Seq(OutFrames) /\ leaving' \in BOOLEAN
        /\ pc' \in [Tasks -> ReaderPcs \cup StartPcs \cup ClosePcs]
        /\ pc'["reader"] \in {"read", "emit", "remove"}
        /\ pc'["reader"] = "emit" <=> ready' # <<>>
        /\ pc'["start"] = pc["start"] /\ pc'["close"] = pc["close"]
    BY <1>0, <2>1, GoEmitIs
  <2>3. QED BY <1>0, <1>3, <2>2, ReaderAlone DEF ReaderPcs, FlowTypes
<1>9. CASE RemoveRecord
  <2> USE <1>9 DEF RemoveRecord
  <2>1. ready = <<>> BY DEF FlowInv, Holding
  <2>2. QED BY <1>0, <2>1, ReaderAlone DEF FlowTypes, ReaderPcs, Tasks, reader
<1>10. QED BY <1>4, <1>5, <1>6, <1>7, <1>8, <1>9

-----------------------------------------------------------------------------
(* Sending.                                                                *)

LEMMA PayloadIs ==
  ASSUME NEW s \in Seq(Frames)
  PROVE  /\ Payload(s) \in Nat
         /\ \A f \in Frames : Payload(Append(s, f)) = Payload(s) + Len(f.data)
         /\ s # <<>> => Payload(s) = Len(Head(s).data) + Payload(Tail(s))
<1>1. Bytes(s) \in Seq(Nat) /\ Payload(s) \in Nat BY BytesType
<1>2. ASSUME NEW f \in Frames PROVE Payload(Append(s, f)) = Payload(s) + Len(f.data)
  <2>1. Bytes(Append(s, f)) = Bytes(s) \o f.data BY BytesAppend
  <2>2. f.data \in Seq(Nat) BY DEF Frames
  <2>3. Len(Bytes(s) \o f.data) = Len(Bytes(s)) + Len(f.data) BY <1>1, <2>2, ConcatProperties
  <2>4. QED BY <2>1, <2>3 DEF Payload
<1>3. ASSUME s # <<>> PROVE Payload(s) = Len(Head(s).data) + Payload(Tail(s))
  <2>1. Head(s) \in Frames /\ Tail(s) \in Seq(Frames) /\ Bytes(s) = Head(s).data \o Bytes(Tail(s))
    BY <1>3, BytesHead
  <2>2. Head(s).data \in Seq(Nat) BY <2>1 DEF Frames
  <2>3. Bytes(Tail(s)) \in Seq(Nat) BY <2>1, BytesType
  <2>4. Len(Head(s).data \o Bytes(Tail(s))) = Len(Head(s).data) + Len(Bytes(Tail(s)))
    BY <2>2, <2>3, ConcatProperties
  <2>5. QED BY <2>1, <2>4 DEF Payload
<1>4. QED BY <1>1, <1>2, <1>3

LEMMA EmitStep == FlowInv /\ Emit => FlowInv'
<1> SUFFICES ASSUME FlowInv, Emit PROVE FlowInv' OBVIOUS
<1>0. FlowTypes BY DEF FlowInv
<1>1. ready # <<>> /\ ready \in Seq(OutFrames) BY DEF FlowInv, Holding, FlowTypes, Emit
<1>2. Head(ready) \in OutFrames /\ Tail(ready) \in Seq(OutFrames) BY <1>1, HeadTailProperties
<1>3. CASE channel
  <2>1. /\ gate = "free" /\ gate' = "reader" /\ pc["reader"] = "emit"
        /\ pc' = [pc EXCEPT !["reader"] = "send"]
        /\ UNCHANGED <<reader, gateState, flow, registry, ipc, front>>
    BY <1>3 DEF Emit, reader, gateState
  <2>2. FlowTypes' BY <1>0, <2>1 DEF FlowTypes, reader, gateState, flow, ipc, front, Tasks, ReaderPcs
  <2>3. Holding' BY <2>1, <1>0, <1>1 DEF FlowTypes, FlowInv, Holding, Senders, Tasks, reader, gateState
  <2>4. Starting' BY <1>0, <1>3, <2>1 DEF FlowTypes, FlowInv, Starting, Tasks, reader, gateState, flow, ipc, front
  <2>5. InPush' = InPush BY <1>0, <2>1 DEF FlowTypes, Tasks, InPush, reader, gateState
  <2>6. Counted' BY <2>1, <2>5 DEF FlowInv, Counted, flow, ipc, front
  <2>7. QED BY <2>2, <2>3, <2>4, <2>6 DEF FlowInv
<1>4. CASE ~channel
  <2>1. /\ pending' = (IF streaming THEN pending ELSE PushPending(pending, Head(ready)))
        /\ GoEmit(Tail(ready), leaving) /\ gate' = gate /\ pc["reader"] = "emit"
        /\ UNCHANGED <<feed, arrived, batch, channel, streaming, startq, flow, registry, ipc, front>>
    BY <1>4 DEF Emit
  <2>2. pending \in Seq(OutFrames) /\ leaving \in BOOLEAN BY <1>0 DEF FlowTypes
  <2>3. pending' \in Seq(OutFrames)
    <3>1. PushPending(pending, Head(ready)) \in Seq(OutFrames)
      BY <1>2, <2>2, PushPendingIs, FlowAssumption
    <3>2. QED BY <2>1, <2>2, <3>1
  <2>4. /\ ready' \in Seq(OutFrames) /\ leaving' \in BOOLEAN
        /\ pc' \in [Tasks -> ReaderPcs \cup StartPcs \cup ClosePcs]
        /\ pc'["reader"] \in {"read", "emit", "remove"}
        /\ pc'["reader"] = "emit" <=> ready' # <<>>
        /\ pc'["start"] = pc["start"] /\ pc'["close"] = pc["close"]
    BY <1>0, <1>2, <2>1, <2>2, GoEmitIs
  <2>5. FlowTypes'
    BY <1>0, <2>1, <2>3, <2>4 DEF FlowTypes, flow, ipc, front, ReaderPcs
  <2>6. Holding' BY <2>1, <2>4 DEF FlowInv, Holding, Senders
  <2>7. Starting' BY <2>1, <2>4 DEF FlowInv, Starting, flow, ipc, front
  <2>8. InPush' = InPush BY <2>1, <2>4 DEF InPush
  <2>9. Counted' BY <2>1, <2>8 DEF FlowInv, Counted, flow, ipc, front
  <2>10. QED BY <2>5, <2>6, <2>7, <2>9 DEF FlowInv
<1>5. QED BY <1>3, <1>4 DEF FlowInv, FlowTypes

(* A sender holds the gate and has a frame, and the other one does not     *)
(* send.                                                                   *)
LEMMA SenderIs ==
  ASSUME FlowInv, NEW t \in Senders, pc[t] \in {"send", "push"}
  PROVE  /\ gate = t /\ streaming /\ pending = <<>> /\ NextFrame(t) \in OutFrames
         /\ NextFrame(t).data \in Seq(Nat) /\ Len(NextFrame(t).data) \in 1..BatchBytes
         /\ \A u \in Senders : u # t => pc[u] \notin {"send", "push"}
         /\ t = "reader" => ready # <<>> /\ Head(ready) \in OutFrames /\ Tail(ready) \in Seq(OutFrames)
         /\ t = "start" => startq # <<>> /\ Head(startq) \in OutFrames /\ Tail(startq) \in Seq(OutFrames)
         /\ InPush = IF pc[t] = "push" THEN Len(NextFrame(t).data) ELSE 0
<1>1. gate = t /\ \A u \in Senders : u # t => pc[u] \notin {"send", "push"}
  BY DEF FlowInv, Holding
<1>2. streaming /\ pending = <<>> BY <1>1 DEF FlowInv, Starting, Senders, FlowTypes
<1>3. t = "reader" => ready # <<>> /\ Head(ready) \in OutFrames /\ Tail(ready) \in Seq(OutFrames)
  BY HeadTailProperties DEF FlowInv, Holding, FlowTypes
<1>4. t = "start" => startq # <<>> /\ Head(startq) \in OutFrames /\ Tail(startq) \in Seq(OutFrames)
  BY HeadTailProperties DEF FlowInv, Holding, FlowTypes
<1>5. NextFrame(t) \in OutFrames BY <1>3, <1>4 DEF NextFrame, Senders
<1>6. NextFrame(t).data \in Seq(Nat) /\ Len(NextFrame(t).data) \in 1..BatchBytes
  BY <1>5 DEF OutFrames
<1>7. InPush = IF pc[t] = "push" THEN Len(NextFrame(t).data) ELSE 0
  BY <1>1 DEF InPush, NextFrame, Senders
<1>8. QED BY <1>1, <1>2, <1>3, <1>4, <1>5, <1>6, <1>7

LEMMA InPushType == FlowInv => InPush \in Nat
<1> SUFFICES ASSUME FlowInv PROVE InPush \in Nat OBVIOUS
<1>1. ASSUME NEW t \in Senders, pc[t] = "push" PROVE InPush \in Nat
  <2>1. InPush = Len(NextFrame(t).data) /\ Len(NextFrame(t).data) \in 1..BatchBytes BY <1>1, SenderIs
  <2>2. QED BY <2>1, FlowAssumption
<1>2. CASE \A t \in Senders : pc[t] # "push" BY <1>2 DEF InPush, Senders
<1>3. QED BY <1>1, <1>2

LEMMA AcquireStep ==
  ASSUME FlowInv, NEW t \in Senders, Acquire(t)
  PROVE  FlowInv'
<1>0. FlowTypes BY DEF FlowInv
<1> DEFINE n == Len(NextFrame(t).data)
<1>1. /\ pc[t] = "send" /\ slots >= n /\ slots' = slots - n /\ sent' = sent + n
      /\ pc' = [pc EXCEPT ![t] = "push"]
      /\ UNCHANGED <<gate, reader, gateState, acked, flowClosed, registry, ipc, front>>
  BY DEF Acquire
<1>2. /\ n \in Nat /\ gate = t /\ streaming /\ pending = <<>>
      /\ \A u \in Senders : u # t => pc[u] \notin {"send", "push"}
      /\ InPush = 0
  BY <1>1, SenderIs
<1> HIDE DEF n
<1>3. FlowTypes'
  BY <1>0, <1>1, <1>2 DEF FlowTypes, reader, gateState, ipc, front, Tasks, ReaderPcs, StartPcs, Senders
<1>4. Holding' BY <1>0, <1>1 DEF FlowTypes, FlowInv, Holding, Senders, Tasks, reader, gateState
<1>5. Starting' BY <1>0, <1>1, <1>2 DEF FlowTypes, FlowInv, Starting, Tasks, Senders, reader, gateState, ipc, front
<1>6. InPush' = n
  BY <1>0, <1>1, <1>2 DEF FlowTypes, Tasks, Senders, InPush, NextFrame, reader, gateState, n
<1>7. Payload(xterm) \in Nat /\ Payload(wire) \in Nat
  <2>1. xterm \in Seq(Frames) /\ wire \in Seq(Frames) BY <1>0, OutFrameIs, FlowAssumption DEF FlowTypes
  <2>2. QED BY <2>1, PayloadIs
<1>8. Counted' BY <1>0, <1>1, <1>2, <1>6, <1>7 DEF FlowTypes, FlowInv, Counted, ipc, front
<1>9. QED BY <1>3, <1>4, <1>5, <1>8 DEF FlowInv

(* send_frame fails: its caller gives the gate back.                       *)
LEMMA SendFailsStep ==
  ASSUME FlowInv, NEW t \in Senders, pc[t] \in {"send", "push"}, SendFails(t),
         flowClosed' \in BOOLEAN,
         UNCHANGED <<feed, arrived, channel, streaming, pending, slots, sent, acked, ipc, front>>
  PROVE  FlowInv'
<1>0. FlowTypes BY DEF FlowInv
<1>1. /\ gate = t /\ streaming /\ \A u \in Senders : u # t => pc[u] \notin {"send", "push"}
      /\ InPush \in Nat
  BY SenderIs, InPushType
<1>2. /\ NoBatch \in [kind : Kinds, data : Seq(Nat)] /\ Len(NoBatch.data) < BatchBytes
      /\ AsFrames(batch) \in Seq(OutFrames)
  BY <1>0, BatchFrames, FlowAssumption
<1>3. Payload(xterm) \in Nat /\ Payload(wire) \in Nat
  <2>1. xterm \in Seq(Frames) /\ wire \in Seq(Frames) BY <1>0, OutFrameIs, FlowAssumption DEF FlowTypes
  <2>2. QED BY <2>1, PayloadIs
<1>a. /\ consumed \in Nat /\ sent \in Nat /\ Counted
      /\ UNCHANGED <<consumed, sent, xterm, wire, stream>>
  BY <1>0 DEF FlowTypes, FlowInv, ipc, front
<1>4. CASE t = "reader"
  <2>1. /\ gate' = "free" /\ batch' = NoBatch /\ startq' = startq
        /\ GoEmit(IF leaving THEN <<>> ELSE AsFrames(batch), TRUE)
    BY <1>4 DEF SendFails
  <2> DEFINE frames == IF leaving THEN <<>> ELSE AsFrames(batch)
  <2>a. GoEmit(frames, TRUE) BY <2>1
  <2>b. frames \in Seq(OutFrames) BY <1>2
  <2> HIDE DEF frames
  <2>3. /\ ready' \in Seq(OutFrames) /\ leaving' \in BOOLEAN
        /\ pc' \in [Tasks -> ReaderPcs \cup StartPcs \cup ClosePcs]
        /\ pc'["reader"] \in {"read", "emit", "remove"}
        /\ pc'["reader"] = "emit" <=> ready' # <<>>
        /\ pc'["start"] = pc["start"] /\ pc'["close"] = pc["close"]
    BY <1>0, <2>a, <2>b, GoEmitIs
  <2>4. FlowTypes' BY <1>0, <1>2, <2>1, <2>3 DEF FlowTypes, ipc, front, ReaderPcs
  <2>5. Holding' BY <1>1, <1>4, <2>1, <2>3 DEF FlowInv, Holding, Senders
  <2>6. Starting' BY <1>1, <2>1, <2>3 DEF FlowInv, Starting, ipc, front
  <2>7. InPush' = 0 BY <1>1, <1>4, <2>1, <2>3 DEF InPush, Senders
  <2>8. Counted' BY <1>1, <1>3, <1>a, <2>7 DEF Counted
  <2>9. QED BY <2>4, <2>5, <2>6, <2>8 DEF FlowInv
<1>5. CASE t = "start"
  <2>1. /\ gate' = "free" /\ startq' = <<>> /\ pc' = [pc EXCEPT !["start"] = "err"]
        /\ UNCHANGED <<ready, leaving, batch>>
    BY <1>5 DEF SendFails
  <2>2. FlowTypes' BY <1>0, <2>1 DEF FlowTypes, ipc, front, StartPcs, Tasks
  <2>3. Holding' BY <1>0, <1>1, <1>5, <2>1 DEF FlowTypes, Tasks, FlowInv, Holding, Senders
  <2>4. Starting' BY <1>0, <1>1, <1>5, <2>1 DEF FlowTypes, Tasks, FlowInv, Starting, ipc, front
  <2>5. InPush' = 0 BY <1>0, <1>1, <1>5, <2>1 DEF FlowTypes, Tasks, InPush, Senders
  <2>6. Counted' BY <1>1, <1>3, <1>a, <2>5 DEF Counted
  <2>7. QED BY <2>2, <2>3, <2>4, <2>6 DEF FlowInv
<1>6. QED BY <1>4, <1>5 DEF Senders

LEMMA ChannelSendStep ==
  ASSUME FlowInv, NEW t \in Senders, ChannelSend(t)
  PROVE  FlowInv'
<1>0. FlowTypes BY DEF FlowInv
<1> DEFINE f == NextFrame(t)
<1>1. /\ pc[t] = "push" /\ wire' = Append(wire, f)
      /\ UNCHANGED <<feed, arrived, batch, channel, streaming, pending, flow, registry,
                     events, ipcUp, front>>
  BY DEF ChannelSend
<1>2. /\ f \in OutFrames /\ Len(f.data) \in 1..BatchBytes /\ gate = t /\ streaming
      /\ \A u \in Senders : u # t => pc[u] \notin {"send", "push"}
      /\ InPush = Len(f.data)
      /\ t = "reader" => ready # <<>> /\ Tail(ready) \in Seq(OutFrames)
      /\ t = "start" => startq # <<>> /\ Tail(startq) \in Seq(OutFrames)
  BY <1>1, SenderIs
<1> HIDE DEF f
<1>3. xterm \in Seq(Frames) /\ wire \in Seq(Frames) /\ f \in Frames
  BY <1>0, <1>2, OutFrameIs, FlowAssumption DEF FlowTypes
<1>4. Payload(xterm) \in Nat /\ Payload(wire) \in Nat /\ Payload(wire') = Payload(wire) + Len(f.data)
  BY <1>1, <1>3, PayloadIs
<1>5. wire' \in Seq(OutFrames \cup {CloseFrame}) BY <1>0, <1>1, <1>2 DEF FlowTypes
<1>6. Len(f.data) \in Nat BY <1>2, FlowAssumption
<1>a. /\ consumed \in Nat /\ sent \in Nat /\ Counted
      /\ UNCHANGED <<consumed, sent, xterm, stream>>
  BY <1>0, <1>1 DEF FlowTypes, FlowInv, flow, front
<1>7. CASE t = "reader"
  <2>1. gate' = "free" /\ GoEmit(Tail(ready), leaving) /\ startq' = startq
    BY <1>7 DEF ChannelSend
  <2>2. Tail(ready) \in Seq(OutFrames) /\ leaving \in BOOLEAN BY <1>0, <1>2, <1>7 DEF FlowTypes
  <2>3. /\ ready' \in Seq(OutFrames) /\ leaving' \in BOOLEAN
        /\ pc' \in [Tasks -> ReaderPcs \cup StartPcs \cup ClosePcs]
        /\ pc'["reader"] \in {"read", "emit", "remove"}
        /\ pc'["reader"] = "emit" <=> ready' # <<>>
        /\ pc'["start"] = pc["start"] /\ pc'["close"] = pc["close"]
    BY <1>0, <2>1, <2>2, GoEmitIs
  <2>4. FlowTypes' BY <1>0, <1>1, <1>5, <2>1, <2>3 DEF FlowTypes, flow, front, ReaderPcs
  <2>5. Holding' BY <1>2, <1>7, <2>1, <2>3 DEF FlowInv, Holding, Senders
  <2>6. Starting' BY <1>1, <1>2, <2>1, <2>3 DEF FlowInv, Starting, flow, front
  <2>7. InPush' = 0 BY <1>2, <1>7, <2>1, <2>3 DEF InPush, Senders
  <2>8. Counted' BY <1>2, <1>4, <1>6, <1>a, <2>7 DEF Counted
  <2>9. QED BY <2>4, <2>5, <2>6, <2>8 DEF FlowInv
<1>8. CASE t = "start"
  <2>1. /\ startq' = Tail(startq) /\ Tail(startq) \in Seq(OutFrames)
        /\ gate' = IF Tail(startq) = <<>> THEN "free" ELSE "start"
        /\ pc' = [pc EXCEPT !["start"] = IF Tail(startq) = <<>> THEN "ok" ELSE "send"]
        /\ UNCHANGED <<ready, leaving>>
    BY <1>2, <1>8 DEF ChannelSend
  <2>2. FlowTypes' BY <1>0, <1>1, <1>5, <2>1 DEF FlowTypes, flow, front, StartPcs, Tasks
  <2>3. Holding' BY <1>0, <1>2, <1>8, <2>1 DEF FlowTypes, Tasks, FlowInv, Holding, Senders
  <2>4. Starting' BY <1>0, <1>1, <1>2, <1>8, <2>1 DEF FlowTypes, Tasks, FlowInv, Starting, flow, front
  <2>5. InPush' = 0 BY <1>0, <1>2, <1>8, <2>1 DEF FlowTypes, Tasks, InPush, Senders
  <2>6. Counted' BY <1>2, <1>4, <1>6, <1>a, <2>5 DEF Counted
  <2>7. QED BY <2>2, <2>3, <2>4, <2>6 DEF FlowInv
<1>9. QED BY <1>7, <1>8 DEF Senders

-----------------------------------------------------------------------------
(* terminal_start, the close and the front end.                            *)

LEMMA StartSteps ==
  ASSUME FlowInv, StartLookup \/ StartLock
  PROVE  FlowInv'
<1>0. FlowTypes /\ Counted BY DEF FlowInv
<1>1. CASE StartLookup
  <2> USE <1>1 DEF StartLookup
  <2>1. FlowTypes' BY <1>0 DEF FlowTypes, reader, gateState, flow, ipc, front, Tasks, StartPcs
  <2>2. Holding' BY <1>0 DEF FlowTypes, Tasks, FlowInv, Holding, Senders, reader, gateState
  <2>3. Starting' BY <1>0 DEF FlowTypes, Tasks, FlowInv, Starting, gateState, ipc, front
  <2>4. InPush' = InPush BY <1>0 DEF FlowTypes, Tasks, InPush, reader, gateState
  <2>5. Counted' BY <1>0, <2>4 DEF Counted, flow, ipc, front
  <2>6. QED BY <2>1, <2>2, <2>3, <2>5 DEF FlowInv
<1>2. CASE StartLock
  <2> USE <1>2 DEF StartLock
  <2>0. startq = <<>> /\ gate = "free" BY DEF FlowInv, Holding
  <2>1. FlowTypes' BY <1>0 DEF FlowTypes, reader, flow, ipc, front, Tasks, StartPcs
  <2>2. Holding' BY <1>0, <2>0 DEF FlowTypes, Tasks, FlowInv, Holding, Senders, reader
  <2>3. Starting' BY <1>0 DEF FlowTypes, Tasks, FlowInv, Starting, ipc, front
  <2>4. InPush' = InPush BY <1>0 DEF FlowTypes, Tasks, InPush, reader
  <2>5. Counted' BY <1>0, <2>4 DEF Counted, flow, ipc, front
  <2>6. QED BY <2>1, <2>2, <2>3, <2>5 DEF FlowInv
<1>3. QED BY <1>1, <1>2

LEMMA CloseSteps ==
  ASSUME FlowInv, Close \/ CloseFlow \/ JoinReader
  PROVE  FlowInv'
<1>0. FlowTypes /\ Counted BY DEF FlowInv
<1>1. CASE Close \/ CloseFlow
  <2>1. /\ \E v \in ClosePcs : pc' = [pc EXCEPT !["close"] = v]
        /\ flowClosed' \in BOOLEAN
        /\ UNCHANGED <<gate, reader, gateState, slots, sent, acked, ipc, front>>
    BY <1>0, <1>1 DEF Close, CloseFlow, flow, ClosePcs, FlowTypes
  <2>2. FlowTypes' BY <1>0, <2>1 DEF FlowTypes, reader, gateState, ipc, front, Tasks
  <2>3. Holding' BY <1>0, <2>1 DEF FlowTypes, Tasks, FlowInv, Holding, Senders, reader, gateState
  <2>4. Starting' BY <1>0, <2>1 DEF FlowTypes, Tasks, FlowInv, Starting, gateState, ipc, front
  <2>5. InPush' = InPush BY <1>0, <2>1 DEF FlowTypes, Tasks, InPush, reader, gateState
  <2>6. Counted' BY <1>0, <2>1, <2>5 DEF Counted, ipc, front
  <2>7. QED BY <2>2, <2>3, <2>4, <2>6 DEF FlowInv
<1>2. CASE JoinReader
  <2> USE <1>2 DEF JoinReader
  <2>0. NoBatch \in [kind : Kinds, data : Seq(Nat)] /\ Len(NoBatch.data) < BatchBytes
    BY <1>0, BatchFrames, FlowAssumption
  <2>a. /\ pc' \in [Tasks -> ReaderPcs \cup StartPcs \cup ClosePcs]
        /\ pc'["reader"] = "done" /\ pc'["start"] = pc["start"] /\ pc'["close"] = "announce"
    BY <1>0 DEF FlowTypes, Tasks, ReaderPcs, ClosePcs
  <2>b. ready' \in Seq(OutFrames) /\ gate' \in {"free", "reader", "start"} BY <1>0 DEF FlowTypes
  <2>1. FlowTypes'
    BY <1>0, <2>0, <2>a, <2>b DEF FlowTypes, gateState, flow, ipc, front, ReaderPcs, ClosePcs
  <2>2. Holding' BY <1>0 DEF FlowTypes, Tasks, FlowInv, Holding, Senders, gateState
  <2>3. Starting' BY <1>0 DEF FlowTypes, Tasks, FlowInv, Starting, gateState, ipc, front
  <2>4. InPush' = InPush BY <1>0 DEF FlowTypes, Tasks, InPush, gateState
  <2>5. Counted' BY <1>0, <2>4 DEF Counted, flow, ipc, front
  <2>6. QED BY <2>1, <2>2, <2>3, <2>5 DEF FlowInv
<1>3. QED BY <1>1, <1>2

LEMMA AnnounceStep ==
  ASSUME FlowInv, NEW t \in Closers, Announce(t)
  PROVE  FlowInv'
<1>0. FlowTypes /\ Counted BY DEF FlowInv
<1>1. /\ pc[t] = "announce" /\ gate = "free" /\ pc' = [pc EXCEPT ![t] = "done"]
      /\ channel' = FALSE
      /\ wire' = (IF channel /\ ipcUp THEN Append(wire, CloseFrame) ELSE wire)
      /\ UNCHANGED <<gate, reader, streaming, pending, startq, flow, registry, ipcUp, front>>
  BY DEF Announce
<1>2. wire \in Seq(OutFrames \cup {CloseFrame}) /\ wire \in Seq(Frames) /\ CloseFrame \in Frames
  BY <1>0, OutFrameIs, FlowAssumption DEF FlowTypes
<1>3. wire' \in Seq(OutFrames \cup {CloseFrame}) BY <1>1, <1>2
<1>4. Payload(wire') = Payload(wire)
  <2>1. Len(CloseFrame.data) = 0 BY DEF CloseFrame, Frame
  <2>2. Payload(Append(wire, CloseFrame)) = Payload(wire) + 0 /\ Payload(wire) \in Nat
    BY <1>2, <2>1, PayloadIs
  <2>3. QED BY <1>1, <2>2
<1>5. FlowTypes'
  BY <1>0, <1>1, <1>3 DEF FlowTypes, reader, flow, front, Tasks, Closers, ReaderPcs, ClosePcs
<1>6. Holding' BY <1>0, <1>1 DEF FlowTypes, Tasks, Closers, FlowInv, Holding, Senders, reader
<1>7. Starting' BY <1>0, <1>1 DEF FlowTypes, Tasks, Closers, FlowInv, Starting, front
<1>8. InPush' = InPush BY <1>0, <1>1 DEF FlowTypes, Tasks, Closers, InPush, reader
<1>9. Counted' BY <1>0, <1>1, <1>4, <1>8 DEF Counted, flow, front
<1>10. QED BY <1>5, <1>6, <1>7, <1>9 DEF FlowInv

LEMMA FrontSteps ==
  ASSUME FlowInv, StartStream \/ StartReply \/ ClosedEvent \/ AckTimer \/ IpcFails
  PROVE  FlowInv'
<1>0. FlowTypes /\ Counted /\ Starting BY DEF FlowInv
<1>1. CASE StartStream
  <2> USE <1>1 DEF StartStream
  <2>1. FlowTypes' BY <1>0 DEF FlowTypes, reader, gateState, flow, ipc, Tasks, StartPcs
  <2>2. Holding' BY <1>0 DEF FlowTypes, Tasks, FlowInv, Holding, Senders, reader, gateState
  <2>3. Starting' BY <1>0 DEF FlowTypes, Tasks, Starting, gateState, ipc
  <2>4. InPush' = 0
    <3>1. gate = "free" BY <1>0 DEF Starting
    <3>2. pc["reader"] # "push" /\ pc["start"] # "push" BY <3>1 DEF FlowInv, Holding, Senders
    <3>3. QED BY <1>0, <3>2 DEF FlowTypes, Tasks, InPush
  <2>5. wire' = <<>> /\ xterm' = <<>> /\ consumed' = 0 /\ sent' \in Nat
    BY <1>0 DEF FlowTypes, Starting, flow, ipc
  <2>6. Payload(<<>>) = 0 BY BytesEmpty DEF Payload
  <2>7. Counted' BY <2>4, <2>5, <2>6 DEF Counted
  <2>8. QED BY <2>1, <2>2, <2>3, <2>7 DEF FlowInv
<1>2. CASE StartReply
  <2> USE <1>2 DEF StartReply
  <2>1. FlowTypes' BY <1>0 DEF FlowTypes, reader, gateState, flow, ipc, Tasks, StartPcs
  <2>2. Holding' BY <1>0 DEF FlowTypes, Tasks, FlowInv, Holding, Senders, reader, gateState
  <2>3. Starting' BY <1>0 DEF FlowTypes, Tasks, Starting, gateState, ipc
  <2>4. InPush' = InPush BY <1>0 DEF FlowTypes, Tasks, InPush, reader, gateState
  <2>5. UNCHANGED <<wire, xterm, consumed, sent>> /\ (stream' = "open" => stream = "open")
    BY DEF flow, ipc
  <2>6. Counted' BY <1>0, <2>4, <2>5 DEF Counted
  <2>7. QED BY <2>1, <2>2, <2>3, <2>6 DEF FlowInv
<1>3. CASE ClosedEvent \/ AckTimer \/ IpcFails
  <2>1. /\ stream' \in {"none", "open", "cut", "ended"} /\ (stream' = "none" <=> stream = "none")
        /\ stream' = "open" => stream = "open"
        /\ acks' \in SUBSET Nat
        /\ UNCHANGED <<pc, gate, reader, gateState, flow, wire, xterm, shown, consumed>>
    BY <1>0, <1>3 DEF ClosedEvent, AckTimer, IpcFails, TerminalClosed, FlowTypes, ipc, front
  <2>2. FlowTypes' BY <1>0, <2>1 DEF FlowTypes, reader, gateState, flow
  <2>3. Holding' BY <2>1 DEF FlowInv, Holding, reader, gateState
  <2>4. Starting' BY <1>0, <2>1 DEF Starting, gateState
  <2>5. InPush' = InPush BY <2>1 DEF InPush, reader, gateState
  <2>6. Counted' BY <1>0, <2>1, <2>5 DEF Counted, flow
  <2>7. QED BY <2>2, <2>3, <2>4, <2>6 DEF FlowInv
<1>4. QED BY <1>1, <1>2, <1>3

LEMMA ReceiveStep == FlowInv /\ Receive => FlowInv'
<1> SUFFICES ASSUME FlowInv, Receive PROVE FlowInv' OBVIOUS
<1>0. FlowTypes /\ Counted /\ Starting BY DEF FlowInv
<1> DEFINE h == Head(wire)
<1>1. /\ wire # <<>> /\ wire' = Tail(wire)
      /\ UNCHANGED <<pc, gate, reader, gateState, flow, registry, shown, consumed, acks>>
      /\ \/ stream = "open" /\ stream' = "ended" /\ xterm' = xterm
         \/ stream' = stream /\ stream = "open" /\ h # CloseFrame /\ xterm' = Append(xterm, h)
         \/ stream' = stream /\ stream # "open" /\ xterm' = xterm
  BY DEF Receive, TerminalClosed
<1>2. wire \in Seq(OutFrames \cup {CloseFrame}) BY <1>0 DEF FlowTypes
<1>3. h \in OutFrames \cup {CloseFrame} /\ wire' \in Seq(OutFrames \cup {CloseFrame})
  BY <1>1, <1>2, HeadTailProperties
<1>4. wire \in Seq(Frames) /\ xterm \in Seq(Frames) /\ h \in Frames /\ wire' \in Seq(Frames)
  BY <1>0, <1>2, <1>3, OutFrameIs, FlowAssumption DEF FlowTypes
<1>5. Payload(wire) = Len(h.data) + Payload(wire') /\ Payload(wire') \in Nat BY <1>1, <1>4, PayloadIs
<1> HIDE DEF h
<1>6. Payload(Append(xterm, h)) = Payload(xterm) + Len(h.data) /\ Payload(xterm) \in Nat
  BY <1>4, PayloadIs
<1>7. Len(h.data) \in Nat
  <2>1. h.data \in Seq(Nat) BY <1>4 DEF Frames
  <2>2. QED BY <2>1
<1>8. xterm' \in Seq(OutFrames)
  <2>1. xterm \in Seq(OutFrames) BY <1>0 DEF FlowTypes
  <2>2. h # CloseFrame => Append(xterm, h) \in Seq(OutFrames) BY <1>3, <2>1
  <2>3. QED BY <1>1, <2>1, <2>2
<1>9. FlowTypes' BY <1>0, <1>1, <1>3, <1>8 DEF FlowTypes, reader, gateState, flow
<1>10. Holding' BY <1>1 DEF FlowInv, Holding, reader, gateState
<1>11. Starting' BY <1>0, <1>1 DEF Starting, gateState
<1>12. InPush' = InPush /\ InPush \in Nat BY <1>1, InPushType DEF InPush, reader, gateState
<1>13. consumed \in Nat /\ sent \in Nat /\ consumed' = consumed /\ sent' = sent
  BY <1>0, <1>1 DEF FlowTypes, flow
<1>14. Counted'
  <2> SUFFICES ASSUME stream' = "open"
               PROVE  consumed + Payload(xterm') + Payload(wire') + InPush <= sent
    BY <1>12, <1>13 DEF Counted
  <2>1. stream = "open" /\ xterm' = Append(xterm, h) BY <1>1
  <2>2. consumed + Payload(xterm) + Payload(wire) + InPush <= sent BY <1>0, <2>1 DEF Counted
  <2>3. Payload(xterm') = Payload(xterm) + Len(h.data) BY <1>6, <2>1
  <2> DEFINE a == Payload(xterm)
             b == Payload(wire')
             e == Len(h.data)
  <2>4. a \in Nat /\ b \in Nat /\ e \in Nat /\ consumed + a + (e + b) + InPush <= sent
    BY <1>5, <1>6, <1>7, <2>2
  <2> HIDE DEF a, b, e
  <2>5. consumed + (a + e) + b + InPush <= sent BY <1>12, <1>13, <2>4
  <2>6. QED BY <2>3, <2>5 DEF a, b, e
<1>15. QED BY <1>9, <1>10, <1>11, <1>14 DEF FlowInv

LEMMA ConsumeStep == FlowInv /\ Consume => FlowInv'
<1> SUFFICES ASSUME FlowInv, Consume PROVE FlowInv' OBVIOUS
<1>0. FlowTypes /\ Counted /\ Starting BY DEF FlowInv
<1> DEFINE h == Head(xterm)
           n == Len(h.data)
<1>1. /\ xterm # <<>> /\ xterm' = Tail(xterm) /\ shown' = shown \o h.data
      /\ UNCHANGED <<pc, gate, reader, gateState, flow, registry, ipc, stream>>
      /\ consumed' = IF stream = "open" THEN consumed + n ELSE consumed
      /\ acks' = acks \/ acks' = acks \cup {consumed'}
  BY DEF Consume
<1>2. xterm \in Seq(OutFrames) BY <1>0 DEF FlowTypes
<1>3. h \in OutFrames /\ xterm' \in Seq(OutFrames) BY <1>1, <1>2, HeadTailProperties
<1>4. xterm \in Seq(Frames) /\ h.data \in Seq(Nat) BY <1>2, <1>3, OutFrameIs, FlowAssumption
<1>5. n \in Nat BY <1>4
<1>6. Payload(xterm) = n + Payload(xterm') BY <1>1, <1>4, PayloadIs
<1>7. Payload(xterm') \in Nat /\ Payload(wire) \in Nat
  <2>1. xterm' \in Seq(Frames) /\ wire \in Seq(Frames)
    BY <1>0, <1>3, OutFrameIs, FlowAssumption DEF FlowTypes
  <2>2. QED BY <2>1, PayloadIs
<1> HIDE DEF n, h
<1>8. shown' \in Seq(Nat) BY <1>0, <1>1, <1>4, ConcatProperties DEF FlowTypes
<1>9. consumed' \in Nat /\ acks' \in SUBSET Nat
  <2>1. consumed \in Nat /\ acks \in SUBSET Nat BY <1>0 DEF FlowTypes
  <2>2. consumed' \in Nat BY <1>1, <1>5, <2>1
  <2>3. QED BY <1>1, <2>1, <2>2
<1>10. FlowTypes' BY <1>0, <1>1, <1>3, <1>8, <1>9 DEF FlowTypes, reader, gateState, flow, ipc
<1>11. Holding' BY <1>1 DEF FlowInv, Holding, reader, gateState
<1>12. Starting' BY <1>0, <1>1 DEF Starting, gateState, ipc
<1>13. InPush' = InPush BY <1>1 DEF InPush, reader, gateState
<1>14. consumed \in Nat /\ sent \in Nat /\ sent' = sent /\ wire' = wire /\ stream' = stream
  BY <1>0, <1>1 DEF FlowTypes, flow, ipc
<1>15. InPush \in Nat BY InPushType
<1>16. Counted' BY <1>0, <1>1, <1>5, <1>6, <1>7, <1>13, <1>14, <1>15 DEF Counted
<1>17. QED BY <1>10, <1>11, <1>12, <1>16 DEF FlowInv

LEMMA AcknowledgeStep ==
  ASSUME FlowInv, NEW c \in acks, Acknowledge(c)
  PROVE  FlowInv'
<1>0. FlowTypes /\ Counted /\ Starting BY DEF FlowInv
<1>1. c \in Nat /\ slots \in Nat /\ acked \in Nat BY <1>0 DEF FlowTypes
<1>2. /\ stream' \in {"none", "open", "cut", "ended"} /\ (stream' = "none" <=> stream = "none")
      /\ stream' = "open" => stream = "open"
      /\ acks' \in SUBSET Nat
      /\ UNCHANGED <<pc, gate, reader, gateState, sent, flowClosed, ipc, xterm, shown, consumed>>
  BY <1>0 DEF Acknowledge, TerminalClosed, FlowTypes
<1>3. slots' \in Nat /\ acked' \in Nat
  <2>1. /\ acked' = acked \/ acked' = c
        /\ slots' = slots \/ (c > acked /\ slots' = slots + (c - acked))
    BY DEF Acknowledge
  <2>2. QED BY <1>1, <2>1
<1>4. FlowTypes' BY <1>0, <1>2, <1>3 DEF FlowTypes, reader, gateState, ipc
<1>5. Holding' BY <1>2 DEF FlowInv, Holding, reader, gateState
<1>6. Starting' BY <1>0, <1>2 DEF Starting, gateState, ipc
<1>7. InPush' = InPush BY <1>2 DEF InPush, reader, gateState
<1>8. Counted' BY <1>0, <1>2, <1>7 DEF Counted, ipc
<1>9. QED BY <1>4, <1>5, <1>6, <1>8 DEF FlowInv

-----------------------------------------------------------------------------
LEMMA FlowInit == Init => FlowInv
<1> SUFFICES ASSUME Init PROVE FlowInv OBVIOUS
<1>1. feed \in Seq(Messages) BY FlowAssumption DEF Init, Messages
<1>2. NoBatch \in [kind : Kinds, data : Seq(Nat)] /\ Len(NoBatch.data) = 0
  BY DEF NoBatch, Frame, Kinds
<1>a. /\ pc \in [Tasks -> ReaderPcs \cup StartPcs \cup ClosePcs]
      /\ pc["reader"] \in ReaderPcs /\ pc["start"] \in StartPcs /\ pc["close"] \in ClosePcs
  BY DEF Init, Tasks, ReaderPcs, StartPcs, ClosePcs
<1>b. /\ arrived \in Nat /\ slots \in Nat /\ sent \in Nat /\ acked \in Nat /\ consumed \in Nat
      /\ batch \in [kind : Kinds, data : Seq(Nat)] /\ Len(batch.data) < BatchBytes
  BY <1>2, FlowAssumption DEF Init
<1>c. /\ ready \in Seq(OutFrames) /\ pending \in Seq(OutFrames) /\ startq \in Seq(OutFrames)
      /\ xterm \in Seq(OutFrames) /\ wire \in Seq(OutFrames \cup {CloseFrame})
      /\ shown \in Seq(Nat) /\ acks \in SUBSET Nat
  BY DEF Init
<1>d. /\ gate \in {"free", "reader", "start"} /\ stream \in {"none", "open", "cut", "ended"}
      /\ leaving \in BOOLEAN /\ channel \in BOOLEAN /\ streaming \in BOOLEAN
      /\ flowClosed \in BOOLEAN
  BY DEF Init
<1>3. FlowTypes BY <1>1, <1>a, <1>b, <1>c, <1>d DEF FlowTypes
<1>4. Holding BY DEF Init, Holding, Tasks, Senders
<1>5. Starting BY DEF Init, Starting, Tasks
<1>6. Counted BY DEF Init, Counted
<1>7. QED BY <1>3, <1>4, <1>5, <1>6 DEF FlowInv

LEMMA FlowStep == FlowInv /\ [Next]_vars => FlowInv'
<1> SUFFICES ASSUME FlowInv, [Next]_vars PROVE FlowInv' OBVIOUS
<1>1. CASE UNCHANGED vars
  <2>1. UNCHANGED <<pc, gate, reader, gateState, flow, ipc, front>> BY <1>1 DEF vars
  <2>2. FlowTypes' BY <2>1 DEF FlowInv, FlowTypes, reader, gateState, flow, ipc, front
  <2>3. Holding' BY <2>1 DEF FlowInv, Holding, reader, gateState
  <2>4. Starting' BY <2>1 DEF FlowInv, Starting, gateState, ipc, front
  <2>5. InPush' = InPush BY <2>1 DEF InPush, reader, gateState
  <2>6. Counted' BY <2>1, <2>5 DEF FlowInv, Counted, flow, ipc, front
  <2>7. QED BY <2>2, <2>3, <2>4, <2>6 DEF FlowInv
<1>2. CASE ReadData \/ ReadExit \/ ReadClosed \/ FlushTick \/ ReadEof \/ RemoveRecord BY <1>2, ReadSteps
<1>3. CASE Emit BY <1>3, EmitStep
<1>4. ASSUME NEW t \in Senders, Acquire(t) PROVE FlowInv' BY <1>4, AcquireStep
<1>5. ASSUME NEW t \in Senders, AcquireFails(t) PROVE FlowInv'
  <2>1. /\ pc[t] = "send" /\ SendFails(t) /\ flowClosed' \in BOOLEAN
        /\ UNCHANGED <<feed, arrived, channel, streaming, pending, slots, sent, acked, ipc, front>>
    BY <1>5 DEF AcquireFails, FlowInv, FlowTypes, flow
  <2>2. QED BY <2>1, SendFailsStep
<1>6. ASSUME NEW t \in Senders, ChannelSend(t) PROVE FlowInv' BY <1>6, ChannelSendStep
<1>7. ASSUME NEW t \in Senders, ChannelSendFails(t) PROVE FlowInv'
  <2>1. /\ pc[t] = "push" /\ SendFails(t) /\ flowClosed' \in BOOLEAN
        /\ UNCHANGED <<feed, arrived, channel, streaming, pending, slots, sent, acked, ipc, front>>
    BY <1>7 DEF ChannelSendFails
  <2>2. QED BY <2>1, SendFailsStep
<1>8. CASE StartLookup \/ StartLock BY <1>8, StartSteps
<1>9. CASE Close \/ CloseFlow \/ JoinReader BY <1>9, CloseSteps
<1>10. ASSUME NEW t \in Closers, Announce(t) PROVE FlowInv' BY <1>10, AnnounceStep
<1>11. CASE StartStream \/ StartReply \/ ClosedEvent \/ AckTimer \/ IpcFails BY <1>11, FrontSteps
<1>12. CASE Receive BY <1>12, ReceiveStep
<1>13. CASE Consume BY <1>13, ConsumeStep
<1>14. ASSUME NEW c \in acks, Acknowledge(c) PROVE FlowInv' BY <1>14, AcknowledgeStep
<1>15. QED
  BY <1>1, <1>2, <1>3, <1>4, <1>5, <1>6, <1>7, <1>8, <1>9, <1>10, <1>11, <1>12, <1>13, <1>14 DEF Next

(* What the proofs below know of every state of a terminal.                *)
THEOREM FlowInvariant == Spec => []FlowInv
<1>1. QED BY FlowInit, FlowStep, PTL DEF Spec

-----------------------------------------------------------------------------
(* What TerminalCredit promises.                                           *)

(* Conservation alone is not enough to bound the backlog of the consumer;  *)
(* it also takes that acknowledgments, on their way or counted, lie below  *)
(* what was processed, and that below what was sent.                       *)
CreditInv ==
  /\ Credit!CreditConserved
  /\ consumed \in Nat /\ consumed <= sent
  /\ acked <= consumed
  /\ acks \subseteq 0..consumed

LEMMA CreditInit == Credit!Init => CreditInv
  BY FlowAssumption DEF Credit!Init, CreditInv, Credit!CreditConserved

LEMMA CreditStep == CreditInv /\ [Credit!Next]_(Credit!creditVars) => CreditInv'
<1> SUFFICES ASSUME CreditInv, [Credit!Next]_(Credit!creditVars) PROVE CreditInv'
  OBVIOUS
<1> USE FlowAssumption DEF CreditInv, Credit!CreditConserved
<1>1. ASSUME NEW n \in 1..BatchBytes, Credit!Send(n) PROVE CreditInv'
  BY <1>1 DEF Credit!Send
<1>2. ASSUME NEW n \in 1..BatchBytes, Credit!Process(n) PROVE CreditInv'
  <2>1. /\ consumed' \in Nat /\ consumed' <= sent' /\ consumed <= consumed'
        /\ slots' = slots /\ sent' = sent /\ acked' = acked
    BY <1>2 DEF Credit!Process
  <2>2. 0..consumed \subseteq 0..consumed' /\ consumed' \in 0..consumed' BY <2>1
  <2>3. acks' \subseteq 0..consumed' BY <1>2, <2>2 DEF Credit!Process
  <2>4. QED BY <2>1, <2>3
<1>3. CASE Credit!Announce BY <1>3 DEF Credit!Announce
<1>4. ASSUME NEW c \in acks, Credit!Return(c) PROVE CreditInv'
  <2>1. c \in Nat /\ c <= consumed OBVIOUS
  <2>2. CASE c > acked BY <1>4, <2>1, <2>2 DEF Credit!Return
  <2>3. CASE ~(c > acked) BY <1>4, <2>1, <2>3 DEF Credit!Return
  <2>4. QED BY <2>2, <2>3
<1>5. ASSUME NEW c \in acks, Credit!Ignore(c) PROVE CreditInv' BY <1>5 DEF Credit!Ignore
<1>6. CASE UNCHANGED Credit!creditVars BY <1>6 DEF Credit!creditVars
<1>7. QED BY <1>1, <1>2, <1>3, <1>4, <1>5, <1>6 DEF Credit!Next

(* The flow control of a terminal neither leaks nor invents credit, for    *)
(* any capacity and any order of acknowledgments.                          *)
THEOREM CreditIsConserved == Credit!Spec => []Credit!CreditConserved
<1>1. CreditInv => Credit!CreditConserved BY DEF CreditInv
<1>2. QED BY CreditInit, CreditStep, <1>1, PTL DEF Credit!Spec

(* The bytes sent to the WebView and not yet processed there never exceed  *)
(* TERMINAL_IN_FLIGHT_BYTES.                                               *)
THEOREM BacklogIsBounded == Credit!Spec => []Credit!BacklogBounded
<1>1. CreditInv => Credit!BacklogBounded
  BY FlowAssumption DEF CreditInv, Credit!CreditConserved, Credit!BacklogBounded
<1>2. QED BY CreditInit, CreditStep, <1>1, PTL DEF Credit!Spec

-----------------------------------------------------------------------------
(* The terminal implements TerminalCredit.                                 *)

LEMMA RefineInit == Init => Credit!Init
  BY DEF Init, Credit!Init

LEMMA RefineStep == FlowInv /\ [Next]_vars => [Credit!Next]_(Credit!creditVars)
<1> SUFFICES ASSUME FlowInv, [Next]_vars PROVE Credit!Next \/ UNCHANGED Credit!creditVars
  OBVIOUS
<1>0. UNCHANGED <<slots, sent, acked, consumed, acks>> => UNCHANGED Credit!creditVars
  BY DEF Credit!creditVars
(* Credit is spent only when a sender passes its acquisition.              *)
<1>1. ASSUME NEW t \in Senders, Acquire(t) PROVE Credit!Next
  <2> DEFINE n == Len(NextFrame(t).data)
  <2>1. n \in 1..BatchBytes BY <1>1, SenderIs DEF Acquire
  <2>2. Credit!Send(n) BY <1>1 DEF Acquire, Credit!Send, front
  <2> HIDE DEF n
  <2>3. QED BY <2>1, <2>2 DEF Credit!Next
(* A frame that xterm has parsed was sent, and is counted once.            *)
<1>2. CASE Consume
  <2> DEFINE n == Len(Head(xterm).data)
  <2>1. /\ xterm # <<>> /\ UNCHANGED <<slots, sent, acked>>
        /\ stream = "open" => /\ consumed' = consumed + n
                              /\ acks' = acks \/ acks' = acks \cup {consumed'}
        /\ stream # "open" => UNCHANGED <<consumed, acks>>
    BY <1>2 DEF Consume, flow
  <2>2. xterm \in Seq(OutFrames) /\ wire \in Seq(OutFrames \cup {CloseFrame})
    BY DEF FlowInv, FlowTypes
  <2>3. Head(xterm) \in OutFrames /\ Tail(xterm) \in Seq(OutFrames) BY <2>1, <2>2, HeadTailProperties
  <2>4. n \in 1..BatchBytes BY <2>3 DEF OutFrames
  <2>5. CASE stream = "open"
    <3>1. consumed + Payload(xterm) + Payload(wire) + InPush <= sent /\ consumed \in Nat /\ sent \in Nat
      BY <2>5 DEF FlowInv, Counted, FlowTypes
    <3>2. xterm \in Seq(Frames) /\ wire \in Seq(Frames) /\ Tail(xterm) \in Seq(Frames)
      BY <2>2, <2>3, OutFrameIs, FlowAssumption
    <3>3. Payload(xterm) = n + Payload(Tail(xterm)) /\ Payload(Tail(xterm)) \in Nat
          /\ Payload(wire) \in Nat
      BY <2>1, <3>2, PayloadIs
    <3>4. InPush \in Nat BY InPushType
    <3> HIDE DEF n
    <3>5. n \in Nat BY <2>4, FlowAssumption
    <3>6. consumed + n <= sent BY <3>1, <3>3, <3>4, <3>5
    <3>7. Credit!Process(n) BY <2>1, <2>5, <3>6 DEF Credit!Process
    <3>8. QED BY <2>4, <3>7 DEF Credit!Next
  <2>6. CASE stream # "open" BY <1>0, <2>1, <2>6
  <2>7. QED BY <2>5, <2>6
<1>3. CASE AckTimer
  <2>1. Credit!Announce BY <1>3 DEF AckTimer, Credit!Announce, flow
  <2>2. QED BY <2>1 DEF Credit!Next
(* An acknowledgment returns credit, or is ignored or refused.             *)
<1>4. ASSUME NEW c \in acks, Acknowledge(c) PROVE Credit!Next
  <2>1. CASE registered /\ ~(c > sent)
    <3>1. Credit!Return(c) BY <1>4, <2>1 DEF Acknowledge, Credit!Return
    <3>2. QED BY <3>1 DEF Credit!Next
  <2>2. CASE ~registered \/ c > sent
    <3>1. Credit!Ignore(c) BY <1>4, <2>2 DEF Acknowledge, Credit!Ignore
    <3>2. QED BY <3>1 DEF Credit!Next
  <2>3. QED BY <2>1, <2>2
(* Nothing else touches the credit.                                        *)
<1>5. CASE UNCHANGED vars BY <1>0, <1>5 DEF vars, flow, front
<1>6. CASE ReadData \/ ReadExit \/ ReadClosed \/ FlushTick \/ ReadEof \/ RemoveRecord \/ Emit
  BY <1>0, <1>6 DEF ReadData, ReadExit, ReadClosed, FlushTick, ReadEof, RemoveRecord, Emit, flow, front
<1>7. ASSUME NEW t \in Senders, AcquireFails(t) \/ ChannelSend(t) \/ ChannelSendFails(t)
      PROVE  UNCHANGED Credit!creditVars
  BY <1>0, <1>7 DEF AcquireFails, ChannelSend, ChannelSendFails, flow, front
<1>8. CASE StartLookup \/ StartLock \/ Close \/ CloseFlow \/ JoinReader
  BY <1>0, <1>8 DEF StartLookup, StartLock, Close, CloseFlow, JoinReader, flow, front
<1>9. ASSUME NEW t \in Closers, Announce(t) PROVE UNCHANGED Credit!creditVars
  BY <1>0, <1>9 DEF Announce, flow, front
<1>10. CASE StartStream \/ StartReply \/ Receive \/ ClosedEvent \/ IpcFails
  BY <1>0, <1>10 DEF StartStream, StartReply, Receive, ClosedEvent, IpcFails, TerminalClosed, flow, front
<1>11. QED
  BY <1>1, <1>2, <1>3, <1>4, <1>5, <1>6, <1>7, <1>8, <1>9, <1>10 DEF Next

(* The running terminal implements TerminalCredit: whatever the tasks do   *)
(* with the gate, wherever one fails or is aborted, and in whatever order  *)
(* terminal_ack runs.                                                      *)
THEOREM ImplementsCreditTheorem == Spec => ImplementsCredit
<1>1. QED BY FlowInvariant, RefineInit, RefineStep, PTL DEF Spec, ImplementsCredit, Credit!Spec

(* In a running terminal, then, credit is conserved and the WebView never  *)
(* has more than TERMINAL_IN_FLIGHT_BYTES before it.                       *)
THEOREM TerminalBacklog == Spec => [](Credit!CreditConserved /\ Credit!BacklogBounded)
<1>1. QED BY ImplementsCreditTheorem, CreditIsConserved, BacklogIsBounded, PTL DEF ImplementsCredit

-----------------------------------------------------------------------------
(* Nothing is lost, repeated or reordered.                                 *)

(* The close frame is the last thing a reader that ended sends, and nobody *)
(* sends after it.                                                         *)
LEMMA SealedInit == Init => Sealed
  BY DEF Init, Sealed, Tasks

LEMMA SealedStep == FlowInv /\ Sealed /\ [Next]_vars => Sealed'
<1> SUFFICES ASSUME FlowInv, Sealed, [Next]_vars PROVE Sealed' OBVIOUS
<1> DEFINE ClosesLast(w) == \A i \in DOMAIN w : w[i] = CloseFrame => i = Len(w) /\ streaming /\ ~channel
<1>0. FlowTypes BY DEF FlowInv
<1>1. wire \in Seq(OutFrames \cup {CloseFrame}) BY <1>0 DEF FlowTypes
(* Steps that touch none of it, or close the flow control.                 *)
<1>2. ASSUME UNCHANGED <<channel, streaming, wire>>,
             stream' = "ended" => stream = "ended",
             flowClosed => flowClosed',
             pc'["close"] \in {"join", "announce", "done"} => flowClosed',
             ~flowClosed' => /\ pc["reader"] = "done" => pc'["reader"] = "done"
                             /\ startq = <<>> => startq' = <<>>
      PROVE  Sealed'
  BY <1>2 DEF Sealed
<1>3. CASE UNCHANGED vars BY <1>2, <1>3 DEF vars, Sealed, reader, gateState, flow, ipc, front
<1>4. CASE ReadData \/ ReadExit \/ ReadClosed \/ FlushTick \/ ReadEof \/ RemoveRecord \/ Emit
  <2>1. /\ UNCHANGED <<channel, streaming, wire, stream, flowClosed, startq>>
        /\ pc["reader"] # "done" /\ pc'["close"] = pc["close"]
    BY <1>0, <1>4 DEF FlowTypes, Tasks, ReadData, ReadExit, ReadClosed, FlushTick, ReadEof, RemoveRecord,
       Emit, GoEmit, reader, gateState, flow, ipc, front
  <2>2. QED BY <1>2, <2>1 DEF Sealed
<1>5. ASSUME NEW t \in Senders, Acquire(t) PROVE Sealed'
  <2>1. /\ UNCHANGED <<channel, streaming, wire, stream, flowClosed, startq>>
        /\ pc["reader"] = "done" => pc'["reader"] = "done"
        /\ pc'["close"] = pc["close"]
    BY <1>0, <1>5 DEF FlowTypes, Tasks, Senders, Acquire, gateState, flow, ipc, front
  <2>2. QED BY <1>2, <2>1 DEF Sealed
<1>6. ASSUME NEW t \in Senders, AcquireFails(t) PROVE Sealed' BY <1>6 DEF AcquireFails, Sealed, flow
<1>7. ASSUME NEW t \in Senders, ChannelSendFails(t) PROVE Sealed' BY <1>7 DEF ChannelSendFails, Sealed
<1>8. ASSUME NEW t \in Senders, ChannelSend(t) PROVE Sealed'
  <2>1. /\ pc[t] = "push" /\ wire' = Append(wire, NextFrame(t))
        /\ UNCHANGED <<channel, streaming, stream, flowClosed>>
    BY <1>8 DEF ChannelSend, flow, front
  <2>2. pc'["close"] = pc["close"]
    BY <1>0, <1>8 DEF FlowTypes, Tasks, ChannelSend, GoEmit
  <2>3. NextFrame(t) \in OutFrames /\ streaming
        /\ (t = "reader" => pc["reader"] # "done") /\ (t = "start" => startq # <<>>)
    BY <2>1, SenderIs
  <2>4. CASE flowClosed BY <2>1, <2>4 DEF Sealed
  <2>5. CASE ~flowClosed
    <3>1. channel BY <2>3, <2>5 DEF Sealed, Senders
    <3>2. stream # "ended" /\ \A i \in DOMAIN wire : wire[i] # CloseFrame BY <2>5, <3>1 DEF Sealed
    <3>3. NextFrame(t) # CloseFrame BY <2>3, OutFrameIs, FlowAssumption
    <3>4. \A i \in DOMAIN wire' : wire'[i] # CloseFrame
      <4>1. NextFrame(t) \in OutFrames \cup {CloseFrame} BY <2>3
      <4>2. QED BY <1>1, <2>1, <3>2, <3>3, <4>1, AppendProperties
    <3>5. QED BY <2>1, <2>2, <3>1, <3>2, <3>4 DEF Sealed
  <2>6. QED BY <2>4, <2>5
<1>9. CASE StartLookup
  <2>1. /\ UNCHANGED <<channel, streaming, wire, stream, flowClosed, startq>>
        /\ pc'["reader"] = pc["reader"] /\ pc'["close"] = pc["close"]
    BY <1>0, <1>9 DEF FlowTypes, Tasks, StartLookup, gateState, flow, ipc, front
  <2>2. QED BY <1>2, <2>1 DEF Sealed
<1>10. CASE StartLock
  <2>1. ~streaming BY <1>10 DEF StartLock, FlowInv, Starting
  <2>2. wire = <<>> /\ ~channel BY <2>1 DEF FlowInv, Starting
  <2>3. /\ channel' /\ wire' = <<>> /\ stream' = stream /\ flowClosed' = flowClosed
        /\ pc'["close"] = pc["close"]
    BY <1>0, <1>10, <2>2 DEF FlowTypes, Tasks, StartLock, flow, ipc, front
  <2>4. QED BY <2>1, <2>3 DEF Sealed
<1>11. CASE Close \/ CloseFlow
  <2>1. /\ UNCHANGED <<channel, streaming, wire, stream, startq>>
        /\ pc'["reader"] = pc["reader"]
        /\ flowClosed => flowClosed'
        /\ pc'["close"] \in {"join", "announce", "done"} => flowClosed'
    BY <1>0, <1>11 DEF FlowTypes, Tasks, Close, CloseFlow, gateState, flow, ipc, front
  <2>2. QED BY <1>2, <2>1
<1>12. CASE JoinReader BY <1>12 DEF JoinReader, Sealed, flow
<1>13. ASSUME NEW t \in Closers, Announce(t) PROVE Sealed'
  <2>1. /\ pc[t] = "announce" /\ gate = "free" /\ channel' = FALSE
        /\ wire' = (IF channel /\ ipcUp THEN Append(wire, CloseFrame) ELSE wire)
        /\ UNCHANGED <<streaming, startq, flowClosed, stream>>
        /\ pc' = [pc EXCEPT ![t] = "done"]
    BY <1>13 DEF Announce, flow, front
  <2>2. CASE flowClosed BY <2>1, <2>2 DEF Sealed
  <2>3. CASE ~flowClosed
    <3>1. t = "reader" BY <2>1, <2>3 DEF Sealed, Closers
    <3>2. startq = <<>> BY <2>1 DEF FlowInv, Holding, Senders
    <3>3. pc'["reader"] = "done" /\ pc'["close"] = pc["close"]
      BY <1>0, <2>1, <3>1 DEF FlowTypes, Tasks
    <3>4. \A i \in DOMAIN wire' : wire'[i] = CloseFrame => i = Len(wire') /\ streaming
      <4>1. CASE channel /\ ipcUp
        <5>1. streaming BY <4>1 DEF FlowInv, Starting
        <5>2. \A i \in DOMAIN wire : wire[i] # CloseFrame BY <2>3, <4>1 DEF Sealed
        <5>3. wire' = Append(wire, CloseFrame) BY <2>1, <4>1
        <5>4. QED BY <1>1, <5>1, <5>2, <5>3, AppendProperties
      <4>2. CASE ~(channel /\ ipcUp)
        <5>1. wire' = wire BY <2>1, <4>2
        <5>2. QED BY <2>3, <5>1 DEF Sealed
      <4>3. QED BY <4>1, <4>2
    <3>5. stream = "ended" => wire' = <<>> /\ streaming BY <2>1, <2>3 DEF Sealed
    <3>6. QED BY <2>1, <2>3, <3>2, <3>3, <3>4, <3>5 DEF Sealed
  <2>4. QED BY <2>2, <2>3
<1>14. CASE StartStream \/ StartReply \/ ClosedEvent \/ Consume \/ AckTimer \/ IpcFails
  <2>1. /\ UNCHANGED <<channel, streaming, wire, flowClosed, startq>>
        /\ pc'["reader"] = pc["reader"] /\ pc'["close"] = pc["close"]
        /\ stream' = "ended" => stream = "ended"
    BY <1>0, <1>14 DEF FlowTypes, Tasks, StartStream, StartReply, ClosedEvent, TerminalClosed, Consume,
       AckTimer, IpcFails, gateState, flow, ipc, front
  <2>2. QED BY <1>2, <2>1 DEF Sealed
<1>15. ASSUME NEW c \in acks, Acknowledge(c) PROVE Sealed'
  <2>1. /\ UNCHANGED <<channel, streaming, wire, flowClosed, startq, pc>>
        /\ stream' = "ended" => stream = "ended"
    BY <1>15 DEF Acknowledge, TerminalClosed, gateState, flow, ipc
  <2>2. QED BY <1>2, <2>1 DEF Sealed
<1>16. CASE Receive
  <2>1. /\ wire # <<>> /\ wire' = Tail(wire)
        /\ UNCHANGED <<pc, channel, streaming, startq, flowClosed>>
        /\ stream' = "ended" => stream = "ended" \/ Head(wire) = CloseFrame
    BY <1>16 DEF Receive, TerminalClosed, gateState, flow
  <2>2. CASE flowClosed BY <2>1, <2>2 DEF Sealed
  <2>3. CASE ~flowClosed
    <3>1. /\ Len(wire') = Len(wire) - 1 /\ wire' \in Seq(OutFrames \cup {CloseFrame})
          /\ \A i \in 1..Len(wire') : wire'[i] = wire[i + 1]
          /\ Head(wire) = wire[1] /\ 1 \in DOMAIN wire /\ DOMAIN wire = 1..Len(wire) /\ Len(wire) \in Nat
      BY <1>1, <2>1, HeadTailProperties
    <3>2. ClosesLast(wire) /\ stream # "ended" BY <2>1, <2>3 DEF Sealed
    <3>3. ASSUME NEW i \in DOMAIN wire', wire'[i] = CloseFrame
          PROVE  i = Len(wire') /\ streaming /\ ~channel
      <4>1. DOMAIN wire' = 1..Len(wire') BY <3>1
      <4>2. i + 1 \in DOMAIN wire /\ wire[i + 1] = CloseFrame BY <3>1, <3>3, <4>1
      <4>3. i + 1 = Len(wire) /\ streaming /\ ~channel BY <3>2, <4>2
      <4>4. QED BY <3>1, <4>1, <4>3
    <3>4. ASSUME stream' = "ended" PROVE wire' = <<>> /\ streaming /\ ~channel
      <4>1. wire[1] = CloseFrame BY <2>1, <3>1, <3>2, <3>4
      <4>2. 1 = Len(wire) /\ streaming /\ ~channel BY <3>1, <3>2, <4>1
      <4>a. Len(wire') = Len(wire) - 1 /\ Len(wire) = 1 BY <3>1, <4>2
      <4>3. Len(wire') = 0 BY <4>a
      <4>4. QED BY <3>1, <4>2, <4>3, EmptySeq
    <3>5. QED BY <2>1, <2>3, <3>3, <3>4 DEF Sealed
  <2>4. QED BY <2>2, <2>3
<1>17. QED
  BY <1>3, <1>4, <1>5, <1>6, <1>7, <1>8, <1>9, <1>10, <1>11, <1>12, <1>13, <1>14, <1>15, <1>16 DEF Next

(* A sequence of bytes that ends with the last byte that arrived, without  *)
(* a gap, and that is complete or longer than what overflow may leave.     *)
Tailing(x, a) ==
  /\ \A i \in DOMAIN x : x[i] = a - Len(x) + i
  /\ Len(x) = a \/ Len(x) > MaxPending - BatchBytes
Alive == ~flowClosed /\ ipcUp /\ stream # "cut"
Line(a, b, c, d, e, f, g) == Cat(a, Cat(b, Cat(c, Cat(d, Cat(e, Cat(f, g))))))

TransitTyped ==
  /\ InTransit = Line(shown, Bytes(xterm), Bytes(wire), Bytes(startq), Bytes(pending),
                      Bytes(ready), batch.data)
  /\ InTransit \in Seq(Nat)
  /\ shown \in Seq(Nat) /\ Bytes(xterm) \in Seq(Nat) /\ Bytes(wire) \in Seq(Nat)
  /\ Bytes(startq) \in Seq(Nat) /\ Bytes(pending) \in Seq(Nat) /\ Bytes(ready) \in Seq(Nat)
  /\ batch.data \in Seq(Nat)

LEMMA TransitIs == FlowTypes => TransitTyped
<1> SUFFICES ASSUME FlowTypes PROVE TransitTyped OBVIOUS
<1>1. /\ xterm \in Seq(Frames) /\ wire \in Seq(Frames) /\ startq \in Seq(Frames)
      /\ pending \in Seq(Frames) /\ ready \in Seq(Frames) /\ shown \in Seq(Nat) /\ batch.data \in Seq(Nat)
  BY OutFrameIs, FlowAssumption DEF FlowTypes
<1>2. /\ Bytes(xterm) \in Seq(Nat) /\ Bytes(wire) \in Seq(Nat) /\ Bytes(startq) \in Seq(Nat)
      /\ Bytes(pending) \in Seq(Nat) /\ Bytes(ready) \in Seq(Nat)
  BY <1>1, BytesType
<1> DEFINE a == shown
           b == Bytes(xterm)
           c == Bytes(wire)
           d == Bytes(startq)
           e == Bytes(pending)
           f == Bytes(ready)
           g == batch.data
<1>3. InTransit = Cat(Cat(Cat(Cat(Cat(Cat(a, b), c), d), e), f), g) BY DEF InTransit, Cat
<1>4. a \in Seq(Nat) /\ b \in Seq(Nat) /\ c \in Seq(Nat) /\ d \in Seq(Nat) /\ e \in Seq(Nat)
      /\ f \in Seq(Nat) /\ g \in Seq(Nat)
  BY <1>1, <1>2
<1> HIDE DEF a, b, c, d, e, f, g
<1>5. Cat(Cat(Cat(Cat(Cat(Cat(a, b), c), d), e), f), g) = Line(a, b, c, d, e, f, g)
  <2> DEFINE p2 == Cat(a, b)
             p3 == Cat(p2, c)
             p4 == Cat(p3, d)
             p5 == Cat(p4, e)
             q6 == Cat(f, g)
             q5 == Cat(e, q6)
             q4 == Cat(d, q5)
             q3 == Cat(c, q4)
  <2>1. p2 \in Seq(Nat) /\ p3 \in Seq(Nat) /\ p4 \in Seq(Nat) /\ p5 \in Seq(Nat) BY <1>4, CatType
  <2>2. q6 \in Seq(Nat) /\ q5 \in Seq(Nat) /\ q4 \in Seq(Nat) /\ q3 \in Seq(Nat) BY <1>4, CatType
  <2>a. p2 = Cat(a, b) /\ p3 = Cat(p2, c) /\ p4 = Cat(p3, d) /\ p5 = Cat(p4, e) OBVIOUS
  <2>b. q6 = Cat(f, g) /\ q5 = Cat(e, q6) /\ q4 = Cat(d, q5) /\ q3 = Cat(c, q4) OBVIOUS
  <2> HIDE DEF p2, p3, p4, p5, q3, q4, q5, q6
  <2>3. Cat(Cat(p5, f), g) = Cat(p5, q6) BY <2>b, <1>4, <2>1, CatAssoc
  <2>4. Cat(Cat(p4, e), q6) = Cat(p4, q5) BY <2>b, <1>4, <2>1, <2>2, CatAssoc
  <2>5. Cat(Cat(p3, d), q5) = Cat(p3, q4) BY <2>b, <1>4, <2>1, <2>2, CatAssoc
  <2>6. Cat(Cat(p2, c), q4) = Cat(p2, q3) BY <2>b, <1>4, <2>1, <2>2, CatAssoc
  <2>7. Cat(Cat(a, b), q3) = Cat(a, Cat(b, q3)) BY <1>4, <2>2, CatAssoc
  <2>8. QED BY <2>a, <2>b, <2>3, <2>4, <2>5, <2>6, <2>7 DEF Line
<1>6. Line(a, b, c, d, e, f, g) \in Seq(Nat) BY <1>4, CatType DEF Line
<1>7. QED BY <1>1, <1>2, <1>3, <1>5, <1>6 DEF a, b, c, d, e, f, g, TransitTyped

LEMMA TransitNext == FlowTypes' => TransitTyped'
  BY TransitIs, PTL

(* More bytes arrive.                                                      *)
LEMMA TailGrows ==
  ASSUME NEW x \in Seq(Nat), NEW a \in Nat, NEW n \in Nat, Tailing(x, a)
  PROVE  Tailing(Cat(x, [i \in 1..n |-> a + i]), a + n)
<1> DEFINE y == [i \in 1..n |-> a + i]
           z == Cat(x, y)
<1>0. MaxPending \in Nat /\ BatchBytes \in Nat BY FlowAssumption
<1>1. y \in Seq(Nat) /\ Len(y) = n /\ \A i \in 1..n : y[i] = a + i OBVIOUS
<1> HIDE DEF y
<1>2. /\ z \in Seq(Nat) /\ Len(z) = Len(x) + n
      /\ \A i \in 1..(Len(x) + n) : z[i] = IF i <= Len(x) THEN x[i] ELSE y[i - Len(x)]
  BY <1>1, ConcatProperties DEF Cat
<1> HIDE DEF z
<1>3. Len(x) \in Nat /\ DOMAIN x = 1..Len(x) /\ DOMAIN z = 1..(Len(x) + n) BY <1>2
<1>4. ASSUME NEW i \in DOMAIN z PROVE z[i] = (a + n) - Len(z) + i
  <2>1. i \in 1..(Len(x) + n) BY <1>3
  <2>2. CASE i <= Len(x)
    <3>1. z[i] = x[i] /\ i \in DOMAIN x BY <1>2, <1>3, <2>1, <2>2
    <3>2. x[i] = a - Len(x) + i BY <3>1 DEF Tailing
    <3>3. QED BY <1>2, <1>3, <2>1, <3>1, <3>2
  <2>3. CASE ~(i <= Len(x))
    <3>1. i - Len(x) \in 1..n BY <1>3, <2>1, <2>3
    <3>2. z[i] = a + (i - Len(x)) BY <1>1, <1>2, <2>1, <2>3, <3>1
    <3>3. QED BY <1>2, <1>3, <2>1, <3>2
  <2>4. QED BY <2>2, <2>3
<1>5. Len(z) = a + n \/ Len(z) > MaxPending - BatchBytes
  <2>1. Len(x) = a \/ Len(x) > MaxPending - BatchBytes BY DEF Tailing
  <2>2. Len(z) = Len(x) + n BY <1>2
  <2> DEFINE l == Len(x)
  <2>3. l \in Nat /\ (l = a \/ l > MaxPending - BatchBytes) BY <1>3, <2>1
  <2> HIDE DEF l
  <2>4. l + n = a + n \/ l + n > MaxPending - BatchBytes BY <1>0, <2>3
  <2>5. QED BY <2>2, <2>4 DEF l
<1>6. Tailing(z, a + n) BY <1>4, <1>5 DEF Tailing
<1>7. QED BY <1>6 DEF z, y

(* Bytes are dropped at the front.                                         *)
LEMMA TailDrops ==
  ASSUME NEW d \in Seq(Nat), NEW y \in Seq(Nat), NEW a \in Nat, Tailing(Cat(d, y), a),
         d = <<>> \/ Len(y) > MaxPending - BatchBytes
  PROVE  Tailing(y, a)
<1> DEFINE z == Cat(d, y)
<1>1. CASE d = <<>>
  <2>1. Cat(<<>>, y) = y BY CatEmpty
  <2>2. QED BY <1>1, <2>1
<1>2. CASE Len(y) > MaxPending - BatchBytes
  <2>1. /\ z \in Seq(Nat) /\ Len(z) = Len(d) + Len(y)
        /\ \A i \in 1..(Len(d) + Len(y)) : z[i] = IF i <= Len(d) THEN d[i] ELSE y[i - Len(d)]
    BY ConcatProperties DEF Cat
  <2>2. Tailing(z, a) OBVIOUS
  <2> HIDE DEF z
  <2>3. Len(d) \in Nat /\ Len(y) \in Nat /\ DOMAIN y = 1..Len(y) /\ DOMAIN z = 1..(Len(d) + Len(y))
    BY <2>1
  <2>4. ASSUME NEW i \in DOMAIN y PROVE y[i] = a - Len(y) + i
    <3>1. i \in 1..Len(y) BY <2>3
    <3> DEFINE j == Len(d) + i
    <3>2. j \in 1..(Len(d) + Len(y)) /\ ~(j <= Len(d)) /\ j - Len(d) = i BY <2>3, <3>1
    <3> HIDE DEF j
    <3>3. z[j] = y[i] BY <2>1, <3>2
    <3>4. z[j] = a - Len(z) + j BY <2>2, <2>3, <3>2 DEF Tailing
    <3>5. QED BY <2>1, <2>3, <3>1, <3>3, <3>4 DEF j
  <2>5. QED BY <1>2, <2>4 DEF Tailing
<1>3. QED BY <1>1, <1>2

(* The steps that move bytes along, with what each does to the line.       *)
LEMMA Moves ==
  \A x, f, y, z \in Seq(Nat) :
    /\ Cat(x, Cat(Cat(f, y), z)) = Cat(Cat(x, f), Cat(y, z))
    /\ Cat(x, Cat(f, y)) = Cat(Cat(x, f), y)
    /\ Cat(x, y) \in Seq(Nat)
<1> SUFFICES ASSUME NEW x \in Seq(Nat), NEW f \in Seq(Nat), NEW y \in Seq(Nat), NEW z \in Seq(Nat)
             PROVE  /\ Cat(x, Cat(Cat(f, y), z)) = Cat(Cat(x, f), Cat(y, z))
                    /\ Cat(x, Cat(f, y)) = Cat(Cat(x, f), y)
                    /\ Cat(x, y) \in Seq(Nat)
  OBVIOUS
<1>1. Cat(y, z) \in Seq(Nat) /\ Cat(x, y) \in Seq(Nat) BY CatType
<1>2. Cat(Cat(f, y), z) = Cat(f, Cat(y, z)) BY CatAssoc
<1>3. Cat(Cat(x, f), Cat(y, z)) = Cat(x, Cat(f, Cat(y, z))) BY <1>1, CatAssoc
<1>4. QED BY <1>1, <1>2, <1>3, CatAssoc

(* Bytes the reader took from the channel stand at the end of the line.    *)
LEMMA ReadMoves ==
  ASSUME FlowInv, FlowInv', Tailing(InTransit, arrived),
         ReadData \/ ReadExit \/ FlushTick \/ ReadEof
  PROVE  Tailing(InTransit', arrived')
<1>0. FlowTypes /\ FlowTypes' BY DEF FlowInv
<1>1. TransitTyped /\ TransitTyped' BY <1>0, TransitIs, TransitNext
<1>2. ready = <<>> BY DEF FlowInv, Holding, ReadData, ReadExit, FlushTick, ReadEof
<1>3. Bytes(ready) = <<>> BY <1>2, BytesEmpty
<1>4. UNCHANGED <<shown, xterm, wire, startq, pending>>
  BY DEF ReadData, ReadExit, FlushTick, ReadEof, gateState, ipc, front
<1> DEFINE f2 == Bytes(ready')
           g == batch.data
           g2 == batch'.data
           Grows(n) == Cat(f2, g2) = Cat(g, n)
<1>5. f2 \in Seq(Nat) /\ g \in Seq(Nat) /\ g2 \in Seq(Nat) BY <1>1 DEF TransitTyped
<1>6. ASSUME NEW n \in Seq(Nat), Grows(n) PROVE InTransit' = Cat(InTransit, n)
  <2>1. Cat(f2, g2) = Cat(g, n) BY <1>6
  <2>2. /\ shown \in Seq(Nat) /\ Bytes(xterm) \in Seq(Nat) /\ Bytes(wire) \in Seq(Nat)
        /\ Bytes(startq) \in Seq(Nat) /\ Bytes(pending) \in Seq(Nat)
    BY <1>1 DEF TransitTyped
  <2>3. InTransit' = Line(shown, Bytes(xterm), Bytes(wire), Bytes(startq), Bytes(pending), f2, g2)
    BY <1>1, <1>4 DEF TransitTyped
  <2>4. InTransit = Line(shown, Bytes(xterm), Bytes(wire), Bytes(startq), Bytes(pending), <<>>, g)
    BY <1>1, <1>3 DEF TransitTyped
  <2> DEFINE a == shown
             b == Bytes(xterm)
             c == Bytes(wire)
             d == Bytes(startq)
             e == Bytes(pending)
  <2>a. a \in Seq(Nat) /\ b \in Seq(Nat) /\ c \in Seq(Nat) /\ d \in Seq(Nat) /\ e \in Seq(Nat)
    BY <2>2
  <2> HIDE DEF f2, g, g2, a, b, c, d, e
  <2>5. Line(a, b, c, d, e, f2, g2) = Cat(Line(a, b, c, d, e, <<>>, g), n)
    <3>1. Cat(<<>>, g) = g BY <1>5, <2>a, <1>6, CatEmpty
    <3> DEFINE q5 == Cat(e, g)
               q4 == Cat(d, q5)
               q3 == Cat(c, q4)
               q2 == Cat(b, q3)
    <3>2. q5 \in Seq(Nat) BY <1>5, <2>a, <1>6, CatType
    <3>3. q4 \in Seq(Nat)
      <4> HIDE DEF q5
      <4> QED BY <3>2, <1>5, <2>a, <1>6, CatType
    <3>4. q3 \in Seq(Nat)
      <4> HIDE DEF q4
      <4> QED BY <3>3, <1>5, <2>a, <1>6, CatType
    <3>5. q2 \in Seq(Nat)
      <4> HIDE DEF q3
      <4> QED BY <3>4, <1>5, <2>a, <1>6, CatType
    <3>6. Line(a, b, c, d, e, <<>>, g) = Cat(a, q2) BY <3>1 DEF Line
    <3>7. Line(a, b, c, d, e, f2, g2) = Cat(a, Cat(b, Cat(c, Cat(d, Cat(e, Cat(g, n)))))) BY <2>1 DEF Line
    <3>8. Cat(e, Cat(g, n)) = Cat(q5, n) BY <1>5, <2>a, <1>6, CatAssoc
    <3>9. Cat(d, Cat(q5, n)) = Cat(q4, n)
      <4>1. q4 = Cat(d, q5) OBVIOUS
      <4> HIDE DEF q5, q4
      <4>2. QED BY <3>2, <4>1, <1>5, <2>a, <1>6, CatAssoc
    <3>10. Cat(c, Cat(q4, n)) = Cat(q3, n)
      <4>1. q3 = Cat(c, q4) OBVIOUS
      <4> HIDE DEF q4, q3
      <4>2. QED BY <3>3, <4>1, <1>5, <2>a, <1>6, CatAssoc
    <3>11. Cat(b, Cat(q3, n)) = Cat(q2, n)
      <4>1. q2 = Cat(b, q3) OBVIOUS
      <4> HIDE DEF q3, q2
      <4>2. QED BY <3>4, <4>1, <1>5, <2>a, <1>6, CatAssoc
    <3> HIDE DEF q2, q3, q4, q5
    <3>12. Cat(a, Cat(q2, n)) = Cat(Cat(a, q2), n) BY <3>5, <1>5, <2>a, <1>6, CatAssoc
    <3>13. QED BY <3>6, <3>7, <3>8, <3>9, <3>10, <3>11, <3>12
  <2>6. QED BY <2>3, <2>4, <2>5 DEF a, b, c, d, e
<1>7. arrived \in Nat /\ InTransit \in Seq(Nat) BY <1>0, <1>1 DEF FlowTypes, TransitTyped
<1> HIDE DEF Grows
<1>8. ASSUME feed # <<>>, arrived' = arrived + Head(feed).n, Grows(Numbered(Head(feed).n))
      PROVE  Tailing(InTransit', arrived')
  <2> DEFINE m == Head(feed).n
             n == [i \in 1..m |-> arrived + i]
  <2>1. m \in Nat
    <3>1. Head(feed) \in Messages BY <1>0, <1>8, HeadTailProperties DEF FlowTypes
    <3>2. QED BY <3>1 DEF Messages
  <2>2. n \in Seq(Nat) /\ Grows(n) BY <1>7, <1>8, <2>1 DEF Numbered
  <2> HIDE DEF m
  <2>3. Tailing(Cat(InTransit, n), arrived + m) BY <1>7, <2>1, TailGrows
  <2> HIDE DEF n
  <2>4. InTransit' = Cat(InTransit, n) BY <1>6, <2>2
  <2>5. arrived' = arrived + m BY <1>8 DEF m
  <2>6. QED BY <2>3, <2>4, <2>5
<1>9. ASSUME arrived' = arrived, Grows(<<>>) PROVE Tailing(InTransit', arrived')
  <2>0. <<>> \in Seq(Nat) OBVIOUS
  <2>1. InTransit' = Cat(InTransit, <<>>) BY <1>6, <1>9, <2>0
  <2>2. Cat(InTransit, <<>>) = InTransit BY <1>7, CatEmpty
  <2>3. QED BY <1>9, <2>1, <2>2
<1>10. CASE ReadData
  <2> DEFINE k == Head(feed).kind
             d == Numbered(Head(feed).n)
             p == Push(batch, k, d)
             r == p.rest
             q == p.ready
  <2>1. feed # <<>> /\ arrived' = arrived + Head(feed).n BY <1>10 DEF ReadData
  <2>2. k \in Kinds /\ d \in Seq(Nat)
    <3>1. Head(feed) \in Messages BY <1>0, <2>1, HeadTailProperties DEF FlowTypes
    <3>2. Head(feed).n \in Nat /\ k \in Kinds BY <3>1 DEF Messages
    <3>3. QED BY <1>7, <3>2 DEF Numbered
  <2>3. batch \in [kind : Kinds, data : Seq(Nat)] /\ Len(batch.data) < BatchBytes BY <1>0 DEF FlowTypes
  <2>4. PICK urgent \in BOOLEAN : /\ batch' = IF urgent THEN NoBatch ELSE r
                                  /\ ready' = IF urgent THEN q \o AsFrames(r) ELSE q
    BY <1>10 DEF ReadData, GoEmit
  <2> HIDE DEF k, d
  <2>5. /\ p.ready \in Seq(OutFrames) /\ p.rest \in [kind : Kinds, data : Seq(Nat)]
        /\ Bytes(p.ready) \o p.rest.data = batch.data \o d
    BY <2>2, <2>3, PushIs, FlowAssumption
  <2> HIDE DEF p
  <2>6. r \in [kind : Kinds, data : Seq(Nat)] /\ q \in Seq(OutFrames) /\ Cat(Bytes(q), r.data) = Cat(g, d)
    BY <2>5 DEF Cat
  <2>7. q \in Seq(Frames) /\ r \in Frames BY <2>6, OutFrameIs, FlowAssumption DEF Frames
  <2> HIDE DEF r, q
  <2>8. AsFrames(r) \in Seq(Frames) /\ Bytes(AsFrames(r)) = r.data
    <3>1. CASE r.data = <<>> BY <3>1, BytesEmpty DEF AsFrames
    <3>2. CASE r.data # <<>> BY <2>7, <3>2, BytesOne DEF AsFrames
    <3>3. QED BY <3>1, <3>2
  <2>9. CASE urgent
    <3>1. f2 = Bytes(q \o AsFrames(r)) /\ g2 = <<>> BY <2>4, <2>9 DEF NoBatch, Frame
    <3>2. Bytes(q \o AsFrames(r)) = Cat(Bytes(q), r.data) BY <2>7, <2>8, BytesConcat DEF Cat
    <3>3. Cat(f2, <<>>) = f2 BY <1>5, CatEmpty
    <3>4. Grows(d) BY <2>6, <3>1, <3>2, <3>3 DEF Grows
    <3>5. QED BY <1>8, <2>1, <3>4 DEF d
  <2>10. CASE ~urgent
    <3>1. f2 = Bytes(q) /\ g2 = r.data BY <2>4, <2>10
    <3>2. Grows(d) BY <2>6, <3>1 DEF Grows
    <3>3. QED BY <1>8, <2>1, <3>2 DEF d
  <2>11. QED BY <2>9, <2>10
<1>11. CASE ReadExit
  <2> DEFINE d == Numbered(Head(feed).n)
             f == Frame("system", d)
  <2>1. /\ feed # <<>> /\ arrived' = arrived + Head(feed).n
        /\ batch' = NoBatch /\ ready' = AsFrames(batch) \o <<f>>
    BY <1>11 DEF ReadExit, GoEmit
  <2>2. d \in Seq(Nat)
    <3>1. Head(feed) \in Messages BY <1>0, <2>1, HeadTailProperties DEF FlowTypes
    <3>2. Head(feed).n \in Nat BY <3>1 DEF Messages
    <3>3. QED BY <1>7, <3>2 DEF Numbered
  <2> HIDE DEF d
  <2>3. f \in Frames /\ f.data = d BY <2>2 DEF Frame, Frames, Kinds
  <2> HIDE DEF f
  <2>4. AsFrames(batch) \in Seq(OutFrames) /\ Bytes(AsFrames(batch)) = g BY <1>0, BatchFrames
  <2>5. AsFrames(batch) \in Seq(Frames) BY <2>4, OutFrameIs, FlowAssumption
  <2>6. <<f>> \in Seq(Frames) /\ Bytes(<<f>>) = d BY <2>3, BytesOne
  <2>7. Bytes(AsFrames(batch) \o <<f>>) = Cat(g, d) BY <2>4, <2>5, <2>6, BytesConcat DEF Cat
  <2>8. f2 = Cat(g, d) /\ g2 = <<>> BY <2>1, <2>7 DEF NoBatch, Frame
  <2>9. Cat(f2, <<>>) = f2 BY <1>5, CatEmpty
  <2>10. Grows(d) BY <2>8, <2>9 DEF Grows
  <2>11. QED BY <1>8, <2>1, <2>10 DEF d
<1>12. CASE FlushTick \/ ReadEof
  <2>1. arrived' = arrived /\ batch' = NoBatch /\ ready' = AsFrames(batch)
    BY <1>0, <1>12, BatchFrames DEF FlushTick, ReadEof, GoEmit
  <2>2. Bytes(AsFrames(batch)) = g BY <1>0, BatchFrames
  <2>3. f2 = g /\ g2 = <<>> BY <2>1, <2>2 DEF NoBatch, Frame
  <2>4. Grows(<<>>) BY <2>3 DEF Grows
  <2>5. QED BY <1>9, <2>1, <2>4
<1>13. QED BY <1>10, <1>11, <1>12

LEMMA EmitMoves ==
  ASSUME FlowInv, FlowInv', Sealed, Alive, Tailing(InTransit, arrived), Emit
  PROVE  Tailing(InTransit', arrived')
<1>0. FlowTypes /\ FlowTypes' BY DEF FlowInv
<1>1. TransitTyped /\ TransitTyped' BY <1>0, TransitIs, TransitNext
<1>2. arrived' = arrived /\ arrived \in Nat BY <1>0 DEF Emit, FlowTypes
<1>3. CASE channel
  <2>1. UNCHANGED <<shown, xterm, wire, startq, pending, ready, batch>>
    BY <1>3 DEF Emit, ipc, front
  <2>2. InTransit' = InTransit BY <2>1 DEF InTransit
  <2>3. QED BY <1>2, <2>2
<1>4. CASE ~channel
  <2> DEFINE h == Head(ready)
  <2>1. pc["reader"] = "emit" /\ gate = "free" BY DEF Emit
  <2>2. ~streaming BY <1>4, <2>1 DEF Sealed, Alive
  <2>3. /\ pending' = PushPending(pending, h) /\ ready' = Tail(ready)
        /\ UNCHANGED <<shown, xterm, wire, startq, batch>>
    BY <1>4, <2>2 DEF Emit, GoEmit, ipc, front
  <2>4. shown = <<>> /\ xterm = <<>> /\ wire = <<>> BY <2>2 DEF FlowInv, Starting
  <2>5. startq = <<>> BY <2>1 DEF FlowInv, Holding, Senders
  <2>6. ready # <<>> /\ ready \in Seq(OutFrames) /\ pending \in Seq(OutFrames)
    BY <1>0, <2>1 DEF FlowInv, Holding, FlowTypes
  <2>7. h \in OutFrames /\ ready \in Seq(Frames)
    BY <2>6, HeadTailProperties, OutFrameIs, FlowAssumption
  <2> DEFINE P == Bytes(pending)
             N == Bytes(pending')
             R == Bytes(Tail(ready))
             a == h.data
             g == batch.data
  <2>8. a \in Seq(Nat) /\ Bytes(ready) = Cat(a, R)
    <3>1. Bytes(ready) = h.data \o Bytes(Tail(ready)) BY <2>6, <2>7, BytesHead
    <3>2. QED BY <2>7, <3>1, OutFrameIs, FlowAssumption DEF Cat
  <2>9. P \in Seq(Nat) /\ N \in Seq(Nat) /\ R \in Seq(Nat) /\ g \in Seq(Nat)
    BY <1>1, <2>3 DEF TransitTyped
  <2> HIDE DEF h
  <2>10. PICK d \in Seq(Nat) :
           /\ Bytes(pending) \o h.data = d \o Bytes(PushPending(pending, h))
           /\ d = <<>> \/ Payload(PushPending(pending, h)) > MaxPending - BatchBytes
    BY <2>6, <2>7, PushPendingIs, FlowAssumption
  <2>11. Cat(P, a) = Cat(d, N) /\ (d = <<>> \/ Len(N) > MaxPending - BatchBytes)
    BY <2>3, <2>10 DEF Cat, Payload
  <2>12. InTransit = Line(<<>>, <<>>, <<>>, <<>>, P, Cat(a, R), g)
    BY <1>1, <2>4, <2>5, <2>8, BytesEmpty DEF TransitTyped
  <2>13. InTransit' = Line(<<>>, <<>>, <<>>, <<>>, N, R, g)
    BY <1>1, <2>3, <2>4, <2>5, BytesEmpty DEF TransitTyped
  <2> HIDE DEF P, N, R, a, g
  <2> DEFINE T == Cat(R, g)
             y == Cat(N, T)
  <2>14. T \in Seq(Nat) BY <2>9, CatType
  <2>15. ASSUME NEW x \in Seq(Nat)
         PROVE  Cat(<<>>, Cat(<<>>, Cat(<<>>, Cat(<<>>, x)))) = x
    BY CatEmpty
  <2>16. InTransit = Cat(P, Cat(Cat(a, R), g)) /\ InTransit' = y
    <3>1. Cat(a, R) \in Seq(Nat) BY <2>8, <2>9, CatType
    <3>2. Cat(Cat(a, R), g) \in Seq(Nat) BY <2>9, <3>1, CatType
    <3>3. Cat(P, Cat(Cat(a, R), g)) \in Seq(Nat) BY <2>9, <3>2, CatType
    <3>4. Cat(N, Cat(R, g)) \in Seq(Nat) BY <2>9, <2>14, CatType
    <3>5. QED BY <2>12, <2>13, <2>15, <3>3, <3>4 DEF Line
  <2>17. Cat(P, Cat(Cat(a, R), g)) = Cat(Cat(P, a), T) BY <2>8, <2>9, Moves
  <2>18. y \in Seq(Nat) /\ Len(y) = Len(N) + Len(T)
    <3> HIDE DEF T
    <3> QED BY <2>9, <2>14, CatType
  <2>19. Cat(Cat(d, N), T) = Cat(d, y)
    <3> HIDE DEF T
    <3> QED BY <2>9, <2>14, CatAssoc
  <2>20. Tailing(Cat(d, y), arrived) BY <2>11, <2>16, <2>17, <2>19
  <2> HIDE DEF T, y
  <2>21. d = <<>> \/ Len(y) > MaxPending - BatchBytes
    <3>1. Len(N) \in Nat /\ Len(T) \in Nat BY <2>9, <2>14
    <3>2. MaxPending \in Nat /\ BatchBytes \in Nat BY FlowAssumption
    <3>3. QED BY <2>11, <2>18, <3>1, <3>2
  <2>22. Tailing(y, arrived) BY <1>2, <2>18, <2>20, <2>21, TailDrops
  <2>23. QED BY <1>2, <2>16, <2>22
<1>5. QED BY <1>3, <1>4

LEMMA SendMoves ==
  ASSUME FlowInv, FlowInv', NEW t \in Senders, ChannelSend(t)
  PROVE  InTransit' = InTransit /\ arrived' = arrived
<1>0. FlowTypes /\ FlowTypes' BY DEF FlowInv
<1>1. TransitTyped /\ TransitTyped' BY <1>0, TransitIs, TransitNext
<1> DEFINE f == NextFrame(t)
           a == f.data
           W == Bytes(wire)
<1>2. /\ pc[t] = "push" /\ wire' = Append(wire, f) /\ arrived' = arrived
      /\ UNCHANGED <<shown, xterm, pending, batch>>
  BY DEF ChannelSend, front
<1>3. /\ f \in OutFrames /\ a \in Seq(Nat) /\ gate = t /\ pending = <<>>
      /\ t = "reader" => ready # <<>>
      /\ t = "start" => startq # <<>>
  BY <1>2, SenderIs
<1>4. f \in Frames /\ wire \in Seq(Frames) /\ ready \in Seq(Frames) /\ startq \in Seq(Frames)
  BY <1>0, <1>3, OutFrameIs, FlowAssumption DEF FlowTypes
<1>5. Bytes(wire') = Cat(W, a)
  <2> HIDE DEF f
  <2> QED BY <1>2, <1>4, BytesAppend DEF Cat
<1>6. W \in Seq(Nat) /\ Bytes(xterm) \in Seq(Nat) /\ shown \in Seq(Nat) /\ batch.data \in Seq(Nat)
  BY <1>1 DEF TransitTyped
<1>7. Bytes(pending) = <<>> BY <1>3, BytesEmpty
<1>8. ASSUME NEW x \in Seq(Nat) PROVE Cat(<<>>, x) = x BY CatEmpty
<1>9. CASE t = "reader"
  <2> DEFINE R == Bytes(Tail(ready))
             g == batch.data
  <2>1. ready' = Tail(ready) /\ startq' = startq BY <1>9 DEF ChannelSend, GoEmit
  <2>2. startq = <<>> BY <1>3, <1>9 DEF FlowInv, Holding, Senders
  <2>3. Bytes(startq) = <<>> BY <2>2, BytesEmpty
  <2>4. Bytes(ready) = Cat(a, R) BY <1>3, <1>4, <1>9, BytesHead DEF NextFrame, Cat
  <2>5. R \in Seq(Nat) /\ g \in Seq(Nat) BY <1>1, <2>1 DEF TransitTyped
  <2>6. InTransit = Line(shown, Bytes(xterm), W, <<>>, <<>>, Cat(a, R), g)
    BY <1>1, <1>7, <2>3, <2>4 DEF TransitTyped
  <2>7. InTransit' = Line(shown, Bytes(xterm), Cat(W, a), <<>>, <<>>, R, g)
    BY <1>1, <1>2, <1>5, <1>7, <2>1, <2>3 DEF TransitTyped
  <2> HIDE DEF R, g, a, W
  <2>8. Cat(Cat(a, R), g) \in Seq(Nat) /\ Cat(R, g) \in Seq(Nat)
    <3>1. Cat(a, R) \in Seq(Nat) BY <1>3, <2>5, CatType
    <3>2. QED BY <2>5, <3>1, CatType
  <2>9. Cat(W, Cat(Cat(a, R), g)) = Cat(Cat(W, a), Cat(R, g)) BY <1>3, <1>6, <2>5, Moves
  <2>10. Cat(<<>>, Cat(<<>>, Cat(Cat(a, R), g))) = Cat(Cat(a, R), g)
         /\ Cat(<<>>, Cat(<<>>, Cat(R, g))) = Cat(R, g)
    BY <1>8, <2>8
  <2>11. QED BY <1>2, <2>6, <2>7, <2>9, <2>10 DEF Line
<1>10. CASE t = "start"
  <2> DEFINE S == Bytes(Tail(startq))
             T == Cat(Bytes(pending), Cat(Bytes(ready), batch.data))
  <2>1. ready' = ready /\ startq' = Tail(startq) BY <1>10 DEF ChannelSend
  <2>2. Bytes(startq) = Cat(a, S) BY <1>3, <1>4, <1>10, BytesHead DEF NextFrame, Cat
  <2>3. S \in Seq(Nat) /\ Bytes(pending) \in Seq(Nat) /\ Bytes(ready) \in Seq(Nat)
    BY <1>1, <2>1 DEF TransitTyped
  <2>4. T \in Seq(Nat)
    <3>1. Cat(Bytes(ready), batch.data) \in Seq(Nat) BY <1>6, <2>3, CatType
    <3>2. QED BY <2>3, <3>1, CatType
  <2>5. InTransit = Cat(shown, Cat(Bytes(xterm), Cat(W, Cat(Cat(a, S), T))))
    BY <1>1, <2>2 DEF TransitTyped, Line
  <2>6. InTransit' = Cat(shown, Cat(Bytes(xterm), Cat(Cat(W, a), Cat(S, T))))
    BY <1>1, <1>2, <1>5, <2>1 DEF TransitTyped, Line
  <2> HIDE DEF S, T, a, W
  <2>7. Cat(W, Cat(Cat(a, S), T)) = Cat(Cat(W, a), Cat(S, T)) BY <1>3, <1>6, <2>3, <2>4, Moves
  <2>8. QED BY <1>2, <2>5, <2>6, <2>7
<1>11. QED BY <1>9, <1>10 DEF Senders

LEMMA StartMoves ==
  ASSUME FlowInv, FlowInv', StartLock
  PROVE  InTransit' = InTransit /\ arrived' = arrived
<1>0. FlowTypes /\ FlowTypes' BY DEF FlowInv
<1>1. TransitTyped /\ TransitTyped' BY <1>0, TransitIs, TransitNext
<1>2. /\ startq' = pending /\ pending' = <<>> /\ pc["start"] = "lock"
      /\ UNCHANGED <<arrived, shown, xterm, wire, ready, batch>>
  BY DEF StartLock, reader, ipc, front
<1>3. startq = <<>> BY <1>2 DEF FlowInv, Holding
<1> DEFINE P == Bytes(pending)
           T == Cat(Bytes(ready), batch.data)
<1>4. P \in Seq(Nat) /\ T \in Seq(Nat) BY <1>1, CatType DEF TransitTyped
<1>5. InTransit = Cat(shown, Cat(Bytes(xterm), Cat(Bytes(wire), Cat(<<>>, Cat(P, T)))))
  BY <1>1, <1>3, BytesEmpty DEF TransitTyped, Line
<1>6. InTransit' = Cat(shown, Cat(Bytes(xterm), Cat(Bytes(wire), Cat(P, Cat(<<>>, T)))))
  BY <1>1, <1>2, BytesEmpty DEF TransitTyped, Line
<1> HIDE DEF P, T
<1>7. Cat(<<>>, Cat(P, T)) = Cat(P, Cat(<<>>, T))
  <2>1. Cat(P, T) \in Seq(Nat) BY <1>4, CatType
  <2>2. QED BY <1>4, <2>1, CatEmpty
<1>8. QED BY <1>2, <1>5, <1>6, <1>7

LEMMA AnnounceMoves ==
  ASSUME FlowInv, NEW t \in Closers, Announce(t)
  PROVE  InTransit' = InTransit /\ arrived' = arrived
<1>1. /\ wire' = (IF channel /\ ipcUp THEN Append(wire, CloseFrame) ELSE wire)
      /\ UNCHANGED <<arrived, shown, xterm, startq, pending, ready, batch>>
  BY DEF Announce, reader, front
<1>2. wire \in Seq(Frames) /\ CloseFrame \in Frames
  BY OutFrameIs, FlowAssumption DEF FlowInv, FlowTypes
<1>3. Bytes(wire) \in Seq(Nat) BY <1>2, BytesType
<1>4. Bytes(Append(wire, CloseFrame)) = Bytes(wire)
  <2>1. Bytes(Append(wire, CloseFrame)) = Bytes(wire) \o CloseFrame.data BY <1>2, BytesAppend
  <2>2. CloseFrame.data = <<>> BY DEF CloseFrame, Frame
  <2>3. Bytes(wire) \o <<>> = Bytes(wire) BY <1>3, ConcatEmptySeq
  <2>4. QED BY <2>1, <2>2, <2>3
<1>5. Bytes(wire') = Bytes(wire) BY <1>1, <1>4
<1>6. QED BY <1>1, <1>5 DEF InTransit

LEMMA ReceiveMoves ==
  ASSUME FlowInv, FlowInv', Sealed, Alive, Receive
  PROVE  InTransit' = InTransit /\ arrived' = arrived
<1>0. FlowTypes /\ FlowTypes' BY DEF FlowInv
<1>1. TransitTyped /\ TransitTyped' BY <1>0, TransitIs, TransitNext
<1> DEFINE h == Head(wire)
           W == Bytes(Tail(wire))
           T == Cat(Bytes(startq), Cat(Bytes(pending), Cat(Bytes(ready), batch.data)))
<1>2. /\ wire # <<>> /\ wire' = Tail(wire)
      /\ UNCHANGED <<arrived, shown, startq, pending, ready, batch>>
      /\ stream = "open" /\ h = CloseFrame => xterm' = xterm
      /\ stream = "open" /\ h # CloseFrame => xterm' = Append(xterm, h)
  BY DEF Receive, reader, gateState
<1>3. stream = "open"
  <2>1. stream # "none" BY <1>2 DEF FlowInv, Starting
  <2>2. stream # "cut" /\ stream # "ended" BY <1>2 DEF Alive, Sealed
  <2>3. QED BY <1>0, <2>1, <2>2 DEF FlowTypes
<1>4. wire \in Seq(Frames) /\ xterm \in Seq(Frames) BY <1>0, OutFrameIs, FlowAssumption DEF FlowTypes
<1>5. h \in Frames /\ Bytes(wire) = Cat(h.data, W) BY <1>2, <1>4, BytesHead DEF Cat
<1>6. W \in Seq(Nat) /\ Bytes(xterm) \in Seq(Nat) /\ T \in Seq(Nat)
  <2>1. W \in Seq(Nat) /\ Bytes(xterm) \in Seq(Nat) BY <1>1, <1>2 DEF TransitTyped
  <2>2. /\ Bytes(startq) \in Seq(Nat) /\ Bytes(pending) \in Seq(Nat) /\ Bytes(ready) \in Seq(Nat)
        /\ batch.data \in Seq(Nat)
    BY <1>1 DEF TransitTyped
  <2>3. Cat(Bytes(ready), batch.data) \in Seq(Nat) BY <2>2, CatType
  <2>4. Cat(Bytes(pending), Cat(Bytes(ready), batch.data)) \in Seq(Nat) BY <2>2, <2>3, CatType
  <2>5. QED BY <2>1, <2>2, <2>4, CatType
<1>7. h.data \in Seq(Nat) BY <1>5 DEF Frames
<1>8. Bytes(xterm') = Cat(Bytes(xterm), h.data)
  <2>1. CASE h = CloseFrame
    <3>1. h.data = <<>> BY <2>1 DEF CloseFrame, Frame
    <3>2. QED BY <1>2, <1>3, <1>6, <2>1, <3>1, CatEmpty
  <2>2. CASE h # CloseFrame
    <3> HIDE DEF h
    <3> QED BY <1>2, <1>3, <1>4, <1>5, <2>2, BytesAppend DEF Cat
  <2>3. QED BY <2>1, <2>2
<1> DEFINE a == h.data
           X == Bytes(xterm)
<1>9. InTransit = Cat(shown, Cat(X, Cat(Cat(a, W), T))) BY <1>1, <1>5 DEF TransitTyped, Line
<1>10. InTransit' = Cat(shown, Cat(Cat(X, a), Cat(W, T)))
  BY <1>1, <1>2, <1>8 DEF TransitTyped, Line
<1>11. a \in Seq(Nat) /\ X \in Seq(Nat) BY <1>6, <1>7
<1> HIDE DEF h, W, T, a, X
<1>12. Cat(X, Cat(Cat(a, W), T)) = Cat(Cat(X, a), Cat(W, T)) BY <1>6, <1>11, Moves
<1>13. QED BY <1>2, <1>9, <1>10, <1>12

LEMMA ConsumeMoves ==
  ASSUME FlowInv, FlowInv', Consume
  PROVE  InTransit' = InTransit /\ arrived' = arrived
<1>0. FlowTypes /\ FlowTypes' BY DEF FlowInv
<1>1. TransitTyped /\ TransitTyped' BY <1>0, TransitIs, TransitNext
<1> DEFINE a == Head(xterm).data
           X == Bytes(Tail(xterm))
           T == Cat(Bytes(wire), Cat(Bytes(startq), Cat(Bytes(pending), Cat(Bytes(ready), batch.data))))
<1>2. /\ xterm # <<>> /\ xterm' = Tail(xterm) /\ shown' = Cat(shown, a)
      /\ UNCHANGED <<arrived, wire, startq, pending, ready, batch>>
  BY DEF Consume, reader, gateState, ipc, Cat
<1>3. xterm \in Seq(Frames) BY <1>0, OutFrameIs, FlowAssumption DEF FlowTypes
<1>4. a \in Seq(Nat) /\ Bytes(xterm) = Cat(a, X)
  <2>1. Head(xterm) \in Frames /\ Bytes(xterm) = Head(xterm).data \o Bytes(Tail(xterm))
    BY <1>2, <1>3, BytesHead
  <2>2. QED BY <2>1 DEF Cat, Frames
<1>5. X \in Seq(Nat) /\ shown \in Seq(Nat) BY <1>1, <1>2 DEF TransitTyped
<1>6. T \in Seq(Nat)
  <2>1. /\ Bytes(startq) \in Seq(Nat) /\ Bytes(pending) \in Seq(Nat) /\ Bytes(ready) \in Seq(Nat)
        /\ batch.data \in Seq(Nat) /\ Bytes(wire) \in Seq(Nat)
    BY <1>1 DEF TransitTyped
  <2>2. Cat(Bytes(ready), batch.data) \in Seq(Nat) BY <2>1, CatType
  <2>3. Cat(Bytes(pending), Cat(Bytes(ready), batch.data)) \in Seq(Nat) BY <2>1, <2>2, CatType
  <2>4. Cat(Bytes(startq), Cat(Bytes(pending), Cat(Bytes(ready), batch.data))) \in Seq(Nat)
    BY <2>1, <2>3, CatType
  <2>5. QED BY <2>1, <2>4, CatType
<1>7. InTransit = Cat(shown, Cat(Cat(a, X), T)) BY <1>1, <1>4 DEF TransitTyped, Line
<1>8. InTransit' = Cat(Cat(shown, a), Cat(X, T)) BY <1>1, <1>2 DEF TransitTyped, Line
<1> HIDE DEF a, X, T
<1>9. QED BY <1>2, <1>4, <1>5, <1>6, <1>7, <1>8, Moves

-----------------------------------------------------------------------------
LEMMA OrderStep == FlowInv /\ FlowInv' /\ OrderInv /\ [Next]_vars => OutputConserved'
<1> SUFFICES ASSUME FlowInv, FlowInv', OrderInv, [Next]_vars, Alive' PROVE Tailing(InTransit', arrived')
  BY DEF OutputConserved, Alive, Tailing
<1>0. FlowTypes /\ Sealed BY DEF FlowInv, OrderInv
(* A terminal that still lives has lived before.                           *)
<1>1. Alive
  <2>1. ~flowClosed
    BY DEF Alive, vars, Next, ReadData, ReadExit, ReadClosed, FlushTick, ReadEof, Emit, RemoveRecord, Acquire,
       AcquireFails, ChannelSend, ChannelSendFails, StartLookup, StartLock, Close, CloseFlow, JoinReader,
       Announce, StartStream, StartReply, Receive, ClosedEvent, Consume, AckTimer, Acknowledge, IpcFails, flow
  <2>2. ipcUp
    BY DEF Alive, vars, Next, ReadData, ReadExit, ReadClosed, FlushTick, ReadEof, Emit, RemoveRecord, Acquire,
       AcquireFails, ChannelSend, ChannelSendFails, StartLookup, StartLock, Close, CloseFlow, JoinReader,
       Announce, StartStream, StartReply, Receive, ClosedEvent, Consume, AckTimer, Acknowledge, IpcFails, ipc
  <2>3. stream # "cut"
    <3>1. CASE StartStream BY <3>1 DEF StartStream, FlowInv, Starting
    <3>2. CASE ~StartStream
      BY <3>2 DEF Alive, vars, Next, ReadData, ReadExit, ReadClosed, FlushTick, ReadEof, Emit, RemoveRecord,
         Acquire, AcquireFails, ChannelSend, ChannelSendFails, StartLookup, StartLock, Close, CloseFlow,
         JoinReader, Announce, StartReply, Receive, ClosedEvent, TerminalClosed, Consume, AckTimer,
         Acknowledge, IpcFails, front
    <3>3. QED BY <3>1, <3>2
  <2>4. QED BY <2>1, <2>2, <2>3 DEF Alive
<1>2. Tailing(InTransit, arrived) BY <1>1 DEF OrderInv, OutputConserved, Alive, Tailing
<1>3. ASSUME InTransit' = InTransit /\ arrived' = arrived PROVE Tailing(InTransit', arrived')
  BY <1>2, <1>3
<1>4. ASSUME UNCHANGED <<arrived, shown, xterm, wire, startq, pending, ready, batch>>
      PROVE  Tailing(InTransit', arrived')
  BY <1>3, <1>4 DEF InTransit
<1>5. CASE UNCHANGED vars BY <1>4, <1>5 DEF vars, reader, gateState, ipc, front
<1>6. CASE ReadData \/ ReadExit \/ FlushTick \/ ReadEof BY <1>2, <1>6, ReadMoves
<1>7. CASE Emit BY <1>0, <1>1, <1>2, <1>7, EmitMoves
<1>8. CASE ReadClosed \/ RemoveRecord \/ StartLookup \/ Close \/ CloseFlow \/ StartStream \/ StartReply
           \/ ClosedEvent \/ AckTimer \/ IpcFails
  BY <1>4, <1>8 DEF ReadClosed, RemoveRecord, StartLookup, Close, CloseFlow, StartStream, StartReply,
     ClosedEvent, AckTimer, IpcFails, reader, gateState, ipc, front
<1>9. ASSUME NEW t \in Senders, Acquire(t) PROVE Tailing(InTransit', arrived')
  BY <1>4, <1>9 DEF Acquire, reader, gateState, ipc, front
<1>10. ASSUME NEW t \in Senders, AcquireFails(t) PROVE FALSE BY <1>1, <1>10 DEF AcquireFails, Alive
<1>11. ASSUME NEW t \in Senders, ChannelSendFails(t) PROVE FALSE BY <1>11 DEF ChannelSendFails, Alive
<1>12. ASSUME NEW t \in Senders, ChannelSend(t) PROVE Tailing(InTransit', arrived')
  BY <1>3, <1>12, SendMoves
<1>13. CASE StartLock BY <1>3, <1>13, StartMoves
<1>14. CASE JoinReader BY <1>0, <1>1, <1>14 DEF JoinReader, Sealed, Alive
<1>15. ASSUME NEW t \in Closers, Announce(t) PROVE Tailing(InTransit', arrived')
  BY <1>3, <1>15, AnnounceMoves
<1>16. CASE Receive BY <1>0, <1>1, <1>3, <1>16, ReceiveMoves
<1>17. CASE Consume BY <1>3, <1>17, ConsumeMoves
<1>18. ASSUME NEW c \in acks, Acknowledge(c) PROVE Tailing(InTransit', arrived')
  BY <1>4, <1>18 DEF Acknowledge, reader, gateState, ipc
<1>19. QED
  BY <1>5, <1>6, <1>7, <1>8, <1>9, <1>10, <1>11, <1>12, <1>13, <1>14, <1>15, <1>16, <1>17, <1>18 DEF Next

LEMMA OrderInit == Init => OrderInv
<1> SUFFICES ASSUME Init PROVE OrderInv OBVIOUS
<1>1. Sealed BY SealedInit
<1>2. InTransit = <<>> /\ arrived = 0
  <2>1. /\ shown = <<>> /\ xterm = <<>> /\ wire = <<>> /\ startq = <<>> /\ pending = <<>> /\ ready = <<>>
        /\ batch.data = <<>> /\ arrived = 0
    BY DEF Init, NoBatch, Frame
  <2>2. <<>> \o <<>> = <<>> OBVIOUS
  <2>3. QED BY <2>1, <2>2, BytesEmpty DEF InTransit
<1>3. OutputConserved BY <1>2 DEF OutputConserved
<1>4. QED BY <1>1, <1>3 DEF OrderInv

(* No output of a live terminal is lost, repeated or reordered between the *)
(* SSH channel and the screen, for any feed and any sizes of frames and    *)
(* buffers; only the startup buffer may drop, and only the oldest bytes.   *)
THEOREM OutputConservedTheorem == Spec => []OutputConserved
<1>1. OrderInv => OutputConserved BY DEF OrderInv
<1>2. FlowInv /\ FlowInv' /\ OrderInv /\ [Next]_vars => OrderInv'
  BY SealedStep, OrderStep DEF OrderInv
<1>3. QED BY FlowInvariant, OrderInit, <1>1, <1>2, PTL DEF Spec
=============================================================================
