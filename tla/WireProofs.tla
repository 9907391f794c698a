----------------------------- MODULE WireProofs -----------------------------
(***************************************************************************)
(* VarInts, packets, strings and handshakes: what is written is read back, *)
(* for every i32 and every sequence of bytes, whatever follows.            *)
(***************************************************************************)
EXTENDS Wire, SequenceTheorems, TLAPS

Byte == 0..255

Signed(g) == IF g < 8 THEN g ELSE g - 16

(* A group has seven bits, and the fifth has four.                         *)
LEMMA GroupRange ==
    ASSUME NEW v \in Int32
    PROVE  /\ \A i \in 1..5 : Digit(v, i) \in 0..127
           /\ Digit(v, 5) \in 0..15
BY SMT DEF Int32, Digit, Weight

(* The five groups of a value make it up again, the fifth with its sign.   *)
LEMMA GroupsMakeValue ==
    ASSUME NEW v \in Int32
    PROVE  v = Digit(v, 1) * Weight[1] + Digit(v, 2) * Weight[2] + Digit(v, 3) * Weight[3]
                 + Digit(v, 4) * Weight[4] + Signed(Digit(v, 5)) * Weight[5]
<1>1. /\ Digit(v, 1) = v % 128
      /\ Digit(v, 2) = (v \div 128) % 128
      /\ Digit(v, 3) = (v \div 16384) % 128
      /\ Digit(v, 4) = (v \div 2097152) % 128
      /\ Digit(v, 5) = (v \div 268435456) % 16
  BY SMT DEF Digit, Weight, Int32
<1>2. v = (v % 128) + ((v \div 128) % 128) * 128 + ((v \div 16384) % 128) * 16384
            + ((v \div 2097152) % 128) * 2097152 + (v \div 268435456) * 268435456
  BY SMT DEF Int32
<1> DEFINE q == v \div 268435456
<1>3. -8 <= q /\ q <= 7
  BY SMT DEF Int32
<1>4. q \in Int
  BY SMT DEF Int32
<1>5. (IF q % 16 < 8 THEN q % 16 ELSE (q % 16) - 16) = q
  <2> HIDE DEF q
  <2> QED
    BY <1>3, <1>4, SMT
<1>6. /\ Weight[1] = 1 /\ Weight[2] = 128 /\ Weight[3] = 16384
      /\ Weight[4] = 2097152 /\ Weight[5] = 268435456
  BY SMT DEF Weight
<1>7. /\ Digit(v, 1) * Weight[1] = v % 128
      /\ Digit(v, 2) * Weight[2] = ((v \div 128) % 128) * 128
      /\ Digit(v, 3) * Weight[3] = ((v \div 16384) % 128) * 16384
      /\ Digit(v, 4) * Weight[4] = ((v \div 2097152) % 128) * 2097152
  <2>1. v \in Int
    BY SMT DEF Int32
  <2> QED
    BY <1>1, <1>6, <2>1, SMT
<1>8. Signed(Digit(v, 5)) * Weight[5] = q * 268435456
  <2>1. Signed(Digit(v, 5)) = q
    BY <1>1, <1>5, SMT DEF Signed
  <2> QED
    BY <1>6, <2>1, SMT
<1> QED
  BY <1>2, <1>7, <1>8, SMT

(* A value needs no more groups than it is given.                          *)
LEMMA GroupsBeyondAreZero ==
    ASSUME NEW v \in Int32, NEW i \in 1..5, i > VarintLen(v)
    PROVE  Digit(v, i) = 0
BY SMT DEF Int32, VarintLen, Digit, Weight

(* What is written: the groups in their order, all but the last marked.    *)
LEMMA EncodedBytes ==
    ASSUME NEW v \in Int32
    PROVE  /\ VarintLen(v) \in 1..5
           /\ EncodeVarint(v) \in Seq(Byte)
           /\ Len(EncodeVarint(v)) = VarintLen(v)
           /\ \A i \in 1..VarintLen(v) :
                EncodeVarint(v)[i] = Digit(v, i) + (IF i < VarintLen(v) THEN 128 ELSE 0)
<1> DEFINE n == VarintLen(v)
           e == [i \in 1..n |-> Digit(v, i) + (IF i < n THEN 128 ELSE 0)]
<1>1. n \in 1..5
  BY SMT DEF VarintLen, Int32
<1>2. EncodeVarint(v) = e
  BY Zenon DEF EncodeVarint
<1> HIDE DEF n
<1>3. \A i \in 1..n : Digit(v, i) + (IF i < n THEN 128 ELSE 0) \in Byte
  BY <1>1, GroupRange, SMT DEF Byte
<1>4. e \in [1..n -> Byte]
  BY <1>3, Zenon
<1>5. e \in Seq(Byte) /\ Len(e) = n
  BY <1>1, <1>4, SMT
<1> QED
  BY <1>1, <1>2, <1>5, Zenon DEF n

(* The same bytes with others after them.                                  *)
LEMMA EncodedAhead ==
    ASSUME NEW v \in Int32, NEW tail \in Seq(Byte),
           NEW s, s = EncodeVarint(v) \o tail, NEW n, n = VarintLen(v)
    PROVE  /\ n \in 1..5
           /\ n <= Len(s)
           /\ Len(s) \in Nat
           /\ \A i \in 1..n : s[i] = Digit(v, i) + (IF i < n THEN 128 ELSE 0)
<1>1. /\ Len(s) = Len(EncodeVarint(v)) + Len(tail)
      /\ \A i \in 1..(Len(EncodeVarint(v)) + Len(tail)) :
           s[i] = IF i <= Len(EncodeVarint(v)) THEN EncodeVarint(v)[i]
                  ELSE tail[i - Len(EncodeVarint(v))]
  BY EncodedBytes, ConcatProperties, Zenon
<1>2. Len(tail) \in Nat
  BY LenProperties, Zenon
<1>3. /\ n \in 1..5
      /\ Len(EncodeVarint(v)) = n
      /\ \A i \in 1..n : EncodeVarint(v)[i] = Digit(v, i) + (IF i < n THEN 128 ELSE 0)
  BY EncodedBytes, Zenon
<1> HIDE DEF EncodeVarint
<1> QED
  BY <1>1, <1>2, <1>3, SMT

(* A byte that holds a group, marked or not, gives it back.                *)
LEMMA MarkedGroup ==
    ASSUME NEW g \in 0..127
    PROVE  g + 128 >= 128 /\ ~(g + 128 < 128) /\ (g + 128) % 128 = g
BY SMT

LEMMA LastGroup ==
    ASSUME NEW g \in 0..127
    PROVE  g \in Int /\ g < 128 /\ ~(g >= 128) /\ g % 128 = g /\ g + 0 = g
BY SMT

(* What read_varint makes of bytes that hold the groups d of a value v.    *)
LEMMA GroupsAreRead ==
    ASSUME NEW n \in 1..5,
           NEW d \in [1..5 -> 0..127], d[5] \in 0..15,
           \A i \in 1..5 : i > n => d[i] = 0,
           NEW s \in Seq(Byte), n <= Len(s),
           s[n] = d[n],
           \A i \in 1..5 : i < n => s[i] = d[i] + 128,
           NEW v \in Int,
           v = d[1] * Weight[1] + d[2] * Weight[2] + d[3] * Weight[3]
                 + d[4] * Weight[4] + Signed(d[5]) * Weight[5]
    PROVE  ReadVarint(s) = [is |-> "ok", used |-> n, value |-> v]
<1>0. \A i \in 1..5 : d[i] \in 0..127
  BY Zenon
<1>1. ASSUME NEW i \in 1..5, i < n
      PROVE  s[i] >= 128 /\ ~(s[i] < 128) /\ s[i] % 128 = d[i]
  <2>1. s[i] = d[i] + 128
    BY <1>1, Zenon
  <2>2. d[i] \in 0..127
    BY <1>0, Zenon
  <2>3. d[i] + 128 >= 128 /\ ~(d[i] + 128 < 128) /\ (d[i] + 128) % 128 = d[i]
    BY <2>2, MarkedGroup, Zenon
  <2> QED
    BY <2>1, <2>3, Zenon
<1>t. s[n] < 128 /\ s[n] % 128 = d[n]
  <2>1. d[n] \in 0..127
    BY <1>0, Zenon
  <2> QED
    BY <2>1, LastGroup, Zenon
<1>2. VarintEnds(s, n)
  <2>1. \A i \in 1..(n - 1) : i \in 1..5 /\ i < n
    BY SMT
  <2> QED
    BY <1>1, <1>t, <2>1, Zenon DEF VarintEnds
<1>3. ASSUME NEW m \in 1..5, VarintEnds(s, m)
      PROVE  m = n
  <2>1. s[m] < 128 /\ \A i \in 1..5 : i < m => s[i] >= 128
    <3>1. \A i \in 1..5 : i < m => i \in 1..(m - 1)
      BY SMT
    <3> QED
      BY <1>3, <3>1, Zenon DEF VarintEnds
  <2>2. ~(m < n)
    BY <1>1, <2>1, Zenon
  <2>3. ~(n < m)
    <3>1. n < m => s[n] >= 128
      BY <2>1, Zenon
    <3> QED
      BY <1>0, <3>1, LastGroup, Zenon
  <2> QED
    BY <2>2, <2>3, SMT
<1>4. (CHOOSE m \in 1..5 : VarintEnds(s, m)) = n
  BY <1>2, <1>3, Zenon
<1>5. ASSUME NEW i \in 1..4
      PROVE  Part(s, n, i) = d[i] * Weight[i]
  <2>1. i <= n => s[i] % 128 = d[i]
    <3>1. i \in 1..5 /\ (i <= n => (i < n \/ i = n))
      BY SMT
    <3> QED
      BY <1>1, <1>t, <3>1, Zenon
  <2>2. Weight[i] \in Nat
    BY SMT DEF Weight
  <2> QED
    BY <2>1, <2>2, SMT DEF Part, Group
<1>6. Part(s, n, 5) = Signed(d[5]) * Weight[5]
  <2>1. n = 5 => s[5] % 16 = d[5]
    BY SMT
  <2>2. Weight[5] \in Nat
    BY SMT DEF Weight
  <2>3. n # 5 => d[5] = 0 /\ ~(5 <= n)
    BY SMT
  <2> QED
    BY <2>1, <2>2, <2>3, SMT DEF Part, Group, Signed
<1>7. /\ Part(s, n, 1) = d[1] * Weight[1]
      /\ Part(s, n, 2) = d[2] * Weight[2]
      /\ Part(s, n, 3) = d[3] * Weight[3]
      /\ Part(s, n, 4) = d[4] * Weight[4]
  <2>1. 1 \in 1..4 /\ 2 \in 1..4 /\ 3 \in 1..4 /\ 4 \in 1..4
    BY SMT
  <2> QED
    BY <1>5, <2>1, Zenon
<1>8. Part(s, n, 1) + Part(s, n, 2) + Part(s, n, 3) + Part(s, n, 4) + Part(s, n, 5) = v
  BY <1>6, <1>7, Zenon
<1> QED
  BY <1>2, <1>4, <1>8, Zenon DEF ReadVarint

(* read_varint on what encode_varint wrote returns the value, for every    *)
(* i32, and leaves what follows unread (varint.rs:5-60).                   *)
THEOREM VarintsRoundTrip ==
    ASSUME NEW v \in Int32, NEW tail \in Seq(Byte)
    PROVE  ReadVarint(EncodeVarint(v) \o tail)
             = [is |-> "ok", used |-> Len(EncodeVarint(v)), value |-> v]
<1> DEFINE s == EncodeVarint(v) \o tail
           n == VarintLen(v)
           d == [i \in 1..5 |-> Digit(v, i)]
<1>1. /\ n \in 1..5
      /\ n <= Len(s)
      /\ \A i \in 1..n : i \in 1..5
      /\ \A i \in 1..n : s[i] = Digit(v, i) + (IF i < n THEN 128 ELSE 0)
  <2>1. ASSUME NEW m \in 1..5 PROVE \A i \in 1..m : i \in 1..5
    BY SMT
  <2> QED
    BY <2>1, EncodedAhead, Zenon
<1>2. s \in Seq(Byte)
  BY EncodedBytes, ConcatProperties, Zenon
<1>3. d \in [1..5 -> 0..127] /\ Digit(v, 5) \in 0..15
  BY GroupRange, Zenon
<1>4. 1 \in 1..5 /\ 2 \in 1..5 /\ 3 \in 1..5 /\ 4 \in 1..5 /\ 5 \in 1..5
  BY SMT
<1>5. /\ d[1] = Digit(v, 1) /\ d[2] = Digit(v, 2) /\ d[3] = Digit(v, 3)
      /\ d[4] = Digit(v, 4) /\ d[5] = Digit(v, 5)
  BY <1>4, Zenon
<1>6. \A i \in 1..5 : i > n => d[i] = 0
  BY GroupsBeyondAreZero, Zenon
<1>7. /\ s[n] = d[n]
      /\ \A i \in 1..5 : i < n => s[i] = d[i] + 128
  <2>1. n \in 1..n /\ ~(n < n) /\ \A i \in 1..5 : i < n => i \in 1..n
    BY <1>1, SMT
  <2>2. Digit(v, n) + 0 = Digit(v, n)
    BY <1>1, GroupRange, LastGroup, Zenon
  <2> QED
    BY <1>1, <1>5, <2>1, <2>2, Zenon
<1>8. v \in Int
  BY SMT DEF Int32
<1>9. v = d[1] * Weight[1] + d[2] * Weight[2] + d[3] * Weight[3]
            + d[4] * Weight[4] + Signed(d[5]) * Weight[5]
  BY <1>5, GroupsMakeValue, Zenon
<1>10. d[5] \in 0..15
  BY <1>3, <1>5, Zenon
<1>11. Len(EncodeVarint(v)) = n
  BY EncodedBytes, Zenon
<1> HIDE DEF s, n, d
<1>12. ReadVarint(s) = [is |-> "ok", used |-> n, value |-> v]
  BY <1>1, <1>2, <1>3, <1>6, <1>7, <1>8, <1>9, <1>10, GroupsAreRead, Zenon
<1> QED
  BY <1>11, <1>12, Zenon DEF s

---------------------------------------------------------------------------
(* Framing: what was read of a stream stays when more comes.               *)

LEMMA ByteIsOneSided ==
    ASSUME NEW x \in Byte
    PROVE  ~(x < 128 /\ x >= 128)
BY SMT DEF Byte

LEMMA GroupIsSmall ==
    ASSUME NEW x \in Byte, NEW i \in 1..5
    PROVE  Group(x, i) \in IF i < 5 THEN 0..127 ELSE (-8)..7
BY SMT DEF Byte, Group

(* Five groups, the last with its sign, make an i32.                       *)
LEMMA SumIsInt32 ==
    ASSUME NEW g1 \in 0..127, NEW g2 \in 0..127, NEW g3 \in 0..127,
           NEW g4 \in 0..127, NEW g5 \in (-8)..7
    PROVE  g1 * Weight[1] + g2 * Weight[2] + g3 * Weight[3] + g4 * Weight[4]
             + g5 * Weight[5] \in Int32
BY SMT DEF Weight, Int32

(* What lies within a sequence is the same when more comes.                *)
LEMMA SubSeqStays ==
    ASSUME NEW s \in Seq(Byte), NEW t \in Seq(Byte), NEW m \in Int, NEW e \in Int,
           \A i \in m..e : s[i] \in Byte /\ t[i] = s[i]
    PROVE  SubSeq(t, m, e) = SubSeq(s, m, e)
<1> DEFINE a == SubSeq(s, m, e)
           c == SubSeq(t, m, e)
           n == IF m <= e THEN e - m + 1 ELSE 0
<1>1. a \in Seq(Byte) /\ Len(a) = n /\ \A i \in 1..(e - m + 1) : a[i] = s[m + i - 1]
  <2>1. \A i \in m..e : s[i] \in Byte
    BY Zenon
  <2> QED
    BY <2>1, SubSeqProperties
<1>2. c \in Seq(Byte) /\ Len(c) = n /\ \A i \in 1..(e - m + 1) : c[i] = t[m + i - 1]
  <2>1. \A i \in m..e : t[i] \in Byte
    BY Zenon
  <2> QED
    BY <2>1, SubSeqProperties
<1>3. ASSUME NEW i \in 1..n
      PROVE  a[i] = c[i]
  <2>1. i \in 1..(e - m + 1) /\ m + i - 1 \in m..e
    BY SMT
  <2> QED
    BY <1>1, <1>2, <2>1, Zenon
<1> HIDE DEF a, c, n
<1>4. a = c
  BY <1>1, <1>2, <1>3, SeqEqual, Zenon
<1> QED
  BY <1>4, Zenon DEF a, c

(* A VarInt ends in one place.                                             *)
LEMMA EndsOnce ==
    ASSUME NEW s \in Seq(Byte), NEW m \in 1..5, NEW n \in 1..5,
           VarintEnds(s, m), VarintEnds(s, n)
    PROVE  m = n
<1>1. ASSUME NEW a \in 1..5, NEW b \in 1..5, VarintEnds(s, a), VarintEnds(s, b)
      PROVE  ~(a < b)
  <2>1. SUFFICES ASSUME a < b PROVE FALSE
    OBVIOUS
  <2>2. a \in 1..(b - 1)
    BY <2>1, SMT
  <2>3. s[a] < 128 /\ s[a] >= 128
    BY <1>1, <2>2, Zenon DEF VarintEnds
  <2>4. a \in 1..Len(s)
    BY <1>1, SMT DEF VarintEnds
  <2>5. s[a] \in Byte
    BY <2>4, ElementOfSeq, Zenon
  <2> QED
    BY <2>3, <2>5, ByteIsOneSided, Zenon
<1>2. ~(m < n) /\ ~(n < m)
  BY <1>1, Zenon
<1> QED
  BY <1>2, SMT

(* What a VarInt that was read looks like.                                 *)
LEMMA ReadVarintResult ==
    ASSUME NEW s \in Seq(Byte), ReadVarint(s).is = "ok"
    PROVE  /\ ReadVarint(s).used \in 1..5
           /\ ReadVarint(s).used <= Len(s)
           /\ ReadVarint(s).value \in Int32
<1>1. CASE \E n \in 1..5 : VarintEnds(s, n)
  <2> DEFINE n == CHOOSE n \in 1..5 : VarintEnds(s, n)
             g == [i \in 1..5 |-> IF i <= n THEN Group(s[i], i) ELSE 0]
  <2>1. n \in 1..5 /\ VarintEnds(s, n)
    BY <1>1, Zenon
  <2>2. ReadVarint(s) = [is |-> "ok", used |-> n,
              value |-> Part(s, n, 1) + Part(s, n, 2) + Part(s, n, 3)
                          + Part(s, n, 4) + Part(s, n, 5)]
    BY <1>1, Zenon DEF ReadVarint
  <2> HIDE DEF n
  <2>3. n <= Len(s)
    BY <2>1, Zenon DEF VarintEnds
  <2>4. ASSUME NEW i \in 1..5
        PROVE  /\ g[i] \in IF i < 5 THEN 0..127 ELSE (-8)..7
               /\ Part(s, n, i) = g[i] * Weight[i]
    <3>0. g[i] = IF i <= n THEN Group(s[i], i) ELSE 0
      BY Zenon
    <3> HIDE DEF g
    <3>1. CASE i <= n
      <4>1. i \in 1..Len(s)
        BY <2>1, <2>3, <3>1, LenProperties, SMT
      <4>2. s[i] \in Byte
        BY <4>1, ElementOfSeq, Zenon
      <4> QED
        BY <3>0, <3>1, <4>2, GroupIsSmall, Zenon DEF Part
    <3>2. CASE ~(i <= n)
      <4>1. 0 \in IF i < 5 THEN 0..127 ELSE (-8)..7
        BY SMT
      <4>2. 0 * Weight[i] = 0
        BY SMT DEF Weight
      <4> QED
        BY <3>0, <3>2, <4>1, <4>2, Zenon DEF Part
    <3> QED
      BY <3>1, <3>2, Zenon
  <2> HIDE DEF g
  <2>5. /\ 1 \in 1..5 /\ 2 \in 1..5 /\ 3 \in 1..5 /\ 4 \in 1..5 /\ 5 \in 1..5
        /\ 1 < 5 /\ 2 < 5 /\ 3 < 5 /\ 4 < 5 /\ ~(5 < 5)
    BY SMT
  <2>6. /\ g[1] \in 0..127 /\ g[2] \in 0..127 /\ g[3] \in 0..127
        /\ g[4] \in 0..127 /\ g[5] \in (-8)..7
    BY <2>4, <2>5, Zenon
  <2>7. Part(s, n, 1) + Part(s, n, 2) + Part(s, n, 3) + Part(s, n, 4) + Part(s, n, 5)
          = g[1] * Weight[1] + g[2] * Weight[2] + g[3] * Weight[3] + g[4] * Weight[4]
              + g[5] * Weight[5]
    BY <2>4, <2>5, Zenon
  <2>8. ReadVarint(s).value \in Int32
    <3>1. ReadVarint(s).value = Part(s, n, 1) + Part(s, n, 2) + Part(s, n, 3)
                                  + Part(s, n, 4) + Part(s, n, 5)
      BY <2>2, SMT
    <3>2. g[1] * Weight[1] + g[2] * Weight[2] + g[3] * Weight[3] + g[4] * Weight[4]
            + g[5] * Weight[5] \in Int32
      BY <2>6, SumIsInt32, Zenon
    <3> QED
      BY <2>7, <3>1, <3>2, Zenon
  <2>9. ReadVarint(s).used = n
    BY <2>2, SMT
  <2> QED
    BY <2>1, <2>3, <2>8, <2>9, Zenon
<1>2. CASE ~ \E n \in 1..5 : VarintEnds(s, n)
  <2>1. ReadVarint(s) \in {More, Bad}
    BY <1>2, Zenon DEF ReadVarint
  <2> QED
    BY <2>1, SMT DEF More, Bad
<1> QED
  BY <1>1, <1>2, Zenon

(* A VarInt that was read, or refused, is so whatever byte comes next.     *)
LEMMA VarintStays ==
    ASSUME NEW s \in Seq(Byte), NEW b \in Byte, NEW t, t = Append(s, b),
           ReadVarint(s).is # "more"
    PROVE  ReadVarint(t) = ReadVarint(s)
<1>1. t \in Seq(Byte) /\ Len(t) = Len(s) + 1 /\ Len(s) \in Nat
  BY SMT
<1>2. \A i \in 1..Len(s) : t[i] = s[i]
  BY SMT
<1>3. ASSUME NEW m \in 1..5, m <= Len(s)
      PROVE  VarintEnds(t, m) <=> VarintEnds(s, m)
  <2>1. m \in 1..Len(s) /\ m <= Len(t) /\ \A i \in 1..(m - 1) : i \in 1..Len(s)
    BY <1>1, <1>3, SMT
  <2> QED
    BY <1>2, <1>3, <2>1, Zenon DEF VarintEnds
<1>4. CASE \E n \in 1..5 : VarintEnds(s, n)
  <2>1. PICK n \in 1..5 : VarintEnds(s, n)
    BY <1>4, Zenon
  <2>2. n <= Len(s)
    BY <2>1, Zenon DEF VarintEnds
  <2>3. VarintEnds(t, n)
    BY <1>3, <2>1, <2>2, Zenon
  <2>4. /\ (CHOOSE m \in 1..5 : VarintEnds(s, m)) = n
        /\ (CHOOSE m \in 1..5 : VarintEnds(t, m)) = n
    BY <1>1, <2>1, <2>3, EndsOnce, Zenon
  <2>5. ASSUME NEW i \in 1..5
        PROVE  Part(t, n, i) = Part(s, n, i)
    <3>1. i <= n => i \in 1..Len(s)
      BY <1>1, <2>2, SMT
    <3> QED
      BY <1>2, <3>1, Zenon DEF Part
  <2>6. /\ Part(t, n, 1) = Part(s, n, 1) /\ Part(t, n, 2) = Part(s, n, 2)
        /\ Part(t, n, 3) = Part(s, n, 3) /\ Part(t, n, 4) = Part(s, n, 4)
        /\ Part(t, n, 5) = Part(s, n, 5)
    <3>1. 1 \in 1..5 /\ 2 \in 1..5 /\ 3 \in 1..5 /\ 4 \in 1..5 /\ 5 \in 1..5
      BY SMT
    <3> QED
      BY <2>5, <3>1, Zenon
  <2> QED
    BY <1>4, <2>3, <2>4, <2>6, Zenon DEF ReadVarint
<1>5. CASE ~ \E n \in 1..5 : VarintEnds(s, n)
  <2>1. ~(Len(s) < 5)
    <3>1. Len(s) < 5 => ReadVarint(s) = More
      BY <1>5, Zenon DEF ReadVarint
    <3> QED
      BY <3>1, SMT DEF More
  <2>2. ~(Len(t) < 5) /\ \A m \in 1..5 : m <= Len(s)
    BY <1>1, <2>1, SMT
  <2>3. ~ \E n \in 1..5 : VarintEnds(t, n)
    BY <1>3, <1>5, <2>2, Zenon
  <2> QED
    BY <1>5, <2>1, <2>2, <2>3, Zenon DEF ReadVarint
<1> QED
  BY <1>4, <1>5, Zenon

(* So does a packet.                                                       *)
LEMMA PacketStays ==
    ASSUME NEW s \in Seq(Byte), NEW b \in Byte, NEW t, t = Append(s, b),
           ReadPacket(s).is # "more"
    PROVE  ReadPacket(t) = ReadPacket(s)
<1> DEFINE length == ReadVarint(s)
           end == length.used + length.value
<1>1. length.is # "more"
  <2>1. length.is # "ok" => ReadPacket(s) = length
    BY Zenon DEF ReadPacket
  <2>2. "more" # "ok"
    BY SMT
  <2> QED
    BY <2>1, <2>2, Zenon
<1>2. ReadVarint(t) = length
  BY <1>1, VarintStays, Zenon
<1>3. CASE length.is # "ok" \/ length.value \notin 0..MaxPacketLen
  BY <1>2, <1>3, Zenon DEF ReadPacket
<1>4. CASE length.is = "ok" /\ length.value \in 0..MaxPacketLen
  <2>1. length.used \in 1..5 /\ length.used <= Len(s) /\ length.value \in Nat
    <3>1. length.used \in 1..5 /\ length.used <= Len(s)
      BY <1>4, ReadVarintResult, Zenon
    <3> QED
      BY <1>4, <3>1, LimitsAssumption, SMT
  <2>2. ReadPacket(s) = IF Len(s) < end THEN More
                        ELSE PacketOf(SubSeq(s, length.used + 1, end), end)
    BY <1>4, Zenon DEF ReadPacket
  <2>3. ReadPacket(t) = IF Len(t) < end THEN More
                        ELSE PacketOf(SubSeq(t, length.used + 1, end), end)
    BY <1>2, <1>4, Zenon DEF ReadPacket
  <2> HIDE DEF length
  <2>4. ~(Len(s) < end)
    <3>1. More.is = "more"
      BY SMT DEF More
    <3> QED
      BY <2>2, <3>1, Zenon
  <2>5. t \in Seq(Byte) /\ Len(t) = Len(s) + 1 /\ Len(s) \in Nat
    BY SMT
  <2>6. ~(Len(t) < end)
    BY <2>1, <2>4, <2>5, SMT
  <2>7. SubSeq(t, length.used + 1, end) = SubSeq(s, length.used + 1, end)
    <3>1. \A i \in (length.used + 1)..end : i \in 1..Len(s)
      BY <2>1, <2>4, <2>5, SMT
    <3>2. \A i \in 1..Len(s) : s[i] \in Byte /\ t[i] = s[i]
      <4>1. \A i \in 1..Len(s) : t[i] = s[i]
        BY SMT
      <4> QED
        BY <4>1, ElementOfSeq, Zenon
    <3>3. length.used + 1 \in Int /\ end \in Int
      BY <2>1, SMT
    <3> QED
      BY <2>5, <3>1, <3>2, <3>3, SubSeqStays, Zenon
  <2> QED
    BY <2>2, <2>3, <2>4, <2>6, <2>7, Zenon
<1> QED
  BY <1>3, <1>4, Zenon

---------------------------------------------------------------------------
(* Pieces of a sequence.                                                   *)

(* What stands from k + 1 on.                                              *)
LEMMA CutOut ==
    ASSUME NEW s \in Seq(Byte), NEW t \in Seq(Byte), NEW k \in Nat,
           k + Len(t) <= Len(s),
           \A i \in 1..Len(t) : s[k + i] = t[i]
    PROVE  SubSeq(s, k + 1, k + Len(t)) = t
<1> DEFINE n == Len(t)
           c == SubSeq(s, k + 1, k + n)
<1>1. n \in Nat /\ Len(s) \in Nat
  BY LenProperties, Zenon
<1>2. \A i \in (k + 1)..(k + n) : s[i] \in Byte
  <2>1. \A i \in (k + 1)..(k + n) : i \in 1..Len(s)
    BY <1>1, SMT
  <2> QED
    BY <2>1, ElementOfSeq, Zenon
<1>3. c \in Seq(Byte) /\ Len(c) = n /\ \A i \in 1..n : c[i] = s[k + i]
  <2>1. /\ k + 1 \in Int /\ k + n \in Int
        /\ (k + n) - (k + 1) + 1 = n
        /\ (k + 1 <= k + n => (k + n) - (k + 1) + 1 = n)
        /\ (~(k + 1 <= k + n) => 0 = n)
        /\ \A i \in 1..n : (k + 1) + i - 1 = k + i
    BY <1>1, SMT
  <2>2. /\ c \in Seq(Byte)
        /\ Len(c) = IF k + 1 <= k + n THEN (k + n) - (k + 1) + 1 ELSE 0
        /\ \A i \in 1..((k + n) - (k + 1) + 1) : c[i] = s[(k + 1) + i - 1]
    <3> HIDE DEF n
    <3> QED
      BY <1>2, <2>1, SubSeqProperties
  <2> HIDE DEF n, c
  <2> QED
    BY <2>1, <2>2, Zenon
<1>4. \A i \in 1..Len(c) : c[i] = t[i]
  BY <1>3, Zenon
<1>5. Len(c) = Len(t)
  BY <1>3, Zenon
<1> HIDE DEF c
<1>6. c = t
  BY <1>3, <1>4, <1>5, SeqEqual, Zenon
<1> QED
  BY <1>6, Zenon DEF c

LEMMA Joined ==
    ASSUME NEW a \in Seq(Byte), NEW b \in Seq(Byte), NEW s, s = a \o b
    PROVE  /\ s \in Seq(Byte)
           /\ Len(s) = Len(a) + Len(b)
           /\ \A i \in 1..Len(a) + Len(b) : s[i] = IF i <= Len(a) THEN a[i] ELSE b[i - Len(a)]
BY ConcatProperties, Zenon

LEMMA Regrouped ==
    ASSUME NEW a \in Seq(Byte), NEW b \in Seq(Byte), NEW c \in Seq(Byte)
    PROVE  (a \o b) \o c = a \o (b \o c)
BY ConcatAssociative

LEMMA CutMiddle ==
    ASSUME NEW a \in Seq(Byte), NEW b \in Seq(Byte), NEW c \in Seq(Byte)
    PROVE  SubSeq((a \o b) \o c, Len(a) + 1, Len(a) + Len(b)) = b
<1>1. PICK ab : ab = a \o b
  BY Zenon
<1>2. PICK s : s = ab \o c
  BY Zenon
<1>3. /\ ab \in Seq(Byte)
      /\ Len(ab) = Len(a) + Len(b)
      /\ \A i \in 1..Len(a) + Len(b) : ab[i] = IF i <= Len(a) THEN a[i] ELSE b[i - Len(a)]
  BY <1>1, Joined, Zenon
<1>4. /\ s \in Seq(Byte)
      /\ Len(s) = Len(ab) + Len(c)
      /\ \A i \in 1..Len(ab) + Len(c) : s[i] = IF i <= Len(ab) THEN ab[i] ELSE c[i - Len(ab)]
  BY <1>2, <1>3, Joined, Zenon
<1>5. /\ Len(a) \in Nat /\ Len(b) \in Nat /\ Len(c) \in Nat
  BY LenProperties, Zenon
<1>6. ASSUME NEW i \in 1..Len(b)
      PROVE  s[Len(a) + i] = b[i]
  <2>1. /\ Len(a) + i \in 1..Len(ab) + Len(c) /\ Len(a) + i <= Len(ab)
        /\ Len(a) + i \in 1..Len(a) + Len(b)
        /\ ~(Len(a) + i <= Len(a)) /\ (Len(a) + i) - Len(a) = i
    BY <1>3, <1>5, SMT
  <2> QED
    BY <1>3, <1>4, <2>1, Zenon
<1>7. Len(a) + Len(b) <= Len(s)
  BY <1>3, <1>4, <1>5, SMT
<1>8. SubSeq(s, Len(a) + 1, Len(a) + Len(b)) = b
  BY <1>4, <1>5, <1>6, <1>7, CutOut, Zenon
<1> QED
  BY <1>1, <1>2, <1>8, Zenon

LEMMA CutTail ==
    ASSUME NEW a \in Seq(Byte), NEW b \in Seq(Byte)
    PROVE  SubSeq(a \o b, Len(a) + 1, Len(a \o b)) = b
<1>1. a \o b \in Seq(Byte) /\ Len(a \o b) = Len(a) + Len(b)
  BY ConcatProperties, Zenon
<1>2. <<>> \in Seq(Byte)
  BY EmptySeq, Zenon
<1>3. (a \o b) \o <<>> = a \o b
  BY <1>1, ConcatEmptySeq, Zenon
<1>4. SubSeq((a \o b) \o <<>>, Len(a) + 1, Len(a) + Len(b)) = b
  BY <1>2, CutMiddle, Zenon
<1> QED
  BY <1>1, <1>3, <1>4, Zenon

(* Any piece is a sequence of bytes.                                       *)
LEMMA PieceOfBytes ==
    ASSUME NEW s \in Seq(Byte), NEW m \in Nat \ {0}, NEW e \in Nat, e <= Len(s)
    PROVE  /\ SubSeq(s, m, e) \in Seq(Byte)
           /\ Len(SubSeq(s, m, e)) = IF m <= e THEN e - m + 1 ELSE 0
<1>1. Len(s) \in Nat
  BY LenProperties, Zenon
<1>2. \A i \in m..e : i \in 1..Len(s)
  BY <1>1, SMT
<1>3. \A i \in m..e : s[i] \in Byte
  BY <1>2, ElementOfSeq, Zenon
<1>4. m \in Int /\ e \in Int
  BY SMT
<1> QED
  BY <1>3, <1>4, SubSeqProperties

---------------------------------------------------------------------------
(* Strings, packets and the handshake.                                     *)

LEMMA LengthIsInt32 ==
    ASSUME NEW n \in Nat, NEW max \in Nat \cap Int32, n <= max
    PROVE  n \in Int32
BY SMT DEF Int32

(* What stands after its own length.                                       *)
LEMMA PrefixedIsRead ==
    ASSUME NEW body \in Seq(Byte), Len(body) \in Int32, NEW tail \in Seq(Byte),
           NEW e, e = EncodeVarint(Len(body)),
           NEW s, s = (e \o body) \o tail
    PROVE  /\ ReadVarint(s).is = "ok"
           /\ ReadVarint(s).value = Len(body)
           /\ ReadVarint(s).used = Len(e)
           /\ ~(Len(s) < Len(e) + Len(body))
           /\ SubSeq(s, Len(e) + 1, Len(e) + Len(body)) = body
           /\ e \o body \in Seq(Byte)
           /\ Len(e \o body) = Len(e) + Len(body)
<1>1. e \in Seq(Byte)
  BY EncodedBytes, Zenon
<1>2. /\ e \o body \in Seq(Byte)
      /\ Len(e \o body) = Len(e) + Len(body)
      /\ body \o tail \in Seq(Byte)
  BY <1>1, ConcatProperties, Zenon
<1>3. s = e \o (body \o tail)
  BY <1>1, Regrouped, Zenon
<1>4. ReadVarint(s) = [is |-> "ok", used |-> Len(e), value |-> Len(body)]
  BY <1>2, <1>3, VarintsRoundTrip, Zenon
<1>5. ReadVarint(s).is = "ok" /\ ReadVarint(s).value = Len(body) /\ ReadVarint(s).used = Len(e)
  BY <1>4, SMT
<1>6. Len(s) = Len(e \o body) + Len(tail)
  BY <1>2, ConcatProperties, Zenon
<1>7. ~(Len(s) < Len(e) + Len(body))
  <2>1. Len(e) \in Nat /\ Len(body) \in Nat /\ Len(tail) \in Nat
    BY <1>1, LenProperties, Zenon
  <2> QED
    BY <1>2, <1>6, <2>1, SMT
<1>8. SubSeq(s, Len(e) + 1, Len(e) + Len(body)) = body
  BY <1>1, CutMiddle, Zenon
<1> QED
  BY <1>2, <1>5, <1>7, <1>8, Zenon

(* A string, if it is not over the limit; what follows is left unread.     *)
LEMMA StringIsRead ==
    ASSUME NEW text \in Seq(Byte), Utf8(text), Len(text) <= MaxStringLen,
           NEW tail \in Seq(Byte)
    PROVE  /\ EncodeString(text) \in Seq(Byte)
           /\ ReadString(EncodeString(text) \o tail)
                = [is |-> "ok", text |-> text, used |-> Len(EncodeString(text))]
<1> DEFINE e == EncodeVarint(Len(text))
           s == (e \o text) \o tail
<1>3. Len(text) \in Int32 /\ Len(text) \in 0..MaxStringLen
  <2>1. Len(text) \in Nat
    BY LenProperties, Zenon
  <2>2. Len(text) \in Int32
    BY <2>1, LimitsAssumption, LengthIsInt32, Zenon
  <2> QED
    BY <2>1, <2>2, LimitsAssumption, SMT
<1>4. /\ ReadVarint(s).is = "ok"
      /\ ReadVarint(s).value = Len(text)
      /\ ReadVarint(s).used = Len(e)
      /\ ~(Len(s) < Len(e) + Len(text))
      /\ SubSeq(s, Len(e) + 1, Len(e) + Len(text)) = text
      /\ e \o text \in Seq(Byte)
      /\ Len(e \o text) = Len(e) + Len(text)
  BY <1>3, PrefixedIsRead, Zenon
<1> HIDE DEF e, s
<1>5. ReadString(s) = [is |-> "ok", text |-> text, used |-> Len(e) + Len(text)]
  BY <1>3, <1>4, Zenon DEF ReadString
<1> QED
  BY <1>4, <1>5, Zenon DEF EncodeString, e, s

(* A body after its length is read whole, and what follows is left.        *)
LEMMA FrameIsRead ==
    ASSUME NEW body \in Seq(Byte), Len(body) <= MaxPacketLen, NEW tail \in Seq(Byte)
    PROVE  /\ EncodeVarint(Len(body)) \o body \in Seq(Byte)
           /\ ReadPacket((EncodeVarint(Len(body)) \o body) \o tail)
                = PacketOf(body, Len(EncodeVarint(Len(body)) \o body))
<1> DEFINE e == EncodeVarint(Len(body))
           s == (e \o body) \o tail
<1>2. Len(body) \in Int32 /\ Len(body) \in 0..MaxPacketLen
  <2>1. Len(body) \in Nat
    BY LenProperties, Zenon
  <2>2. Len(body) \in Int32
    BY <2>1, LimitsAssumption, LengthIsInt32, Zenon
  <2> QED
    BY <2>1, <2>2, LimitsAssumption, SMT
<1>3. /\ ReadVarint(s).is = "ok"
      /\ ReadVarint(s).value = Len(body)
      /\ ReadVarint(s).used = Len(e)
      /\ ~(Len(s) < Len(e) + Len(body))
      /\ SubSeq(s, Len(e) + 1, Len(e) + Len(body)) = body
      /\ e \o body \in Seq(Byte)
      /\ Len(e \o body) = Len(e) + Len(body)
  BY <1>2, PrefixedIsRead, Zenon
<1> HIDE DEF e, s
<1>4. ReadPacket(s) = PacketOf(body, Len(e) + Len(body))
  BY <1>2, <1>3, Zenon DEF ReadPacket
<1> QED
  BY <1>3, <1>4, Zenon DEF e, s

(* A packet, if it is not over the limit: read_packet finds the id and the *)
(* data encode_packet was given, and keeps its bytes as they were, however *)
(* many follow (packet.rs:17-51).                                          *)
THEOREM PacketsRoundTrip ==
    ASSUME NEW id \in Int32, NEW data \in Seq(Byte), NEW tail \in Seq(Byte),
           Len(EncodeVarint(id)) + Len(data) <= MaxPacketLen
    PROVE  ReadPacket(EncodePacket(id, data) \o tail)
             = [is |-> "ok", id |-> id, data |-> data,
                used |-> Len(EncodePacket(id, data)), raw |-> EncodePacket(id, data)]
<1>1. PICK i : i = EncodeVarint(id)
  BY Zenon
<1>2. PICK body : body = i \o data
  BY Zenon
<1>3. PICK e : e = EncodeVarint(Len(body))
  BY Zenon
<1>4. i \in Seq(Byte)
  BY <1>1, EncodedBytes, Zenon
<1>5. body \in Seq(Byte) /\ Len(body) = Len(i) + Len(data)
  BY <1>2, <1>4, ConcatProperties, Zenon
<1>6. e \in Seq(Byte)
  <2>1. Len(body) \in Nat
    BY <1>5, LenProperties, Zenon
  <2>2. Len(body) \in Int32
    BY <1>1, <1>5, <2>1, LimitsAssumption, LengthIsInt32, Zenon
  <2> QED
    BY <1>3, <2>2, EncodedBytes, Zenon
<1>7. EncodePacket(id, data) = e \o body
  <2>1. EncodePacket(id, data) = (e \o i) \o data
    BY <1>1, <1>3, <1>5, Zenon DEF EncodePacket
  <2>2. (e \o i) \o data = e \o (i \o data)
    BY <1>4, <1>6, Regrouped, Zenon
  <2> QED
    BY <1>2, <2>1, <2>2, Zenon
<1>8. ReadPacket((e \o body) \o tail) = PacketOf(body, Len(e \o body))
  BY <1>1, <1>3, <1>5, FrameIsRead, Zenon
<1>9. ReadVarint(body) = [is |-> "ok", used |-> Len(i), value |-> id]
  BY <1>1, <1>2, VarintsRoundTrip, Zenon
<1>10. /\ ReadVarint(body).is = "ok" /\ ReadVarint(body).value = id
       /\ ReadVarint(body).used = Len(i)
  BY <1>9, SMT
<1>11. Rest(ReadVarint(body), body) = data
  BY <1>2, <1>4, <1>10, CutTail, Zenon DEF Rest
<1>12. PacketOf(body, Len(e \o body)) = [is |-> "ok", id |-> id, data |-> data,
                used |-> Len(e \o body), raw |-> e \o body]
  BY <1>3, <1>10, <1>11, Zenon DEF PacketOf
<1> QED
  BY <1>7, <1>8, <1>12, Zenon

(* A handshake gives its version, its address up to a NUL and its next     *)
(* state, whatever its port (handshake.rs:11-32).                          *)
THEOREM HandshakesRoundTrip ==
    ASSUME NEW version \in Int32, NEW address \in Seq(Byte), Utf8(address),
           Len(address) <= MaxStringLen, NEW p \in Byte, NEW q \in Byte,
           NEW next \in Int32
    PROVE  ParseHandshake(EncodeVarint(version) \o EncodeString(address) \o <<p, q>>
                            \o EncodeVarint(next))
             = [is |-> "ok", protocol_version |-> version,
                server_address |-> BeforeNul(address), next_state |-> next]
<1>1. PICK v, a, port, n : /\ v = EncodeVarint(version) /\ a = EncodeString(address)
                           /\ port = <<p, q>> /\ n = EncodeVarint(next)
  BY Zenon
<1>2. PICK after : after = port \o n
  BY Zenon
<1>3. PICK rest : rest = a \o after
  BY Zenon
<1>4. PICK data : data = ((v \o a) \o port) \o n
  BY Zenon
<1>5. <<>> \in Seq(Byte)
  BY EmptySeq, Zenon
<1>6. /\ v \in Seq(Byte) /\ a \in Seq(Byte) /\ n \in Seq(Byte)
  BY <1>1, <1>5, EncodedBytes, StringIsRead, Zenon
<1>7. port \in Seq(Byte) /\ Len(port) = 2
  BY <1>1, SMT
<1>8. after \in Seq(Byte) /\ Len(after) = 2 + Len(n) /\ rest \in Seq(Byte)
  <2>1. after \in Seq(Byte) /\ Len(after) = Len(port) + Len(n)
    BY <1>2, <1>6, <1>7, ConcatProperties, Zenon
  <2>2. rest \in Seq(Byte)
    BY <1>3, <1>6, <2>1, ConcatProperties, Zenon
  <2> QED
    BY <1>7, <2>1, <2>2, Zenon
<1>9. data = v \o rest
  <2>1. (v \o a) \in Seq(Byte)
    BY <1>6, ConcatProperties, Zenon
  <2>2. ((v \o a) \o port) \o n = (v \o a) \o (port \o n)
    BY <1>6, <1>7, <2>1, Regrouped, Zenon
  <2>3. (v \o a) \o after = v \o (a \o after)
    BY <1>6, <1>8, Regrouped, Zenon
  <2> QED
    BY <1>2, <1>3, <1>4, <2>2, <2>3, Zenon
<1>10. ReadVarint(data) = [is |-> "ok", used |-> Len(v), value |-> version]
  BY <1>1, <1>8, <1>9, VarintsRoundTrip, Zenon
<1>11. /\ ReadVarint(data).is = "ok" /\ ReadVarint(data).value = version
       /\ ReadVarint(data).used = Len(v)
  BY <1>10, SMT
<1>12. Rest(ReadVarint(data), data) = rest
  BY <1>6, <1>8, <1>9, <1>11, CutTail, Zenon DEF Rest
<1>13. ReadString(rest) = [is |-> "ok", text |-> address, used |-> Len(a)]
  BY <1>1, <1>3, <1>8, StringIsRead, Zenon
<1>14. /\ ReadString(rest).is = "ok" /\ ReadString(rest).text = address
       /\ ReadString(rest).used = Len(a)
  BY <1>13, SMT
<1>15. Rest(ReadString(rest), rest) = after
  BY <1>3, <1>6, <1>8, <1>14, CutTail, Zenon DEF Rest
<1>16. SubSeq(after, 3, Len(after)) = n
  <2>1. 3 = 2 + 1
    BY SMT
  <2> QED
    BY <1>2, <1>6, <1>7, <2>1, CutTail, Zenon
<1>17. ReadVarint(n) = [is |-> "ok", used |-> Len(n), value |-> next]
  <2>1. n \o <<>> = n
    BY <1>6, ConcatEmptySeq, Zenon
  <2> QED
    BY <1>1, <1>5, <2>1, VarintsRoundTrip, Zenon
<1>18. ReadVarint(n).is = "ok" /\ ReadVarint(n).value = next
  BY <1>17, SMT
<1>19. ~(Len(after) < 2)
  BY <1>6, <1>8, LenProperties, SMT
<1>20. "ok" = "ok" /\ ~("ok" # "ok")
  BY Zenon
<1>21. ParseHandshake(data) = [is |-> "ok", protocol_version |-> version,
                server_address |-> BeforeNul(address), next_state |-> next]
  BY <1>11, <1>12, <1>14, <1>15, <1>16, <1>18, <1>19, Zenon DEF ParseHandshake
<1> QED
  BY <1>1, <1>4, <1>21, Zenon

LEMMA Span ==
    ASSUME NEW u \in 1..5, NEW v \in Nat, NEW n \in Nat, ~(n < u + v)
    PROVE  /\ u + 1 \in Nat \ {0} /\ u + v \in Nat /\ u + v <= n
           /\ (u + 1 <= u + v => (u + v) - (u + 1) + 1 = v)
           /\ (~(u + 1 <= u + v) => 0 = v)
BY SMT

(* The packet's raw form is its body after the length in its shortest      *)
(* form, and the packet is read in it again (packet.rs:29-39).             *)
THEOREM RawIsReadAgain ==
    ASSUME NEW s \in Seq(Byte), ReadPacket(s).is = "ok"
    PROVE  LET packet == ReadPacket(s)
               length == ReadVarint(s)
           IN  /\ packet.raw = EncodeVarint(length.value)
                                 \o SubSeq(s, length.used + 1, packet.used)
               /\ ReadPacket(packet.raw) = [packet EXCEPT !.used = Len(packet.raw)]
<1> DEFINE packet == ReadPacket(s)
           length == ReadVarint(s)
           end == length.used + length.value
           body == SubSeq(s, length.used + 1, end)
           raw == EncodeVarint(Len(body)) \o body
<1>1. /\ length.is = "ok" /\ length.value \in 0..MaxPacketLen /\ ~(Len(s) < end)
      /\ packet = PacketOf(body, end)
  <2>1. Bad.is # "ok" /\ More.is # "ok"
    BY SMT DEF Bad, More
  <2>2. length.is = "ok"
    <3>1. length.is # "ok" => packet = length
      BY Zenon DEF ReadPacket
    <3> QED
      BY <3>1, Zenon
  <2>3. length.value \in 0..MaxPacketLen
    <3>1. length.value \notin 0..MaxPacketLen => packet = Bad
      BY <2>2, Zenon DEF ReadPacket
    <3> QED
      BY <2>1, <3>1, Zenon
  <2>4. packet = IF Len(s) < end THEN More ELSE PacketOf(body, end)
    BY <2>2, <2>3, Zenon DEF ReadPacket
  <2> QED
    BY <2>1, <2>2, <2>3, <2>4, Zenon
<1>2. body \in Seq(Byte) /\ Len(body) = length.value
  <2>1. length.used \in 1..5
    BY <1>1, ReadVarintResult, Zenon
  <2>2. Len(s) \in Nat
    BY LenProperties, Zenon
  <2>3. /\ length.used + 1 \in Nat \ {0} /\ end \in Nat /\ end <= Len(s)
        /\ (length.used + 1 <= end => end - (length.used + 1) + 1 = length.value)
        /\ (~(length.used + 1 <= end) => 0 = length.value)
    <3>1. length.value \in Nat
      BY <1>1, LimitsAssumption, SMT
    <3> QED
      BY <1>1, <2>1, <2>2, <3>1, Span, Zenon
  <2>4. /\ body \in Seq(Byte)
        /\ Len(body) = IF length.used + 1 <= end THEN end - (length.used + 1) + 1 ELSE 0
    BY <2>3, PieceOfBytes, Zenon
  <2> HIDE DEF body, end, length
  <2> QED
    BY <2>3, <2>4, Zenon
<1> HIDE DEF body
<1>3. ReadVarint(body).is = "ok"
  <2>1. ReadVarint(body).is # "ok" => packet = Bad
    BY <1>1, Zenon DEF PacketOf
  <2>2. Bad.is # "ok"
    BY SMT DEF Bad
  <2> QED
    BY <2>1, <2>2, Zenon
<1> DEFINE framed(used) == [is |-> "ok", id |-> ReadVarint(body).value,
                            data |-> Rest(ReadVarint(body), body), used |-> used, raw |-> raw]
<1>4. ASSUME NEW used PROVE PacketOf(body, used) = framed(used)
  BY <1>3, Zenon DEF PacketOf
<1>5. raw \in Seq(Byte) /\ ReadPacket(raw) = PacketOf(body, Len(raw))
  <2>1. Len(body) <= MaxPacketLen
    BY <1>1, <1>2, LimitsAssumption, SMT
  <2>2. <<>> \in Seq(Byte)
    BY EmptySeq, Zenon
  <2>3. raw \in Seq(Byte) /\ ReadPacket(raw \o <<>>) = PacketOf(body, Len(raw))
    BY <1>2, <2>1, <2>2, FrameIsRead, Zenon
  <2>4. raw \o <<>> = raw
    BY <2>3, ConcatEmptySeq, Zenon
  <2> QED
    BY <2>3, <2>4, Zenon
<1>6. packet = framed(end) /\ ReadPacket(raw) = framed(Len(raw))
  BY <1>1, <1>4, <1>5, Zenon
<1> HIDE DEF packet, raw, end
<1>7. packet.raw = raw /\ packet.used = end /\ [packet EXCEPT !.used = Len(raw)] = framed(Len(raw))
  BY <1>6, SMT
<1>8. raw = EncodeVarint(length.value) \o SubSeq(s, length.used + 1, packet.used)
  BY <1>2, <1>7, Zenon DEF raw, body
<1>9. ReadPacket(packet.raw) = [packet EXCEPT !.used = Len(packet.raw)]
  BY <1>6, <1>7, Zenon
<1> QED
  BY <1>7, <1>8, <1>9, Zenon DEF packet

(* Of any whole number, the bytes written are bytes.                       *)
LEMMA WrittenIsBytes ==
    ASSUME NEW v \in Int
    PROVE  EncodeVarint(v) \in Seq(Byte)
<1> DEFINE n == VarintLen(v)
           e == [i \in 1..n |-> Digit(v, i) + (IF i < n THEN 128 ELSE 0)]
<1>1. n \in 1..5
  BY SMT DEF VarintLen
<1>2. \A i \in 1..5 : Digit(v, i) \in 0..127
  BY SMT DEF Digit, Weight
<1>3. EncodeVarint(v) = e
  BY Zenon DEF EncodeVarint
<1> HIDE DEF n
<1>4. \A i \in 1..n : Digit(v, i) + (IF i < n THEN 128 ELSE 0) \in Byte
  BY <1>1, <1>2, SMT DEF Byte
<1>5. e \in [1..n -> Byte]
  BY <1>4, Zenon
<1>6. e \in Seq(Byte)
  BY <1>1, <1>5, SMT
<1> QED
  BY <1>3, <1>6, Zenon

(* A string is as long as its length and its bytes.                        *)
LEMMA StringBytes ==
    ASSUME NEW text \in Seq(Byte)
    PROVE  /\ EncodeVarint(Len(text)) \in Seq(Byte)
           /\ EncodeString(text) = EncodeVarint(Len(text)) \o text
           /\ EncodeString(text) \in Seq(Byte)
           /\ Len(EncodeString(text)) \in Nat
           /\ Len(EncodeString(text)) = Len(EncodeVarint(Len(text))) + Len(text)
           /\ Len(text) <= Len(EncodeString(text))
<1> DEFINE e == EncodeVarint(Len(text))
<1>1. Len(text) \in Nat /\ Len(text) \in Int
  BY LenProperties, SMT
<1>2. e \in Seq(Byte)
  BY <1>1, WrittenIsBytes, Zenon
<1>3. EncodeString(text) = e \o text
  BY Zenon DEF EncodeString
<1>4. e \o text \in Seq(Byte) /\ Len(e \o text) = Len(e) + Len(text)
  BY <1>2, ConcatProperties, Zenon
<1>5. Len(e) \in Nat /\ Len(e \o text) \in Nat
  BY <1>2, <1>4, LenProperties, Zenon
<1>6. Len(text) <= Len(e) + Len(text)
  BY <1>1, <1>5, SMT
<1> QED
  BY <1>2, <1>3, <1>4, <1>5, <1>6, Zenon

LEMMA PacketBytes ==
    ASSUME NEW id \in Int32, NEW data \in Seq(Byte)
    PROVE  /\ EncodePacket(id, data) \in Seq(Byte)
           /\ EncodePacket(id, data) \o <<>> = EncodePacket(id, data)
           /\ <<>> \in Seq(Byte)
<1> DEFINE i == EncodeVarint(id)
           n == Len(i) + Len(data)
           e == EncodeVarint(n)
<1>1. i \in Seq(Byte)
  BY EncodedBytes, Zenon
<1>2. n \in Int
  <2>1. Len(i) \in Nat /\ Len(data) \in Nat
    BY <1>1, LenProperties, Zenon
  <2> HIDE DEF i
  <2> QED
    BY <2>1, SMT
<1>3. e \in Seq(Byte)
  BY <1>2, WrittenIsBytes, Zenon
<1>4. e \o i \in Seq(Byte)
  BY <1>1, <1>3, ConcatProperties, Zenon
<1>5. (e \o i) \o data \in Seq(Byte)
  BY <1>4, ConcatProperties, Zenon
<1>6. EncodePacket(id, data) = (e \o i) \o data
  BY Zenon DEF EncodePacket
<1> QED
  BY <1>5, <1>6, ConcatEmptySeq, EmptySeq, Zenon

(* What a probe makes of a status reply of redoxide's own.                 *)
LEMMA StatusIsRead ==
    ASSUME NEW json \in Seq(Byte), Len(EncodeString(json)) < MaxPacketLen
    PROVE  /\ ReadStatusReply(EncodeStatusResponse(json)) = [is |-> "ok", json |-> json]
           /\ ReadPacket(EncodeLoginDisconnect(json)).data = EncodeString(json)
<1> DEFINE e == EncodeVarint(Len(json))
           data == EncodeString(json)
           s == EncodePacket(0, data)
<1>1. /\ e \in Seq(Byte) /\ data = e \o json /\ data \in Seq(Byte)
      /\ Len(data) \in Nat /\ Len(data) = Len(e) + Len(json) /\ Len(json) <= Len(data)
  BY StringBytes, Zenon
<1>2. Len(json) \in Int32 /\ Len(json) \in Nat
  <2>1. Len(json) \in Nat
    BY LenProperties, Zenon
  <2>2. Len(json) <= MaxPacketLen
    BY <1>1, <2>1, LimitsAssumption, SMT
  <2> QED
    BY <2>1, <2>2, LimitsAssumption, LengthIsInt32, Zenon
<1>3. 0 \in Int32 /\ Len(EncodeVarint(0)) = 1
  <2>1. 0 \in Int32 /\ VarintLen(0) = 1
    BY SMT DEF Int32, VarintLen
  <2> QED
    BY <2>1, EncodedBytes, Zenon
<1>4. Len(EncodeVarint(0)) + Len(data) <= MaxPacketLen
  <2>1. MaxPacketLen \in Nat
    BY LimitsAssumption, SMT
  <2> HIDE DEF data
  <2>2. 1 + Len(data) <= MaxPacketLen
    <3>1. Len(data) < MaxPacketLen
      BY Zenon DEF data
    <3> QED
      BY <1>1, <2>1, <3>1, SMT
  <2> QED
    BY <1>3, <2>2, Zenon
<1>5. s \in Seq(Byte) /\ s \o <<>> = s /\ <<>> \in Seq(Byte)
  BY <1>1, <1>3, <1>4, PacketBytes, Zenon
<1>6. ReadPacket(s \o <<>>) = [is |-> "ok", id |-> 0, data |-> data, used |-> Len(s), raw |-> s]
  BY <1>1, <1>3, <1>4, <1>5, PacketsRoundTrip, Zenon
<1>7. ReadPacket(s).is = "ok" /\ ReadPacket(s).id = 0 /\ ReadPacket(s).data = data
  BY <1>5, <1>6, SMT
<1>8. ReadVarint(data) = [is |-> "ok", used |-> Len(e), value |-> Len(json)]
  BY <1>1, <1>2, VarintsRoundTrip, Zenon
<1>9. /\ ReadVarint(data).is = "ok" /\ ReadVarint(data).used = Len(e)
      /\ ReadVarint(data).value = Len(json)
  BY <1>8, SMT
<1>10. SubSeq(data, Len(e) + 1, Len(e) + Len(json)) = json
  BY <1>1, CutTail, Zenon
<1>11. ~(Len(json) < 0) /\ ~(Len(e) + Len(json) > Len(data))
  BY <1>1, <1>2, SMT
<1> HIDE DEF s, data, e
<1>12. ReadStatusReply(s) = [is |-> "ok", json |-> json]
  BY <1>7, <1>9, <1>10, <1>11, Zenon DEF ReadStatusReply
<1> QED
  BY <1>7, <1>12, Zenon DEF EncodeStatusResponse, EncodeLoginDisconnect, s, data

(* A keepalive: the id and the query the other side reads.                 *)
LEMMA QueryIsRead ==
    ASSUME NEW id \in Int32, NEW channel \in Seq(Byte),
           1 + Len(EncodeVarint(id)) + Len(EncodeString(channel)) <= MaxPacketLen
    PROVE  LET query == ReadPacket(EncodeLoginPluginRequest(id, channel))
               message == ReadVarint(query.data)
           IN  /\ query.id = 4
               /\ message.value = id
               /\ Rest(message, query.data) = EncodeString(channel)
<1> DEFINE e == EncodeVarint(id)
           text == EncodeString(channel)
           data == e \o text
           s == EncodePacket(4, data)
<1>1. e \in Seq(Byte) /\ text \in Seq(Byte)
  BY EncodedBytes, StringBytes, Zenon
<1>2. data \in Seq(Byte) /\ Len(data) = Len(e) + Len(text)
  BY <1>1, ConcatProperties, Zenon
<1>3. 4 \in Int32 /\ Len(EncodeVarint(4)) = 1
  <2>1. 4 \in Int32 /\ VarintLen(4) = 1
    BY SMT DEF Int32, VarintLen
  <2> QED
    BY <2>1, EncodedBytes, Zenon
<1>4. Len(EncodeVarint(4)) + Len(data) <= MaxPacketLen
  <2>1. Len(e) \in Nat /\ Len(text) \in Nat
    BY <1>1, LenProperties, Zenon
  <2> HIDE DEF data, e, text
  <2>2. 1 + (Len(e) + Len(text)) = 1 + Len(e) + Len(text)
    BY <2>1, SMT
  <2> QED
    BY <1>2, <1>3, <2>2, Zenon DEF e, text
<1>5. s \in Seq(Byte) /\ s \o <<>> = s /\ <<>> \in Seq(Byte)
  BY <1>2, <1>3, <1>4, PacketBytes, Zenon
<1>6. ReadPacket(s \o <<>>) = [is |-> "ok", id |-> 4, data |-> data, used |-> Len(s), raw |-> s]
  BY <1>2, <1>3, <1>4, <1>5, PacketsRoundTrip, Zenon
<1>7. ReadPacket(s).id = 4 /\ ReadPacket(s).data = data
  BY <1>5, <1>6, SMT
<1>8. ReadVarint(data) = [is |-> "ok", used |-> Len(e), value |-> id]
  BY <1>1, VarintsRoundTrip, Zenon
<1>9. ReadVarint(data).used = Len(e) /\ ReadVarint(data).value = id
  BY <1>8, SMT
<1>10. Rest(ReadVarint(data), data) = text
  BY <1>1, <1>9, CutTail, Zenon DEF Rest
<1>11. EncodeLoginPluginRequest(id, channel) = s
  BY Zenon DEF EncodeLoginPluginRequest
<1> QED
  BY <1>7, <1>9, <1>10, <1>11, Zenon

LEMMA ByteRange ==
    ASSUME NEW x \in Int, 0 <= x, x <= 255
    PROVE  x \in Byte
BY SMT DEF Byte

Port == 0..65535

(* Where a handshake such as a probe's leads.                              *)
LEMMA ProbeIsRouted ==
    ASSUME NEW text \in Seq(Byte), Utf8(text), Len(text) <= MaxStringLen,
           NEW port \in Port, NEW server_address
    PROVE  Route(ProbeHandshake(text, port), server_address)
             = IF Lower(server_address) = Lower(BeforeNul(text)) THEN "ping" ELSE "close"
<1> DEFINE data == ProbeHandshake(text, port)
<1>1. 0 \in Int32 /\ 1 \in Int32
  BY SMT DEF Int32
<1>2. port \div 256 \in Byte /\ port % 256 \in Byte
  <2>1. port \in Int /\ 0 <= port /\ port <= 65535
    BY SMT DEF Port
  <2>2. port \div 256 \in Int /\ 0 <= port \div 256 /\ port \div 256 <= 255
    BY <2>1, SMT
  <2>3. port % 256 \in Int /\ 0 <= port % 256 /\ port % 256 <= 255
    BY <2>1, SMT
  <2> QED
    BY <2>2, <2>3, ByteRange, Zenon
<1>3. ParseHandshake(data) = [is |-> "ok", protocol_version |-> 0,
                              server_address |-> BeforeNul(text), next_state |-> 1]
  <2>1. PICK p, q : p = port \div 256 /\ q = port % 256
    BY Zenon
  <2>2. data = EncodeVarint(0) \o EncodeString(text) \o <<p, q>> \o EncodeVarint(1)
    BY <2>1, Zenon DEF ProbeHandshake
  <2>3. p \in Byte /\ q \in Byte
    BY <1>2, <2>1, Zenon
  <2> HIDE DEF data
  <2>4. ParseHandshake(EncodeVarint(0) \o EncodeString(text) \o <<p, q>> \o EncodeVarint(1))
          = [is |-> "ok", protocol_version |-> 0,
             server_address |-> BeforeNul(text), next_state |-> 1]
    BY <1>1, <2>3, HandshakesRoundTrip, Zenon
  <2> QED
    BY <2>2, <2>4, Zenon
<1>4. /\ ParseHandshake(data).is = "ok" /\ ParseHandshake(data).next_state = 1
      /\ ParseHandshake(data).server_address = BeforeNul(text)
  BY <1>3, SMT
<1> HIDE DEF data
<1>5. Route(data, server_address)
        = IF Lower(server_address) = Lower(BeforeNul(text)) THEN "ping" ELSE "close"
  BY <1>4, Zenon DEF Route
<1> QED
  BY <1>5, Zenon DEF data
=============================================================================
