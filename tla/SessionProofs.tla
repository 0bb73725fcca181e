---------------------------- MODULE SessionProofs ----------------------------
(***************************************************************************)
(* Messages survive being written and read, for every number of values a   *)
(* byte may have; and a call has one peer, with the configuration it asked *)
(* for, whatever the network does.                                         *)
(***************************************************************************)
EXTENDS Session, WellFoundedInduction, SequenceTheorems, TLAPS

-----------------------------------------------------------------------------
(* Induction over the natural numbers, for a set instead of a predicate:   *)
(* every non-empty set of natural numbers has a least element.             *)
LEMMA SetInduction ==
  ASSUME NEW T, 0 \in T, \A n \in Nat : n \in T => n + 1 \in T
  PROVE  Nat \subseteq T
  <1> DEFINE R == {ss \in Nat \X Nat : ss[1] < ss[2]}
             bad == Nat \ T
  <1> SUFFICES ASSUME bad # {} PROVE FALSE
    OBVIOUS
  <1>1. IsWellFoundedOn(R, Nat)
    BY NatLessThanWellFounded DEF OpToRel
  <1>2. bad \subseteq Nat
    OBVIOUS
  <1> HIDE DEF R, bad
  <1>3. PICK x \in bad : \A y \in bad : ~(<<y, x>> \in R)
    BY <1>1, <1>2, WFMin
  <1> USE DEF R, bad
  <1>4. x \in Nat /\ x # 0
    BY <1>3
  <1>5. x - 1 \in Nat /\ <<x - 1, x>> \in R
    BY <1>4
  <1>6. x - 1 \in T
    BY <1>3, <1>5
  <1>7. x - 1 + 1 = x
    BY <1>4
  <1> QED
    BY <1>3, <1>5, <1>6, <1>7

(* A function on 0..n given by its first value and a step exists. *)
IsFold(f, n, v0, step) == /\ f[0] = v0
                          /\ \A i \in 1..n : f[i] = step[<<f[i - 1], i>>]

LEMMA FoldExists ==
  ASSUME NEW n \in Nat, NEW V, NEW v0 \in V, NEW step \in [V \X Nat -> V]
  PROVE  \E f \in [0..n -> V] : IsFold(f, n, v0, step)
  <1> DEFINE T == {m \in Nat : \E f \in [0..m -> V] : IsFold(f, m, v0, step)}
  <1>1. 0 \in T
    <2> DEFINE f == [i \in 0..0 |-> v0]
    <2>1. f \in [0..0 -> V] /\ IsFold(f, 0, v0, step)
      BY DEF IsFold
    <2> QED
      BY <2>1
  <1>2. ASSUME NEW m \in Nat, m \in T PROVE m + 1 \in T
    <2>1. PICK f \in [0..m -> V] : IsFold(f, m, v0, step)
      BY <1>2
    <2> DEFINE g == [i \in 0..(m + 1) |-> IF i = m + 1
                                          THEN step[<<f[m], m + 1>>] ELSE f[i]]
    <2>2. g \in [0..(m + 1) -> V]
      BY <2>1
    <2>3. g[0] = v0
      BY <2>1 DEF IsFold
    <2>4. ASSUME NEW i \in 1..(m + 1) PROVE g[i] = step[<<g[i - 1], i>>]
      <3>1. CASE i = m + 1
        BY SMTT(30), <3>1
      <3>2. CASE i # m + 1
        <4>1. i \in 1..m /\ i - 1 \in 0..m /\ i - 1 # m + 1
          BY <3>2
        <4> QED
          BY <2>1, <4>1 DEF IsFold
      <3> QED
        BY <3>1, <3>2
    <2> HIDE DEF g
    <2>5. IsFold(g, m + 1, v0, step)
      BY <2>3, <2>4 DEF IsFold
    <2>6. m + 1 \in Nat
      OBVIOUS
    <2> QED
      BY <2>2, <2>5, <2>6
  <1> HIDE DEF T
  <1>3. n \in T
    BY <1>1, <1>2, SetInduction
  <1> QED
    BY <1>3 DEF T

-----------------------------------------------------------------------------
(* Powers of BYTE, and division by them. *)
LEMMA ByteFacts == BYTE \in Nat /\ BYTE > 3 /\ BYTE \in Nat \ {0}
  BY ByteAssumption

LEMMA PowerFacts ==
  /\ Power[0] = 1
  /\ \A w \in 1..8 : Power[w] = Power[w - 1] * BYTE
  /\ \A w \in 0..8 : Power[w] \in Nat \ {0}
  <1> DEFINE step == [vi \in Nat \X Nat |-> vi[1] * BYTE]
  <1>1. step \in [Nat \X Nat -> Nat]
    BY ByteFacts
  <1> HIDE DEF step
  <1>2. PICK f \in [0..8 -> Nat] : IsFold(f, 8, 1, step)
    <2>1. 8 \in Nat /\ 1 \in Nat
      OBVIOUS
    <2> QED
      BY Zenon, <1>1, <2>1, FoldExists
  <1>3. \A i \in 1..8 : f[i] = f[i - 1] * BYTE
    BY <1>2 DEF step, IsFold
  <1>4. f = [w \in 0..8 |-> IF w = 0 THEN 1 ELSE f[w - 1] * BYTE]
    BY <1>2, <1>3 DEF IsFold
  <1>5. Power = [w \in 0..8 |-> IF w = 0 THEN 1 ELSE Power[w - 1] * BYTE]
    BY <1>4 DEF Power, uint64
  <1> HIDE DEF Power
  <1>6. /\ Power[0] = 1
        /\ \A w \in 1..8 : Power[w] = Power[w - 1] * BYTE
    BY <1>5
  <1> DEFINE T == {w \in Nat : w <= 8 => Power[w] \in Nat \ {0}}
  <1>7. 0 \in T
    BY <1>6
  <1>8. ASSUME NEW w \in Nat, w \in T PROVE w + 1 \in T
    <2> SUFFICES ASSUME w + 1 <= 8 PROVE Power[w + 1] \in Nat \ {0}
      OBVIOUS
    <2>1. Power[w] \in Nat \ {0} /\ Power[w + 1] = Power[w] * BYTE
      BY <1>6, <1>8
    <2> QED
      BY <2>1, ByteFacts
  <1> HIDE DEF T
  <1>9. Nat \subseteq T
    BY <1>7, <1>8, SetInduction
  <1> QED
    BY <1>6, <1>9 DEF T

(* The quotient and the remainder. *)
LEMMA DivMod ==
  ASSUME NEW n \in Nat, NEW m \in Nat \ {0}
  PROVE  /\ n \div m \in Nat /\ n % m \in 0..(m - 1)
         /\ n = (n \div m) * m + (n % m)
  <1>1. n \div m \in Int /\ n % m \in 0..(m - 1)
    OBVIOUS
  <1>2. n = m * (n \div m) + (n % m)
    OBVIOUS
  <1>3. n \div m >= 0
    BY <1>1, <1>2, SMTT(30)
  <1> QED
    BY <1>1, <1>2, <1>3

LEMMA DivUnique ==
  ASSUME NEW n \in Nat, NEW m \in Nat \ {0}, NEW q \in Nat, NEW r \in 0..(m - 1),
         n = q * m + r
  PROVE  n \div m = q
  <1> DEFINE p == n \div m
             s == n % m
  <1>1. p \in Nat /\ s \in 0..(m - 1) /\ n = p * m + s
    BY DivMod
  <1> HIDE DEF p, s
  <1>2. CASE p > q
    <2>1. PICK c \in Nat : p = q + 1 + c
      BY <1>1, <1>2, p - q - 1 \in Nat
    <2>2. p * m = q * m + m + c * m /\ c * m >= 0
      BY <2>1
    <2> QED
      BY <1>1, <2>2
  <1>3. CASE q > p
    <2>1. PICK c \in Nat : q = p + 1 + c
      BY <1>1, <1>3, q - p - 1 \in Nat
    <2>2. q * m = p * m + m + c * m /\ c * m >= 0
      BY <1>1, <2>1
    <2> QED
      BY <1>1, <2>2
  <1> QED
    BY <1>1, <1>2, <1>3 DEF p

(* Dividing twice is dividing by the product. *)
LEMMA DivDiv ==
  ASSUME NEW n \in Nat, NEW p \in Nat \ {0}, NEW b \in Nat \ {0}
  PROVE  n \div (p * b) = (n \div p) \div b
  <1> DEFINE q == n \div p
             r == n % p
             d == q \div b
             e == q % b
  <1>1. q \in Nat /\ r \in 0..(p - 1) /\ n = q * p + r
    BY DivMod
  <1>2. d \in Nat /\ e \in 0..(b - 1) /\ q = d * b + e
    BY <1>1, DivMod
  <1> HIDE DEF q, r, d, e
  <1>3. n = d * (p * b) + (e * p + r)
    <2>1. q * p = (d * b) * p + e * p
      BY <1>2
    <2>2. (d * b) * p = d * (p * b)
      BY <1>2
    <2> QED
      BY <1>1, <1>2, <2>1, <2>2
  <1>4. e * p + r \in 0..(p * b - 1)
    <2>1. PICK c \in Nat : b = e + 1 + c
      BY <1>2, b - e - 1 \in Nat
    <2>2. p * b = e * p + p + c * p /\ c * p >= 0 /\ e * p >= 0
      BY <1>2, <2>1
    <2> QED
      BY <1>1, <1>2, <2>2
  <1>5. p * b \in Nat \ {0}
    OBVIOUS
  <1>6. n \div (p * b) = d
    BY <1>2, <1>3, <1>4, <1>5, DivUnique
  <1> QED
    BY <1>6 DEF d, q

-----------------------------------------------------------------------------
(* put_number and ntoh. *)
LEMMA PutFacts ==
  ASSUME NEW w \in 0..8, NEW n \in Nat
  PROVE  /\ put_number(n, w) \in Seq(Byte)
         /\ Len(put_number(n, w)) = w
         /\ \A i \in 1..w : put_number(n, w)[i] = (n \div Power[w - i]) % BYTE
  <1>1. ASSUME NEW i \in 1..w PROVE (n \div Power[w - i]) % BYTE \in Byte
    <2>1. Power[w - i] \in Nat \ {0}
      BY PowerFacts
    <2>2. n \div Power[w - i] \in Nat
      BY <2>1, DivMod
    <2> DEFINE q == n \div Power[w - i]
    <2> HIDE DEF q
    <2>3. q \in Nat
      BY <2>2 DEF q
    <2>4. q % BYTE \in 0..(BYTE - 1)
      BY Zenon, <2>3, ByteFacts, DivMod
    <2> QED
      BY <2>4 DEF q, Byte
  <1> HIDE DEF Byte
  <1> QED
    BY <1>1 DEF put_number

(* Number is the last of the values of its loop. *)
LEMMA NumberIs ==
  ASSUME NEW s, NEW f, Len(s) \in Nat,
         f = [i \in 0..Len(s) |-> IF i = 0 THEN 0 ELSE f[i - 1] * BYTE + s[i]]
  PROVE  Number(s) = f[Len(s)]
  <1> DEFINE value[i \in 0..Len(s)] ==
               IF i = 0 THEN 0 ELSE value[i - 1] * BYTE + s[i]
  <1>1. value = [i \in 0..Len(s) |->
                   IF i = 0 THEN 0 ELSE value[i - 1] * BYTE + s[i]]
    OBVIOUS
  <1>2. Number(s) = value[Len(s)]
    BY DEF Number
  <1> HIDE DEF value
  <1> DEFINE T == {i \in Nat : i <= Len(s) => value[i] = f[i]}
  <1>3. 0 \in T
    BY <1>1
  <1>4. ASSUME NEW i \in Nat, i \in T PROVE i + 1 \in T
    <2> SUFFICES ASSUME i + 1 <= Len(s) PROVE value[i + 1] = f[i + 1]
      OBVIOUS
    <2>1. i + 1 \in 0..Len(s) /\ i + 1 # 0 /\ i + 1 - 1 = i /\ i <= Len(s)
      OBVIOUS
    <2>2. value[i] = f[i]
      BY <1>4, <2>1
    <2>3. value[i + 1] = value[i] * BYTE + s[i + 1]
      BY <1>1, <2>1
    <2>4. f[i + 1] = f[i] * BYTE + s[i + 1]
      BY <2>1
    <2> QED
      BY <2>2, <2>3, <2>4
  <1> HIDE DEF T
  <1>5. Len(s) \in T
    BY <1>3, <1>4, SetInduction
  <1> QED
    BY <1>2, <1>5 DEF T

(* A number is read as it was written: after i bytes, the loop of ntoh has *)
(* the number without its last w - i bytes.                                *)
LEMMA NumberRoundTrip ==
  ASSUME NEW w \in 0..8, NEW n \in UInt(w)
  PROVE  Number(put_number(n, w)) = n
  <1> DEFINE s == put_number(n, w)
             f == [i \in 0..w |-> n \div Power[w - i]]
  <1>1. n \in Nat /\ n < Power[w] /\ Power[w] \in Nat \ {0}
    BY PowerFacts DEF UInt
  <1>2. Len(s) = w /\ \A i \in 1..w : s[i] = (n \div Power[w - i]) % BYTE
    BY <1>1, PutFacts
  <1>3. f[0] = 0
    <2>1. n = 0 * Power[w] + n /\ n \in 0..(Power[w] - 1)
      BY <1>1
    <2>2. n \div Power[w] = 0
      BY <1>1, <2>1, DivUnique
    <2> QED
      BY <2>2
  <1>4. ASSUME NEW i \in 1..w PROVE f[i] = f[i - 1] * BYTE + s[i]
    <2> DEFINE p == Power[w - i]
               q == n \div p
    <2>1. p \in Nat \ {0} /\ Power[w - (i - 1)] = p * BYTE
      <3>1. w - i \in 0..8 /\ w - (i - 1) \in 1..8
            /\ (w - (i - 1)) - 1 = w - i
        OBVIOUS
      <3> QED
        BY <3>1, PowerFacts
    <2>2. f[i] = q /\ f[i - 1] = n \div (p * BYTE)
      BY <2>1
    <2> HIDE DEF p
    <2>3. q \in Nat
      BY Zenon, <1>1, <2>1, DivMod
    <2>4. n \div (p * BYTE) = q \div BYTE
      BY Zenon, <1>1, <2>1, DivDiv, ByteFacts
    <2>5. s[i] = q % BYTE
      BY <1>2 DEF p
    <2> HIDE DEF q, s, f
    <2>6. q = (q \div BYTE) * BYTE + (q % BYTE)
      BY Zenon, <2>3, DivMod, ByteFacts
    <2> QED
      BY Zenon, <2>2, <2>4, <2>5, <2>6
  <1>5. f[w] = n
    <2>1. w - w = 0 /\ f[w] = n \div 1
      BY PowerFacts
    <2>2. n = n * 1 + 0 /\ 0 \in 0..(1 - 1)
      BY <1>1
    <2> QED
      BY <1>1, <2>1, <2>2, DivUnique
  <1>6. f = [i \in 0..w |-> f[i]]
    OBVIOUS
  <1> HIDE DEF f, s
  <1>7. f = [i \in 0..Len(s) |-> IF i = 0 THEN 0 ELSE f[i - 1] * BYTE + s[i]]
    <2>1. ASSUME NEW i \in 0..w
          PROVE  f[i] = IF i = 0 THEN 0 ELSE f[i - 1] * BYTE + s[i]
      <3>1. CASE i = 0
        BY Zenon, <1>3, <3>1
      <3>2. CASE i # 0
        <4>1. i \in 1..w
          BY <3>2
        <4> QED
          BY Zenon, <1>4, <3>2, <4>1
      <3> QED
        BY <3>1, <3>2
    <2> QED
      BY Zenon, <1>2, <1>6, <2>1
  <1>8. Number(s) = f[Len(s)]
    BY <1>2, <1>7, NumberIs
  <1> QED
    BY <1>2, <1>5, <1>8 DEF s

-----------------------------------------------------------------------------
(* A list of fields with different names, and a message that has numbers   *)
(* of their widths.                                                        *)
FieldName == {"frame_id", "frame_type", "frag_id", "frag_cnt", "send_ts",
              "width", "height", "frame_rate", "target_bitrate"}

IsLayout(fields) ==
  /\ fields \in Seq(FieldName \X (1..8))
  /\ \A i, j \in DOMAIN fields : fields[i][1] = fields[j][1] => i = j

Fits(m, fields) == \A i \in DOMAIN fields : m[fields[i][1]] \in UInt(fields[i][2])

LEMMA LayoutFacts ==
  ASSUME NEW fields, IsLayout(fields)
  PROVE  /\ Len(fields) \in Nat /\ DOMAIN fields = 1..Len(fields)
         /\ \A i \in 1..Len(fields) : fields[i][2] \in 1..8
  BY DEF IsLayout

(* Where the parser is before each field. *)
LEMMA PosFacts ==
  ASSUME NEW fields, IsLayout(fields)
  PROVE  /\ Pos(fields, 1) = 0
         /\ \A i \in 1..Len(fields) :
              Pos(fields, i + 1) = Pos(fields, i) + fields[i][2]
         /\ \A i \in 1..(Len(fields) + 1) : Pos(fields, i) \in Nat
  <1> DEFINE n == Len(fields)
             width == [i \in Nat |-> IF i \in 1..n THEN fields[i][2] ELSE 0]
             step == [vi \in Nat \X Nat |-> vi[1] + width[vi[2]]]
             end[k \in 0..Len(fields)] ==
               IF k = 0 THEN 0 ELSE end[k - 1] + fields[k][2]
  <1>1. n \in Nat /\ \A i \in 1..n : fields[i][2] \in 1..8
    BY LayoutFacts
  <1>2. step \in [Nat \X Nat -> Nat]
    <2>1. ASSUME NEW i \in Nat PROVE width[i] \in Nat
      <3>1. CASE i \in 1..n
        <4>1. fields[i][2] \in Nat
          BY <1>1, <3>1
        <4> QED
          BY <3>1, <4>1
      <3>2. CASE i \notin 1..n
        BY <3>2
      <3> QED
        BY <3>1, <3>2
    <2> HIDE DEF width
    <2> QED
      BY <2>1
  <1>3. 0 \in Nat /\ \A i \in 1..n : i \in Nat /\ width[i] = fields[i][2]
    BY <1>1
  <1> HIDE DEF step, width, n
  <1>4. PICK f \in [0..n -> Nat] : IsFold(f, n, 0, step)
    BY Zenon, <1>1, <1>2, <1>3, FoldExists
  <1>5. f[0] = 0 /\ \A i \in 1..n : f[i] = f[i - 1] + fields[i][2]
    <2>1. ASSUME NEW i \in 1..n PROVE f[i] = f[i - 1] + fields[i][2]
      <3>1. f[i] = step[<<f[i - 1], i>>] /\ f[i - 1] \in Nat /\ i \in Nat
        BY <1>1, <1>4 DEF IsFold
      <3>2. step[<<f[i - 1], i>>] = f[i - 1] + width[i]
        BY <3>1 DEF step
      <3> QED
        BY <1>3, <3>1, <3>2
    <2> QED
      BY <1>4, <2>1 DEF IsFold
  <1>6. f = [k \in 0..Len(fields) |->
               IF k = 0 THEN 0 ELSE f[k - 1] + fields[k][2]]
    BY <1>4, <1>5 DEF n
  <1>7. end = [k \in 0..Len(fields) |->
                 IF k = 0 THEN 0 ELSE end[k - 1] + fields[k][2]]
    BY <1>6
  <1>8. \A i : Pos(fields, i) = end[i - 1]
    BY DEF Pos
  <1> HIDE DEF end
  <1>9. end[0] = 0 /\ \A i \in 1..n : end[i] = end[i - 1] + fields[i][2]
    BY <1>1, <1>7 DEF n
  <1> DEFINE T == {i \in Nat : i <= n => end[i] \in Nat}
  <1>10. 0 \in T
    BY <1>9
  <1>11. ASSUME NEW i \in Nat, i \in T PROVE i + 1 \in T
    <2> SUFFICES ASSUME i + 1 <= n PROVE end[i + 1] \in Nat
      OBVIOUS
    <2>1. i + 1 \in 1..n /\ i + 1 - 1 = i /\ end[i] \in Nat
      BY <1>1, <1>11
    <2>2. end[i + 1] = end[i] + fields[i + 1][2]
      BY <1>9, <2>1
    <2>3. fields[i + 1][2] \in 1..8
      BY <1>1, <2>1
    <2> QED
      BY SMTT(30), <2>1, <2>2, <2>3
  <1> HIDE DEF T
  <1>12. \A i \in 0..n : end[i] \in Nat
    <2>1. Nat \subseteq T
      BY <1>10, <1>11, SetInduction
    <2> QED
      BY <1>1, <2>1 DEF T
  <1>13. Pos(fields, 1) = 0
    BY <1>8, <1>9
  <1>14. ASSUME NEW i \in 1..n
         PROVE  Pos(fields, i + 1) = Pos(fields, i) + fields[i][2]
    <2>1. i + 1 - 1 = i
      BY <1>1
    <2> QED
      BY <1>8, <1>9, <2>1
  <1>15. ASSUME NEW i \in 1..(n + 1) PROVE Pos(fields, i) \in Nat
    <2>1. i - 1 \in 0..n
      BY <1>1
    <2> QED
      BY <1>8, <1>12, <2>1
  <1> QED
    BY <1>13, <1>14, <1>15 DEF n

(* The bytes of a message: those of each field, where the parser will look *)
(* for them.                                                               *)
LEMMA WriteFacts ==
  ASSUME NEW m, NEW fields, IsLayout(fields), Fits(m, fields)
  PROVE  /\ WriteAll(m, fields) \in Seq(Byte)
         /\ Len(WriteAll(m, fields)) = Size(fields)
         /\ \A j \in DOMAIN fields :
              /\ Pos(fields, j) + fields[j][2] <= Size(fields)
              /\ \A k \in 1..fields[j][2] :
                   WriteAll(m, fields)[Pos(fields, j) + k]
                     = put_number(m[fields[j][1]], fields[j][2])[k]
  <1> DEFINE n == Len(fields)
             put(j) == put_number(m[fields[j][1]], fields[j][2])
             more == [i \in Nat |-> IF i \in 1..n THEN put(i) ELSE <<>>]
             step == [vi \in Seq(Byte) \X Nat |-> vi[1] \o more[vi[2]]]
             binary[i \in 0..Len(fields)] ==
               IF i = 0 THEN <<>>
               ELSE binary[i - 1] \o put_number(m[fields[i][1]], fields[i][2])
  <1>1. /\ n \in Nat /\ DOMAIN fields = 1..n
        /\ \A i \in 1..n : fields[i][2] \in 1..8
    BY LayoutFacts
  <1>2. ASSUME NEW i \in 1..n
        PROVE  put(i) \in Seq(Byte) /\ Len(put(i)) = fields[i][2]
    <2>1. fields[i][2] \in 0..8 /\ m[fields[i][1]] \in UInt(fields[i][2])
      BY <1>1 DEF Fits
    <2>2. m[fields[i][1]] \in Nat
      BY <2>1, PowerFacts DEF UInt
    <2> QED
      BY <2>1, <2>2, PutFacts
  <1> HIDE DEF put, Byte
  <1>3. step \in [Seq(Byte) \X Nat -> Seq(Byte)]
    <2>1. ASSUME NEW i \in Nat PROVE more[i] \in Seq(Byte)
      BY <1>2
    <2> HIDE DEF more
    <2> QED
      BY <2>1
  <1>4. <<>> \in Seq(Byte) /\ \A i \in 1..n : i \in Nat /\ more[i] = put(i)
    BY <1>1
  <1> HIDE DEF step, more, n
  <1>5. PICK f \in [0..n -> Seq(Byte)] : IsFold(f, n, <<>>, step)
    BY Zenon, <1>1, <1>3, <1>4, FoldExists
  <1>6. ASSUME NEW i \in 1..n PROVE f[i] = f[i - 1] \o put(i)
    <2>1. f[i] = step[<<f[i - 1], i>>] /\ f[i - 1] \in Seq(Byte) /\ i \in Nat
      BY <1>1, <1>5 DEF IsFold
    <2>2. step[<<f[i - 1], i>>] = f[i - 1] \o more[i]
      BY <2>1 DEF step
    <2> QED
      BY <1>4, <2>1, <2>2
  <1>7. f = [i \in 0..Len(fields) |->
               IF i = 0 THEN <<>>
               ELSE f[i - 1] \o put_number(m[fields[i][1]], fields[i][2])]
    <2>1. f[0] = <<>>
      BY <1>5 DEF IsFold
    <2>2. ASSUME NEW i \in 0..n
          PROVE  f[i] = IF i = 0 THEN <<>> ELSE f[i - 1] \o put(i)
      <3>1. CASE i = 0
        BY Zenon, <2>1, <3>1
      <3>2. CASE i # 0
        <4>1. i \in 1..n
          BY <1>1, <3>2
        <4> QED
          BY Zenon, <1>6, <3>2, <4>1
      <3> QED
        BY Zenon, <3>1, <3>2
    <2>3. f = [i \in 0..n |-> IF i = 0 THEN <<>> ELSE f[i - 1] \o put(i)]
      BY Zenon, <1>5, <2>2
    <2> QED
      BY Zenon, <2>3 DEF n, put
  <1>8. binary = [i \in 0..Len(fields) |->
                    IF i = 0 THEN <<>>
                    ELSE binary[i - 1] \o put_number(m[fields[i][1]], fields[i][2])]
    BY <1>7
  <1>9. WriteAll(m, fields) = binary[n]
    BY DEF WriteAll, n
  <1> HIDE DEF binary
  <1>10. binary[0] = <<>> /\ \A i \in 1..n : binary[i] = binary[i - 1] \o put(i)
    <2>1. binary[0] = <<>>
      BY <1>1, <1>8
    <2>2. ASSUME NEW i \in 1..n PROVE binary[i] = binary[i - 1] \o put(i)
      <3>1. i \in 0..Len(fields) /\ i # 0
        BY <1>1 DEF n
      <3> QED
        BY Zenon, <1>8, <3>1 DEF put
    <2> QED
      BY <2>1, <2>2
  <1> DEFINE Good(i) ==
               /\ binary[i] \in Seq(Byte)
               /\ Len(binary[i]) = Pos(fields, i + 1)
               /\ \A j \in 1..i :
                    /\ Pos(fields, j) + fields[j][2] <= Pos(fields, i + 1)
                    /\ \A k \in 1..fields[j][2] :
                         binary[i][Pos(fields, j) + k] = put(j)[k]
             T == {i \in Nat : i <= n => Good(i)}
  <1>11. 0 \in T
    <2>1. Pos(fields, 1) = 0
      BY PosFacts
    <2>2. 0 + 1 = 1 /\ 1..0 = {} /\ 0 \in Nat
      OBVIOUS
    <2>3. binary[0] \in Seq(Byte) /\ Len(binary[0]) = 0
      BY <1>10
    <2>4. Good(0)
      BY Zenon, <2>1, <2>2, <2>3
    <2> QED
      BY Zenon, <2>2, <2>4
  <1>12. ASSUME NEW i \in Nat, i \in T PROVE i + 1 \in T
    <2> SUFFICES ASSUME i + 1 <= n PROVE Good(i + 1)
      OBVIOUS
    <2>1. i + 1 \in 1..n /\ i + 1 - 1 = i /\ Good(i)
      BY <1>1, <1>12
    <2> DEFINE old == binary[i]
               new == binary[i + 1]
               bytes == put(i + 1)
               w == fields[i + 1][2]
               end == Pos(fields, i + 1)
    <2>2. /\ new = old \o bytes /\ old \in Seq(Byte) /\ bytes \in Seq(Byte)
          /\ Len(old) = end /\ Len(bytes) = w
      <3>1. new = old \o bytes
        <4>1. \A l \in 1..n : binary[l] = binary[l - 1] \o put(l)
          BY <1>10
        <4>2. PICK l \in 1..n : l = i + 1 /\ l - 1 = i
          BY <2>1
        <4>3. binary[l] = binary[l - 1] \o put(l)
          BY <4>1
        <4> QED
          BY <4>2, <4>3
      <3>2. bytes \in Seq(Byte) /\ Len(bytes) = w
        BY Zenon, <1>2, <2>1
      <3> QED
        BY Zenon, <2>1, <3>1, <3>2
    <2>3. w \in 1..8
      BY <1>1, <2>1
    <2>4. end \in Nat /\ Pos(fields, i + 1 + 1) = end + w
      BY <1>1, <2>1, PosFacts DEF n
    <2>5. ASSUME NEW j \in 1..(i + 1)
          PROVE  /\ Pos(fields, j) + fields[j][2] <= end + w
                 /\ \A k \in 1..fields[j][2] : new[Pos(fields, j) + k] = put(j)[k]
      <3>1. j \in 1..n /\ fields[j][2] \in 1..8 /\ Pos(fields, j) \in Nat
        <4>1. j \in 1..n /\ j \in 1..(Len(fields) + 1)
          BY <1>1, <2>1 DEF n
        <4> QED
          BY <1>1, <4>1, PosFacts
      <3>2. CASE j = i + 1
        <4> HIDE DEF old, new, end
        <4>1. \A k \in 1..w : new[end + k] = bytes[k]
          <5> HIDE DEF bytes, w
          <5> QED
            BY <2>2, <2>3, <2>4
        <4> QED
          BY <2>3, <2>4, <3>2, <4>1 DEF end
      <3>3. CASE j \in 1..i
        <4>1. /\ Pos(fields, j) + fields[j][2] <= end
              /\ \A k \in 1..fields[j][2] : old[Pos(fields, j) + k] = put(j)[k]
          BY <2>1, <3>3
        <4> DEFINE pj == Pos(fields, j)
                   wj == fields[j][2]
        <4> HIDE DEF old, new, bytes, w, end
        <4>2. pj \in Nat /\ wj \in 1..8 /\ pj + wj <= end
          BY <3>1, <4>1
        <4> HIDE DEF pj, wj
        <4>3. ASSUME NEW k \in 1..wj PROVE new[pj + k] = old[pj + k]
          <5>1. pj + k \in 1..Len(old)
            BY <2>2, <2>4, <4>2
          <5> QED
            BY <2>2, <5>1
        <4>4. pj + wj <= end + w
          BY <2>3, <2>4, <4>2
        <4> QED
          BY Zenon, <4>1, <4>3, <4>4 DEF pj, wj
      <3> QED
        BY <3>2, <3>3
    <2>6. new \in Seq(Byte) /\ Len(new) = end + w
      <3> HIDE DEF old, new, bytes, w, end
      <3> QED
        BY <2>2, <2>3, <2>4
    <2> QED
      BY <2>4, <2>5, <2>6
  <1> HIDE DEF T
  <1>13. n \in T
    BY <1>1, <1>11, <1>12, SetInduction
  <1>14. Good(n)
    BY <1>1, <1>13 DEF T
  <1> QED
    BY <1>1, <1>9, <1>14 DEF Size, n, put

(* What was written is read: no field is short, each has its number, and   *)
(* what follows the fields is left.                                        *)
ReadsAs(str, m, fields, payload) ==
  /\ str \in Seq(Byte)
  /\ Len(str) = Size(fields) + Len(payload)
  /\ ~Throws(str, fields)
  /\ \A i \in DOMAIN fields :
       Filled(str, fields)[fields[i][1]] = m[fields[i][1]]
  /\ Rest(str, fields) = payload

LEMMA ReadBack ==
  ASSUME NEW m, NEW fields, IsLayout(fields), Fits(m, fields),
         NEW payload \in Seq(Byte)
  PROVE  ReadsAs(WriteAll(m, fields) \o payload, m, fields, payload)
  <1> DEFINE n == Len(fields)
             all == WriteAll(m, fields)
             str == all \o payload
             size == Size(fields)
  <1>1. /\ n \in Nat /\ DOMAIN fields = 1..n
        /\ \A i \in 1..n : fields[i][2] \in 1..8
    BY LayoutFacts
  <1>2. /\ all \in Seq(Byte) /\ Len(all) = size
        /\ \A j \in DOMAIN fields :
             /\ Pos(fields, j) + fields[j][2] <= size
             /\ \A k \in 1..fields[j][2] :
                  all[Pos(fields, j) + k]
                    = put_number(m[fields[j][1]], fields[j][2])[k]
    BY WriteFacts
  <1>3. str = all \o payload
    OBVIOUS
  <1> HIDE DEF all, str, size, Byte
  <1>4. size \in Nat /\ str \in Seq(Byte) /\ Len(str) = size + Len(payload)
    <2>1. all \in Seq(Byte) /\ Len(all) = size
      BY <1>2
    <2>2. str \in Seq(Byte)
      BY <1>3, <2>1
    <2>3. Len(all \o payload) = Len(all) + Len(payload) /\ Len(all) \in Nat
      BY <2>1
    <2> QED
      BY <1>3, <2>1, <2>2, <2>3
  <1>5. ~Throws(str, fields)
    <2>1. ASSUME NEW i \in DOMAIN fields
          PROVE  ~(Pos(fields, i) + fields[i][2] > Len(str))
      <3> DEFINE end == Pos(fields, i) + fields[i][2]
      <3>1. Pos(fields, i) \in Nat /\ fields[i][2] \in 1..8
        <4>1. i \in 1..(Len(fields) + 1)
          BY <1>1 DEF n
        <4> QED
          BY <1>1, <4>1, PosFacts
      <3>2. end \in Nat /\ end <= size
        BY <1>2, <3>1
      <3> HIDE DEF end
      <3>3. ~(end > Len(str))
        BY <1>4, <3>2
      <3> QED
        BY <3>3 DEF end
    <2> QED
      BY <2>1 DEF Throws
  <1>6. ASSUME NEW i \in DOMAIN fields
        PROVE  Filled(str, fields)[fields[i][1]] = m[fields[i][1]]
    <2> DEFINE name == fields[i][1]
               w == fields[i][2]
               pos == Pos(fields, i)
               bytes == put_number(m[name], w)
    <2>1. /\ pos \in Nat /\ w \in 1..8 /\ pos + w <= size
          /\ \A k \in 1..w : all[pos + k] = bytes[k]
      <3>1. i \in 1..(Len(fields) + 1)
        BY <1>1 DEF n
      <3> QED
        BY <1>1, <1>2, <3>1, PosFacts
    <2>2. (CHOOSE j \in DOMAIN fields : fields[j][1] = name) = i
      BY DEF IsLayout
    <2>3. Filled(str, fields)[name] = Number(SubSeq(str, pos + 1, pos + w))
      <3>1. name \in {fields[j][1] : j \in DOMAIN fields}
        OBVIOUS
      <3> HIDE DEF name
      <3> QED
        BY <2>2, <3>1 DEF Filled
    <2>4. m[name] \in UInt(w) /\ w \in 0..8 /\ m[name] \in Nat
      <3>1. m[name] \in UInt(w) /\ w \in 0..8
        BY <2>1 DEF Fits
      <3> QED
        BY <3>1, PowerFacts DEF UInt
    <2>5. bytes \in Seq(Byte) /\ Len(bytes) = w
      BY <2>4, PutFacts
    <2>6. Number(bytes) = m[name]
      BY <2>4, NumberRoundTrip
    <2> HIDE DEF bytes, w, pos, name
    <2>7. SubSeq(str, pos + 1, pos + w) = bytes
      <3> DEFINE sub == SubSeq(str, pos + 1, pos + w)
      <3>1. pos + w <= Len(str)
        BY <1>4, <2>1
      <3>2. sub \in Seq(Byte) /\ Len(sub) = w
        BY <1>4, <2>1, <3>1
      <3>3. ASSUME NEW k \in 1..w PROVE sub[k] = bytes[k]
        <4>1. sub[k] = str[pos + k]
          BY <1>4, <2>1, <3>1
        <4>2. pos + k \in 1..Len(all)
          BY <1>2, <2>1, <1>4
        <4>3. str[pos + k] = all[pos + k]
          BY <1>2, <1>3, <4>2
        <4> QED
          BY <2>1, <4>1, <4>3
      <3> HIDE DEF sub
      <3>4. sub = bytes
        BY <2>1, <2>5, <3>2, <3>3
      <3> QED
        BY <3>4 DEF sub
    <2> QED
      BY <2>3, <2>6, <2>7 DEF name
  <1>7. Rest(str, fields) = payload
    <2> DEFINE sub == SubSeq(str, size + 1, Len(str))
    <2>1. sub \in Seq(Byte) /\ Len(sub) = Len(payload)
      BY <1>4
    <2>2. ASSUME NEW k \in 1..Len(payload) PROVE sub[k] = payload[k]
      BY <1>2, <1>3, <1>4
    <2> HIDE DEF sub
    <2>3. sub = payload
      BY <2>1, <2>2
    <2> QED
      BY <2>3 DEF sub, Rest, size
  <1> QED
    BY Zenon, <1>4, <1>5, <1>6, <1>7 DEF size, str, all, ReadsAs

-----------------------------------------------------------------------------
(* The three messages. *)
LEMMA Layouts ==
  /\ IsLayout(DatagramReads) /\ IsLayout(AckReads) /\ IsLayout(ConfigReads)
  /\ Size(DatagramReads) = HEADER_SIZE
  <1>1. IsLayout(DatagramReads)
    <2> DEFINE F == DatagramReads
               S == FieldName \X (1..8)
    <2>1. /\ <<"frame_id", 4>> \in S
          /\ <<"frame_type", 1>> \in S
          /\ <<"frag_id", 2>> \in S
          /\ <<"frag_cnt", 2>> \in S
          /\ <<"send_ts", 8>> \in S
      BY DEF FieldName
    <2> HIDE DEF S
    <2>2. F \in Seq(S) /\ DOMAIN F = 1..5
      BY <2>1 DEF DatagramReads, uint8, uint16, uint32, uint64
    <2>3. /\ F[1][1] = "frame_id"
          /\ F[2][1] = "frame_type"
          /\ F[3][1] = "frag_id"
          /\ F[4][1] = "frag_cnt"
          /\ F[5][1] = "send_ts"
      BY DEF DatagramReads
    <2> HIDE DEF F
    <2>4. ASSUME NEW i \in 1..5, NEW j \in 1..5, F[i][1] = F[j][1]
          PROVE  i = j
      BY <2>3, <2>4
    <2> QED
      BY <2>2, <2>4 DEF IsLayout, S, F
  <1>2. IsLayout(AckReads)
    <2> DEFINE F == AckReads
               S == FieldName \X (1..8)
    <2>1. /\ <<"frame_id", 4>> \in S
          /\ <<"frag_id", 2>> \in S
          /\ <<"send_ts", 8>> \in S
      BY DEF FieldName
    <2> HIDE DEF S
    <2>2. F \in Seq(S) /\ DOMAIN F = 1..3
      BY <2>1 DEF AckReads, uint8, uint16, uint32, uint64
    <2>3. /\ F[1][1] = "frame_id"
          /\ F[2][1] = "frag_id"
          /\ F[3][1] = "send_ts"
      BY DEF AckReads
    <2> HIDE DEF F
    <2>4. ASSUME NEW i \in 1..3, NEW j \in 1..3, F[i][1] = F[j][1]
          PROVE  i = j
      BY <2>3, <2>4
    <2> QED
      BY <2>2, <2>4 DEF IsLayout, S, F
  <1>3. IsLayout(ConfigReads)
    <2> DEFINE F == ConfigReads
               S == FieldName \X (1..8)
    <2>1. /\ <<"width", 2>> \in S
          /\ <<"height", 2>> \in S
          /\ <<"frame_rate", 2>> \in S
          /\ <<"target_bitrate", 4>> \in S
      BY DEF FieldName
    <2> HIDE DEF S
    <2>2. F \in Seq(S) /\ DOMAIN F = 1..4
      BY <2>1 DEF ConfigReads, uint8, uint16, uint32, uint64
    <2>3. /\ F[1][1] = "width"
          /\ F[2][1] = "height"
          /\ F[3][1] = "frame_rate"
          /\ F[4][1] = "target_bitrate"
      BY DEF ConfigReads
    <2> HIDE DEF F
    <2>4. ASSUME NEW i \in 1..4, NEW j \in 1..4, F[i][1] = F[j][1]
          PROVE  i = j
      BY <2>3, <2>4
    <2> QED
      BY <2>2, <2>4 DEF IsLayout, S, F
  <1>4. Size(DatagramReads) = HEADER_SIZE
    <2> DEFINE F == DatagramReads
    <2>1. /\ Pos(F, 1) = 0
          /\ \A i \in 1..Len(F) : Pos(F, i + 1) = Pos(F, i) + F[i][2]
      BY <1>1, PosFacts
    <2>2. /\ Len(F) = 5
          /\ F[1][2] = 4 /\ F[2][2] = 1 /\ F[3][2] = 2 /\ F[4][2] = 2 /\ F[5][2] = 8
      BY DEF DatagramReads, uint8, uint16, uint32, uint64
    <2> HIDE DEF F
    <2>3. /\ Pos(F, 1 + 1) = Pos(F, 1) + F[1][2]
          /\ Pos(F, 2 + 1) = Pos(F, 2) + F[2][2]
          /\ Pos(F, 3 + 1) = Pos(F, 3) + F[3][2]
          /\ Pos(F, 4 + 1) = Pos(F, 4) + F[4][2]
          /\ Pos(F, 5 + 1) = Pos(F, 5) + F[5][2]
      BY <2>1, <2>2
    <2>4. Pos(F, 6) = 17
      BY <2>1, <2>2, <2>3
    <2> QED
      BY <2>2, <2>4 DEF F, Size, HEADER_SIZE, uint8, uint16, uint32, uint64
  <1> QED
    BY <1>1, <1>2, <1>3, <1>4

WireDatagram == [frame_id : UInt(uint32), frame_type : UInt(uint8),
                 frag_id : UInt(uint16), frag_cnt : UInt(uint16),
                 send_ts : UInt(uint64), payload : Seq(Byte)]

(* Datagram::parse_from_string gives back what serialize_to_string was     *)
(* given, payload and all, for every number a field may hold.              *)
THEOREM DatagramRoundTrip ==
  ASSUME NEW d \in WireDatagram
  PROVE  ParseDatagram(SerializeDatagram(d)) = {d}
  <1> DEFINE F == DatagramReads
             str == SerializeDatagram(d)
             got == Filled(str, F)
  <1>1. F = DatagramWrites
    BY DEF DatagramReads, DatagramWrites
  <1>2. Fits(d, F)
    BY DEF Fits, DatagramReads, WireDatagram
  <1>3. str = WriteAll(d, F) \o d.payload /\ d.payload \in Seq(Byte)
    BY <1>1 DEF SerializeDatagram, WireDatagram
  <1>4. /\ Len(str) = Size(F) + Len(d.payload)
        /\ \A i \in DOMAIN F : got[F[i][1]] = d[F[i][1]]
        /\ Rest(str, F) = d.payload
    <2>1. IsLayout(F)
      BY Layouts
    <2> HIDE DEF F, str
    <2>2. ReadsAs(WriteAll(d, F) \o d.payload, d, F, d.payload)
      BY <1>2, <1>3, <2>1, ReadBack
    <2> QED
      BY Zenon, <1>3, <2>2 DEF ReadsAs
  <1>5. ~(Len(str) < HEADER_SIZE)
    <2>1. Len(d.payload) \in Nat /\ HEADER_SIZE \in Nat
      BY <1>3 DEF HEADER_SIZE, uint8, uint16, uint32, uint64
    <2> HIDE DEF str, F
    <2> QED
      BY <1>4, <2>1, Layouts DEF F
  <1> HIDE DEF got, str
  <1>6. /\ got.frame_id = d.frame_id /\ got.frame_type = d.frame_type
        /\ got.frag_id = d.frag_id /\ got.frag_cnt = d.frag_cnt
        /\ got.send_ts = d.send_ts
    BY <1>4 DEF DatagramReads
  <1>7. [frame_id |-> got.frame_id, frame_type |-> got.frame_type,
         frag_id |-> got.frag_id, frag_cnt |-> got.frag_cnt,
         send_ts |-> got.send_ts, payload |-> Rest(str, F)] = d
    BY <1>4, <1>6 DEF WireDatagram
  <1>8. ParseDatagram(str)
          = {[frame_id |-> got.frame_id, frame_type |-> got.frame_type,
              frag_id |-> got.frag_id, frag_cnt |-> got.frag_cnt,
              send_ts |-> got.send_ts, payload |-> Rest(str, F)]}
    BY <1>5 DEF ParseDatagram, got
  <1> QED
    BY <1>7, <1>8 DEF str

(* The first element of a sequence, and the others. *)
LEMMA FirstElement ==
  ASSUME NEW S, NEW a \in Seq(S), Len(a) = 1, NEW b \in Seq(S)
  PROVE  /\ a \o b # <<>>
         /\ SubSeq(a \o b, 1, 1) = a
         /\ SubSeq(a \o b, 1 + 1, Len(a \o b)) = b
  <1> DEFINE s == a \o b
  <1>0. /\ s \in Seq(S)
        /\ Len(s) = Len(a) + Len(b)
        /\ \A i \in 1..(Len(a) + Len(b)) :
             s[i] = IF i <= Len(a) THEN a[i] ELSE b[i - Len(a)]
    BY ConcatProperties
  <1> HIDE DEF s
  <1>1. s \in Seq(S) /\ Len(s) = 1 + Len(b) /\ Len(b) \in Nat
    BY <1>0
  <1>2. s[1] = a[1] /\ \A k \in 1..Len(b) : s[k + 1] = b[k]
    <2>1. \A i \in 1..(1 + Len(b)) : s[i] = IF i <= 1 THEN a[i] ELSE b[i - 1]
      BY <1>0
    <2>2. ASSUME NEW k \in 1..Len(b) PROVE s[k + 1] = b[k]
      <3>1. k + 1 \in 1..(1 + Len(b)) /\ ~(k + 1 <= 1) /\ (k + 1) - 1 = k
        BY <1>1
      <3> QED
        BY <2>1, <3>1
    <2> QED
      BY <1>1, <2>1, <2>2
  <1>3. SubSeq(s, 1, 1) = a
    <2>1. SubSeq(s, 1, 1) \in Seq(S) /\ Len(SubSeq(s, 1, 1)) = 1
      BY <1>1
    <2>2. SubSeq(s, 1, 1)[1] = a[1]
      BY <1>1, <1>2
    <2> QED
      BY <2>1, <2>2
  <1>4. SubSeq(s, 1 + 1, Len(s)) = b
    <2> DEFINE sub == SubSeq(s, 1 + 1, Len(s))
    <2>1. sub \in Seq(S) /\ Len(sub) = Len(b)
      BY <1>1
    <2>2. ASSUME NEW k \in 1..Len(b) PROVE sub[k] = b[k]
      BY <1>1, <1>2
    <2> HIDE DEF sub
    <2>3. sub = b
      BY <2>1, <2>2
    <2> QED
      BY <2>3 DEF sub
  <1> QED
    BY <1>1, <1>3, <1>4 DEF s

(* A message is read by its type. *)
ParsesAs(str, type, m, fields) ==
  /\ ParseMsg(str) = [type |-> type, thrown |-> FALSE,
                      fields |-> {Filled(WriteAll(m, fields), fields)}]
  /\ \A i \in DOMAIN fields :
       Filled(WriteAll(m, fields), fields)[fields[i][1]] = m[fields[i][1]]

LEMMA ParseTyped ==
  ASSUME NEW type \in {ACK, CONFIG}, NEW m, NEW fields, Fits(m, fields),
         fields = IF type = ACK THEN AckReads ELSE ConfigReads
  PROVE  ParsesAs(put_number(type, uint8) \o WriteAll(m, fields), type, m, fields)
  <1> DEFINE all == WriteAll(m, fields)
             kind == put_number(type, uint8)
             str == kind \o all
             body == SubSeq(str, uint8 + 1, Len(str))
  <1>1. IsLayout(fields)
    BY Layouts
  <1>2. all \in Seq(Byte)
    BY <1>1, WriteFacts
  <1>3. type \in UInt(uint8) /\ uint8 = 1
    <2>1. Power[1] = Power[0] * BYTE /\ Power[0] = 1
      BY PowerFacts
    <2>2. Power[1] = BYTE
      BY <2>1, ByteFacts
    <2> QED
      BY <2>2, ByteFacts DEF UInt, uint8, ACK, CONFIG
  <1>4. kind \in Seq(Byte) /\ Len(kind) = 1 /\ Number(kind) = type
    <2>1. type \in Nat /\ 1 \in 0..8
      BY DEF ACK, CONFIG
    <2> QED
      BY <1>3, <2>1, PutFacts, NumberRoundTrip
  <1>5. str = kind \o all
    OBVIOUS
  <1> HIDE DEF all, kind, str, Byte
  <1>6. SubSeq(str, 1, uint8) = kind /\ body = all /\ str # <<>>
    BY <1>2, <1>3, <1>4, <1>5, FirstElement
  <1>7. <<>> \in Seq(Byte) /\ all = all \o <<>>
    BY <1>2
  <1>8. /\ ~Throws(all, fields)
        /\ \A i \in DOMAIN fields : Filled(all, fields)[fields[i][1]] = m[fields[i][1]]
    <2>1. ReadsAs(all \o <<>>, m, fields, <<>>)
      BY <1>1, <1>7, ReadBack DEF all
    <2> QED
      BY <1>7, <2>1 DEF ReadsAs
  <1>9. ParseMsg(str) = [type |-> type, thrown |-> FALSE,
                         fields |-> {Filled(all, fields)}]
    <2> HIDE DEF body
    <2>1. Number(SubSeq(str, 1, uint8)) = type
      BY <1>4, <1>6
    <2>2. ParseMsg(str)
            = IF str = <<>> \/ type \notin {ACK, CONFIG}
              THEN [type |-> INVALID, thrown |-> FALSE, fields |-> {}]
              ELSE [type |-> type, thrown |-> Throws(body, fields),
                    fields |-> IF Throws(body, fields) THEN {}
                               ELSE {Filled(body, fields)}]
      BY Zenon, <2>1 DEF ParseMsg, body
    <2>3. Throws(all, fields) = FALSE
      BY <1>8 DEF Throws
    <2> QED
      BY <1>6, <2>2, <2>3
  <1> QED
    BY Zenon, <1>8, <1>9 DEF all, str, kind, ParsesAs

WireConfig == [width : UInt(uint16), height : UInt(uint16),
               frame_rate : UInt(uint16), target_bitrate : UInt(uint32)]

(* Msg::parse_from_string gives back the ConfigMsg that                    *)
(* ConfigMsg::serialize_to_string was given.                               *)
THEOREM ConfigRoundTrip ==
  ASSUME NEW c \in WireConfig
  PROVE  ParseMsg(SerializeConfig(c))
           = [type |-> CONFIG, thrown |-> FALSE, fields |-> {c}]
  <1> DEFINE F == ConfigReads
             got == Filled(WriteAll(c, F), F)
  <1>1. F = ConfigWrites
    BY DEF ConfigReads, ConfigWrites
  <1>2. Fits(c, F)
    BY DEF Fits, ConfigReads, WireConfig
  <1>3. CONFIG \in {ACK, CONFIG} /\ CONFIG # ACK
    BY DEF ACK, CONFIG
  <1>4. SerializeConfig(c) = put_number(CONFIG, uint8) \o WriteAll(c, F)
    BY <1>1 DEF SerializeConfig
  <1>5. /\ ParseMsg(SerializeConfig(c))
             = [type |-> CONFIG, thrown |-> FALSE, fields |-> {got}]
        /\ \A i \in DOMAIN F : got[F[i][1]] = c[F[i][1]]
    <2>1. F = IF CONFIG = ACK THEN AckReads ELSE ConfigReads
      BY <1>3
    <2> HIDE DEF F
    <2> QED
      <3>1. ParsesAs(put_number(CONFIG, uint8) \o WriteAll(c, F), CONFIG, c, F)
        BY <1>2, <1>3, <2>1, ParseTyped
      <3> QED
        BY Zenon, <1>4, <3>1 DEF ParsesAs
  <1>6. got = c
    <2>1. /\ got = [name \in {F[i][1] : i \in DOMAIN F} |-> got[name]]
      BY DEF Filled
    <2>2. {F[i][1] : i \in DOMAIN F} = {"width", "height", "frame_rate", "target_bitrate"}
      BY DEF ConfigReads
    <2> HIDE DEF got
    <2>3. /\ got["width"] = c["width"] /\ got["height"] = c["height"]
          /\ got["frame_rate"] = c["frame_rate"]
          /\ got["target_bitrate"] = c["target_bitrate"]
      BY <1>5 DEF ConfigReads
    <2> QED
      BY <2>1, <2>2, <2>3 DEF WireConfig
  <1> QED
    BY <1>5, <1>6

AckOf(d) == [frame_id |-> d.frame_id, frag_id |-> d.frag_id, send_ts |-> d.send_ts]

(* Msg::parse_from_string gives back the AckMsg of a datagram that         *)
(* AckMsg::serialize_to_string was given.                                  *)
THEOREM AckRoundTrip ==
  ASSUME NEW d \in WireDatagram
  PROVE  ParseMsg(SerializeAck(d))
           = [type |-> ACK, thrown |-> FALSE, fields |-> {AckOf(d)}]
  <1> DEFINE F == AckReads
             got == Filled(WriteAll(d, F), F)
  <1>1. F = AckWrites
    BY DEF AckReads, AckWrites
  <1>2. Fits(d, F)
    BY DEF Fits, AckReads, WireDatagram
  <1>3. SerializeAck(d) = put_number(ACK, uint8) \o WriteAll(d, F)
    BY <1>1 DEF SerializeAck
  <1>4. /\ ParseMsg(SerializeAck(d))
             = [type |-> ACK, thrown |-> FALSE, fields |-> {got}]
        /\ \A i \in DOMAIN F : got[F[i][1]] = d[F[i][1]]
    <2>1. F = IF ACK = ACK THEN AckReads ELSE ConfigReads
      OBVIOUS
    <2>2. ACK \in {ACK, CONFIG}
      OBVIOUS
    <2> HIDE DEF F
    <2>3. ParsesAs(put_number(ACK, uint8) \o WriteAll(d, F), ACK, d, F)
      BY <1>2, <2>1, <2>2, ParseTyped
    <2> QED
      BY Zenon, <1>3, <2>3 DEF ParsesAs
  <1>5. got = AckOf(d)
    <2>1. got = [name \in {F[i][1] : i \in DOMAIN F} |-> got[name]]
      BY DEF Filled
    <2>2. {F[i][1] : i \in DOMAIN F} = {"frame_id", "frag_id", "send_ts"}
      BY DEF AckReads
    <2> HIDE DEF got
    <2>3. /\ got["frame_id"] = d["frame_id"] /\ got["frag_id"] = d["frag_id"]
          /\ got["send_ts"] = d["send_ts"]
      BY <1>4 DEF AckReads
    <2> QED
      BY <2>1, <2>2, <2>3 DEF AckOf
  <1> QED
    BY <1>4, <1>5

-----------------------------------------------------------------------------
(* The inductive invariant.  Every packet of a receiver is the ConfigMsg   *)
(* its user asked for or the ACK of a datagram it was sent; datagrams are  *)
(* sent only in a call, to the peer; and from the moment the sender has    *)
(* parsed a ConfigMsg, it has the configuration of the receiver it came    *)
(* from.                                                                   *)

Packets == sent \cup StrayPackets

TypeOK == /\ sender_pc \in {"start", "waiting", "connecting", "setup", "call",
                            "ended"}
          /\ inbox \in Seq(Packets)
          /\ asked \in [Receivers -> SUBSET Configs]
          /\ recv_pc \in [Receivers -> {"off", "waiting", "call", "ended"}]

IsConfigOf(p) == \E c \in Configs :
                   p.data = SerializeConfig(c) /\ asked[p.from] = {c}

IsAckOf(p) == \E d \in datagrams :
                d.to = p.from /\ p.data = SerializeAck(d.datagram)

Genuine == \A p \in sent : /\ p.from \in Receivers
                           /\ recv_pc[p.from] # "off"
                           /\ IsConfigOf(p) \/ IsAckOf(p)

ToPeer == /\ \A d \in datagrams : d.to = peer /\ d.datagram \in Datagrams
          /\ datagrams # {} => sender_pc \in {"call", "ended"}
          /\ \A r \in Receivers :
               recv_pc[r] = "call" => \E d \in datagrams : d.to = r

(* A host that sends a whole ConfigMsg is a receiver and counted as one. *)
NoStrayConfig == \A s \in StrayMsgs :
                   ParseMsg(s).thrown \/ ParseMsg(s).type # CONFIG

Agreed == sender_pc \in {"connecting", "setup", "call"}
            => /\ peer \in Receivers
               /\ recv_pc[peer] # "off"
               /\ \E c \in Configs : config = {c} /\ asked[peer] = {c}

IInv == TypeOK /\ Genuine /\ ToPeer /\ AcksEcho /\ (NoStrayConfig => Agreed)

LEMMA InitInv == Init => IInv
  BY DEF Init, IInv, TypeOK, Genuine, ToPeer, AcksEcho, Agreed, Packets

(* What the sender parses from a packet of a receiver. *)
LEMMA ParsedFacts ==
  ASSUME IInv, NEW p \in sent
  PROVE  /\ p.from \in Receivers /\ recv_pc[p.from] # "off"
         /\ ParseMsg(p.data).thrown = FALSE
         /\ ParseMsg(p.data).type = CONFIG =>
              \E c \in Configs : /\ ParseMsg(p.data).fields = {c}
                                 /\ asked[p.from] = {c}
         /\ ParseMsg(p.data).type = ACK =>
              \E d \in datagrams : /\ d.to = p.from
                                   /\ ParseMsg(p.data).fields = {AckOf(d.datagram)}
  <1>1. /\ p.from \in Receivers /\ recv_pc[p.from] # "off"
        /\ IsConfigOf(p) \/ IsAckOf(p)
    BY DEF IInv, Genuine
  <1>2. ACK # CONFIG
    BY DEF ACK, CONFIG
  <1>3. CASE IsConfigOf(p)
    <2>1. PICK c \in Configs : p.data = SerializeConfig(c) /\ asked[p.from] = {c}
      BY <1>3 DEF IsConfigOf
    <2>2. c \in WireConfig
      BY SessionAssumption DEF WireConfig
    <2>3. ParseMsg(p.data) = [type |-> CONFIG, thrown |-> FALSE, fields |-> {c}]
      BY <2>1, <2>2, ConfigRoundTrip
    <2> QED
      BY <1>1, <1>2, <2>1, <2>3
  <1>4. CASE IsAckOf(p)
    <2>1. PICK d \in datagrams : d.to = p.from /\ p.data = SerializeAck(d.datagram)
      BY <1>4 DEF IsAckOf
    <2>2. d.datagram \in WireDatagram
      BY SessionAssumption DEF WireDatagram, IInv, ToPeer
    <2>3. ParseMsg(p.data)
            = [type |-> ACK, thrown |-> FALSE, fields |-> {AckOf(d.datagram)}]
      BY <2>1, <2>2, AckRoundTrip
    <2> QED
      BY <1>1, <1>2, <2>1, <2>3
  <1> QED
    BY <1>1, <1>3, <1>4

(* A packet of the network is a receiver's or that of another host. *)
LEMMA PacketKinds ==
  ASSUME TypeOK, inbox # <<>>
  PROVE  /\ Head(inbox) \in Packets
         /\ Tail(inbox) \in Seq(Packets)
         /\ \A p \in StrayPackets : /\ p.from = Stray /\ p.from \notin Receivers
                                    /\ p.data \in StrayMsgs
  BY SessionAssumption DEF TypeOK, StrayPackets, Packet

(* Steps that only move the sender on. *)
LEMMA MovesOn ==
  ASSUME IInv,
         UNCHANGED <<peer, config, inbox, datagrams, acked, sent, asked, recv_pc>>,
         \/ sender_pc = "start" /\ sender_pc' = "waiting"
         \/ sender_pc = "connecting" /\ sender_pc' = "setup"
         \/ sender_pc = "setup" /\ sender_pc' \in {"call", "ended"}
         \/ sender_pc = "call" /\ sender_pc' = "ended"
  PROVE  IInv'
  <1>1. TypeOK'
    BY DEF IInv, TypeOK, Packets
  <1>2. Genuine'
    BY DEF IInv, Genuine, IsConfigOf, IsAckOf
  <1>3. ToPeer'
    BY DEF IInv, ToPeer
  <1>4. AcksEcho'
    BY DEF IInv, AcksEcho
  <1>5. (NoStrayConfig => Agreed)'
    BY DEF IInv, Agreed, NoStrayConfig
  <1> QED
    BY <1>1, <1>2, <1>3, <1>4, <1>5 DEF IInv

LEMMA RecvConfigInv ==
  ASSUME IInv, RecvConfig
  PROVE  IInv'
  <1> DEFINE p == Head(inbox)
             msg == ParseMsg(p.data)
  <1>1. /\ sender_pc = "waiting" /\ inbox # <<>> /\ inbox' = Tail(inbox)
        /\ UNCHANGED <<datagrams, acked, sent, asked, recv_pc>>
        /\ sender_pc' \in {"ended", "connecting", "waiting"}
        /\ sender_pc' = "connecting" => /\ ~msg.thrown /\ msg.type = CONFIG
                                        /\ peer' = p.from
                                        /\ config' = msg.fields
    BY DEF RecvConfig
  <1>2. /\ p \in Packets /\ Tail(inbox) \in Seq(Packets)
        /\ \A q \in StrayPackets : q.data \in StrayMsgs
    BY <1>1, PacketKinds DEF IInv
  <1> HIDE DEF msg, p
  <1>3. TypeOK'
    BY <1>1, <1>2 DEF IInv, TypeOK, Packets
  <1>4. Genuine'
    BY <1>1 DEF IInv, Genuine, IsConfigOf, IsAckOf
  <1>5. ToPeer'
    BY <1>1 DEF IInv, ToPeer
  <1>6. AcksEcho'
    BY <1>1 DEF IInv, AcksEcho
  <1>7. ASSUME NoStrayConfig PROVE Agreed'
    <2>1. SUFFICES ASSUME sender_pc' = "connecting" PROVE Agreed'
      BY <1>1 DEF Agreed
    <2>2. ~msg.thrown /\ msg.type = CONFIG /\ peer' = p.from /\ config' = msg.fields
      BY <1>1, <2>1
    <2>3. p \in sent
      BY <1>2, <1>7, <2>2 DEF Packets, NoStrayConfig, msg
    <2>4. /\ p.from \in Receivers /\ recv_pc[p.from] # "off"
          /\ \E c \in Configs : msg.fields = {c} /\ asked[p.from] = {c}
      BY <2>2, <2>3, ParsedFacts DEF msg
    <2> QED
      BY <1>1, <2>2, <2>4 DEF Agreed
  <1> QED
    BY <1>3, <1>4, <1>5, <1>6, <1>7 DEF IInv, NoStrayConfig

LEMMA SenderSendInv ==
  ASSUME IInv, SenderSend
  PROVE  IInv'
  <1>1. PICK d \in Datagrams :
          datagrams' = datagrams \cup {[to |-> peer, datagram |-> d]}
    BY DEF SenderSend
  <1>2. /\ sender_pc = "call"
        /\ UNCHANGED <<sender_pc, peer, config, inbox, acked, sent, asked, recv_pc>>
    BY DEF SenderSend
  <1>3. TypeOK'
    BY <1>2 DEF IInv, TypeOK, Packets
  <1>4. Genuine'
    BY <1>1, <1>2 DEF IInv, Genuine, IsConfigOf, IsAckOf
  <1>5. ToPeer'
    BY <1>1, <1>2 DEF IInv, ToPeer
  <1>6. AcksEcho'
    BY <1>1, <1>2 DEF IInv, AcksEcho
  <1>7. (NoStrayConfig => Agreed)'
    BY <1>2 DEF IInv, Agreed, NoStrayConfig
  <1> QED
    BY <1>3, <1>4, <1>5, <1>6, <1>7 DEF IInv

LEMMA SenderReadInv ==
  ASSUME IInv, SenderRead
  PROVE  IInv'
  <1> DEFINE p == Head(inbox)
             msg == ParseMsg(p.data)
  <1>1. /\ sender_pc = "call" /\ inbox # <<>> /\ inbox' = Tail(inbox)
        /\ sender_pc' \in {"ended", "call"}
        /\ UNCHANGED <<peer, config, datagrams, sent, asked, recv_pc>>
        /\ \/ acked' = acked
           \/ /\ msg.type = ACK
              /\ acked' = acked \cup {[from |-> p.from, ack |-> m] : m \in msg.fields}
    BY DEF SenderRead
  <1>2. /\ p \in Packets /\ Tail(inbox) \in Seq(Packets)
        /\ \A q \in StrayPackets : q.from \notin Receivers
    BY <1>1, PacketKinds DEF IInv
  <1> HIDE DEF msg, p
  <1>3. TypeOK'
    BY <1>1, <1>2 DEF IInv, TypeOK, Packets
  <1>4. Genuine'
    BY <1>1 DEF IInv, Genuine, IsConfigOf, IsAckOf
  <1>5. ToPeer'
    BY <1>1 DEF IInv, ToPeer
  <1>6. AcksEcho'
    <2>1. SUFFICES ASSUME NEW a \in acked', a.from \in Receivers
                   PROVE  \E d \in datagrams :
                            /\ d.to = a.from
                            /\ d.datagram.frame_id = a.ack.frame_id
                            /\ d.datagram.frag_id = a.ack.frag_id
                            /\ d.datagram.send_ts = a.ack.send_ts
      BY <1>1 DEF AcksEcho
    <2>2. CASE a \in acked
      BY <2>1, <2>2 DEF IInv, AcksEcho
    <2>3. CASE a \notin acked
      <3>1. msg.type = ACK
        BY <1>1, <2>3
      <3>2. PICK m \in msg.fields : a = [from |-> p.from, ack |-> m]
        BY <1>1, <2>1, <2>3
      <3>3. p \in sent
        BY <1>2, <2>1, <3>2 DEF Packets
      <3>4. PICK d \in datagrams : d.to = p.from /\ msg.fields = {AckOf(d.datagram)}
        BY <3>1, <3>3, ParsedFacts DEF msg
      <3>5. a.from = p.from /\ a.ack = AckOf(d.datagram)
        BY <3>2, <3>4
      <3> QED
        BY <3>4, <3>5 DEF AckOf
    <2> QED
      BY <2>2, <2>3
  <1>7. (NoStrayConfig => Agreed)'
    BY <1>1 DEF IInv, Agreed, NoStrayConfig
  <1> QED
    BY <1>3, <1>4, <1>5, <1>6, <1>7 DEF IInv

(* A receiver that has not started has sent nothing, and nobody calls it. *)
LEMMA ReceiverStartInv ==
  ASSUME IInv, NEW r \in Receivers, ReceiverStart(r)
  PROVE  IInv'
  <1>1. PICK c \in Configs :
          /\ asked' = [asked EXCEPT ![r] = {c}]
          /\ sent' = sent \cup {Packet(r, SerializeConfig(c))}
    BY DEF ReceiverStart
  <1>2. /\ recv_pc[r] = "off"
        /\ recv_pc' = [recv_pc EXCEPT ![r] = "waiting"]
        /\ UNCHANGED <<sender_pc, peer, config, inbox, datagrams, acked>>
    BY DEF ReceiverStart, senderVars
  <1>3. /\ asked \in [Receivers -> SUBSET Configs]
        /\ recv_pc \in [Receivers -> {"off", "waiting", "call", "ended"}]
        /\ inbox \in Seq(Packets)
    BY DEF IInv, TypeOK
  <1>4. /\ asked'[r] = {c} /\ recv_pc'[r] = "waiting"
        /\ \A x \in Receivers \ {r} : asked'[x] = asked[x] /\ recv_pc'[x] = recv_pc[x]
    BY <1>1, <1>2, <1>3
  <1>5. TypeOK'
    <2>1. inbox \in Seq(Packets')
      <3>1. Packets \subseteq Packets'
        BY <1>1 DEF Packets
      <3> HIDE DEF Packets
      <3> QED
        BY <1>3, <3>1
    <2> QED
      BY <1>1, <1>2, <1>3, <2>1 DEF IInv, TypeOK
  <1>6. Genuine'
    <2>1. SUFFICES ASSUME NEW p \in sent'
                   PROVE  /\ p.from \in Receivers
                          /\ recv_pc'[p.from] # "off"
                          /\ \/ \E e \in Configs : /\ p.data = SerializeConfig(e)
                                                   /\ asked'[p.from] = {e}
                             \/ \E d \in datagrams : /\ d.to = p.from
                                                     /\ p.data = SerializeAck(d.datagram)
      BY <1>2 DEF Genuine, IsConfigOf, IsAckOf
    <2>2. CASE p \in sent
      BY <1>2, <1>4, <2>2 DEF IInv, Genuine, IsConfigOf, IsAckOf
    <2>3. CASE p = Packet(r, SerializeConfig(c))
      <3>1. p.from = r /\ p.data = SerializeConfig(c)
        BY <2>3 DEF Packet
      <3> QED
        BY <1>4, <3>1
    <2> QED
      BY <1>1, <2>2, <2>3
  <1>7. ToPeer'
    BY <1>2, <1>4 DEF IInv, ToPeer
  <1>8. AcksEcho'
    BY <1>2 DEF IInv, AcksEcho
  <1>9. (NoStrayConfig => Agreed)'
    BY <1>2, <1>4 DEF IInv, Agreed, NoStrayConfig
  <1> QED
    BY <1>5, <1>6, <1>7, <1>8, <1>9 DEF IInv

(* A receiver parses what it is sent and answers with the ACK of it. *)
LEMMA ReceiverAckInv ==
  ASSUME IInv, NEW r \in Receivers, ReceiverAck(r)
  PROVE  IInv'
  <1>1. PICK d \in datagrams :
          /\ d.to = r
          /\ LET parsed == ParseDatagram(SerializeDatagram(d.datagram))
             IN /\ sent' = sent \cup {Packet(r, SerializeAck(w)) : w \in parsed}
                /\ recv_pc' = [recv_pc EXCEPT ![r] = IF parsed = {} THEN "ended"
                                                     ELSE "call"]
    BY DEF ReceiverAck
  <1>2. ParseDatagram(SerializeDatagram(d.datagram)) = {d.datagram}
    <2>1. d.datagram \in WireDatagram
      BY SessionAssumption DEF WireDatagram, IInv, ToPeer
    <2> QED
      BY <2>1, DatagramRoundTrip
  <1>3. /\ sent' = sent \cup {Packet(r, SerializeAck(d.datagram))}
        /\ recv_pc' = [recv_pc EXCEPT ![r] = "call"]
    BY <1>1, <1>2
  <1>4. /\ recv_pc[r] # "off"
        /\ UNCHANGED <<sender_pc, peer, config, inbox, datagrams, acked, asked>>
    BY DEF ReceiverAck, senderVars
  <1>5. /\ recv_pc \in [Receivers -> {"off", "waiting", "call", "ended"}]
        /\ inbox \in Seq(Packets)
    BY DEF IInv, TypeOK
  <1>6. /\ recv_pc'[r] = "call"
        /\ \A x \in Receivers \ {r} : recv_pc'[x] = recv_pc[x]
    BY <1>3, <1>5
  <1>7. TypeOK'
    <2>1. inbox \in Seq(Packets')
      <3>1. Packets \subseteq Packets'
        BY <1>3 DEF Packets
      <3> HIDE DEF Packets
      <3> QED
        BY <1>5, <3>1
    <2> QED
      BY <1>3, <1>4, <1>5, <2>1 DEF IInv, TypeOK
  <1>8. Genuine'
    <2>1. SUFFICES ASSUME NEW p \in sent'
                   PROVE  /\ p.from \in Receivers
                          /\ recv_pc'[p.from] # "off"
                          /\ \/ \E e \in Configs : /\ p.data = SerializeConfig(e)
                                                   /\ asked[p.from] = {e}
                             \/ \E x \in datagrams : /\ x.to = p.from
                                                     /\ p.data = SerializeAck(x.datagram)
      BY <1>4 DEF Genuine, IsConfigOf, IsAckOf
    <2>2. CASE p \in sent
      BY <1>6, <2>2 DEF IInv, Genuine, IsConfigOf, IsAckOf
    <2>3. CASE p = Packet(r, SerializeAck(d.datagram))
      <3>1. p.from = r /\ p.data = SerializeAck(d.datagram)
        BY <2>3 DEF Packet
      <3> QED
        BY <1>1, <1>6, <3>1
    <2> QED
      BY <1>3, <2>2, <2>3
  <1>9. ToPeer'
    BY <1>1, <1>4, <1>6 DEF IInv, ToPeer
  <1>10. AcksEcho'
    BY <1>4 DEF IInv, AcksEcho
  <1>11. (NoStrayConfig => Agreed)'
    BY <1>4, <1>6 DEF IInv, Agreed, NoStrayConfig
  <1> QED
    BY <1>7, <1>8, <1>9, <1>10, <1>11 DEF IInv

LEMMA NetworkInv ==
  ASSUME IInv, NEW p \in Packets, Arrive(p) \/ Refuse(p)
  PROVE  IInv'
  <1>1. CASE Arrive(p)
    <2>1. /\ inbox' = Append(inbox, p)
          /\ UNCHANGED <<sender_pc, peer, config, datagrams, acked, sent, asked,
                         recv_pc>>
      BY <1>1 DEF Arrive
    <2>2. inbox \in Seq(Packets)
      BY DEF IInv, TypeOK
    <2>3. Append(inbox, p) \in Seq(Packets)
      <3> HIDE DEF Packets
      <3> QED
        BY <2>2
    <2>4. TypeOK'
      BY <2>1, <2>3 DEF IInv, TypeOK, Packets
    <2>5. Genuine'
      BY <2>1 DEF IInv, Genuine, IsConfigOf, IsAckOf
    <2>6. ToPeer' /\ AcksEcho' /\ (NoStrayConfig => Agreed)'
      BY <2>1 DEF IInv, ToPeer, AcksEcho, Agreed, NoStrayConfig
    <2> QED
      BY <2>4, <2>5, <2>6 DEF IInv
  <1>2. CASE Refuse(p)
    <2>1. /\ p.from \in Receivers
          /\ recv_pc' = [recv_pc EXCEPT ![p.from] = "ended"]
          /\ UNCHANGED <<sender_pc, peer, config, inbox, datagrams, acked, sent,
                         asked>>
      BY <1>2 DEF Refuse, senderVars
    <2>2. recv_pc \in [Receivers -> {"off", "waiting", "call", "ended"}]
      BY DEF IInv, TypeOK
    <2>3. /\ recv_pc'[p.from] = "ended"
          /\ \A x \in Receivers \ {p.from} : recv_pc'[x] = recv_pc[x]
      BY <2>1, <2>2
    <2>4. TypeOK'
      BY <2>1, <2>2 DEF IInv, TypeOK, Packets
    <2>5. Genuine'
      BY <2>1, <2>3 DEF IInv, Genuine, IsConfigOf, IsAckOf
    <2>6. ToPeer' /\ AcksEcho'
      BY <2>1, <2>3 DEF IInv, ToPeer, AcksEcho
    <2>7. (NoStrayConfig => Agreed)'
      BY <2>1, <2>3 DEF IInv, Agreed, NoStrayConfig
    <2> QED
      BY <2>4, <2>5, <2>6, <2>7 DEF IInv
  <1> QED
    BY <1>1, <1>2

LEMMA InvInductive == IInv /\ [Next]_vars => IInv'
  <1> SUFFICES ASSUME IInv, [Next]_vars PROVE IInv'
    OBVIOUS
  <1>1. CASE SenderBind
    BY <1>1, MovesOn DEF SenderBind
  <1>2. CASE RecvConfig
    BY <1>2, RecvConfigInv
  <1>3. CASE SenderConnect
    BY <1>3, MovesOn DEF SenderConnect
  <1>4. CASE SenderSetUp
    BY <1>4, MovesOn DEF SenderSetUp
  <1>5. CASE SenderSend
    BY <1>5, SenderSendInv
  <1>6. CASE SenderRead
    BY <1>6, SenderReadInv
  <1>7. CASE SenderRefused
    BY <1>7, MovesOn DEF SenderRefused
  <1>8. ASSUME NEW r \in Receivers, ReceiverStart(r) \/ ReceiverAck(r) PROVE IInv'
    BY <1>8, ReceiverStartInv, ReceiverAckInv
  <1>9. ASSUME NEW p \in sent \cup StrayPackets, Arrive(p) \/ Refuse(p) PROVE IInv'
    BY <1>9, NetworkInv DEF Packets
  <1>10. CASE UNCHANGED vars
    BY <1>10 DEF vars, senderVars, IInv, TypeOK, Packets, Genuine, IsConfigOf,
                 IsAckOf, ToPeer, AcksEcho, Agreed, NoStrayConfig
  <1> QED
    BY <1>1, <1>2, <1>3, <1>4, <1>5, <1>6, <1>7, <1>8, <1>9, <1>10
       DEF Next, SenderStep

LEMMA Invariance == Spec => []IInv
  BY InitInv, InvInductive, PTL DEF Spec

(* recv_config_msg takes the address of the very packet it has parsed, and *)
(* the sender connects to it: whoever else asks, and whatever other hosts  *)
(* send, only the peer gets datagrams and takes part in the call.          *)
THEOREM PeerOnly == Spec => []OnlyPeerServed
  <1>1. IInv => OnlyPeerServed
    BY DEF IInv, ToPeer, OnlyPeerServed
  <1> QED
    BY <1>1, Invariance, PTL

(* An ACK that the sender reads from a receiver names a datagram sent to   *)
(* it, with its sequence number and its send time, after both have been    *)
(* through serialize_to_string and parse_from_string; packets lost,        *)
(* repeated or reordered change nothing.                                   *)
THEOREM AcksAreEchoes == Spec => []AcksEcho
  <1>1. IInv => AcksEcho
    BY DEF IInv
  <1> QED
    BY <1>1, Invariance, PTL

(* When the only hosts that send whole ConfigMsgs are receivers, the       *)
(* sender sets up the call with the configuration the user of its peer     *)
(* asked for, however the ConfigMsgs of several are mixed in its buffer.   *)
THEOREM ConfigAgreed ==
  ASSUME NoStrayConfig
  PROVE  Spec => []AgreedConfig
  <1>1. IInv => AgreedConfig
    BY DEF IInv, Agreed, AgreedConfig
  <1> QED
    BY <1>1, Invariance, PTL

(* Messages that Msg::parse_from_string takes or gives nullptr for. *)
StraysParse == \A s \in StrayMsgs :
                 ParseMsg(s).thrown = FALSE /\ ParseMsg(s).type # CONFIG

LEMMA NothingThrows ==
  ASSUME IInv, StraysParse, inbox # <<>>
  PROVE  ParseMsg(Head(inbox).data).thrown = FALSE
  <1> DEFINE p == Head(inbox)
  <1>1. /\ p \in sent \cup StrayPackets
        /\ \A q \in StrayPackets : q.data \in StrayMsgs
    BY PacketKinds DEF IInv, Packets
  <1> HIDE DEF p
  <1>2. CASE p \in sent
    BY <1>2, ParsedFacts DEF p
  <1>3. CASE p \in StrayPackets
    BY <1>1, <1>3 DEF StraysParse, p
  <1> QED
    BY <1>1, <1>2, <1>3

(* Once the peer has ended, it does not come back. *)
LEMMA ReasonStays ==
  ASSUME IInv, InvalidIgnored, sender_pc' = sender_pc, peer' = peer,
         config' = config, \A r \in Receivers : recv_pc[r] = "ended"
                                                  => recv_pc'[r] = "ended"
  PROVE  InvalidIgnored'
  BY DEF InvalidIgnored

LEMMA ReasonInductive ==
  ASSUME StraysParse, IInv, InvalidIgnored, [Next]_vars
  PROVE  InvalidIgnored'
  <1>1. recv_pc \in [Receivers -> {"off", "waiting", "call", "ended"}]
    BY DEF IInv, TypeOK
  <1>2. CASE SenderBind \/ SenderConnect
    BY <1>2 DEF SenderBind, SenderConnect, InvalidIgnored
  <1>3. CASE RecvConfig
    <2>1. sender_pc' # "ended"
      BY <1>3, NothingThrows DEF RecvConfig
    <2> QED
      BY <2>1 DEF InvalidIgnored
  <1>4. CASE SenderSetUp
    BY <1>4 DEF SenderSetUp, InvalidIgnored
  <1>5. CASE SenderSend
    BY <1>5 DEF SenderSend, InvalidIgnored
  <1>6. CASE SenderRead
    <2>1. sender_pc' # "ended"
      BY <1>6, NothingThrows DEF SenderRead
    <2> QED
      BY <2>1 DEF InvalidIgnored
  <1>7. CASE SenderRefused
    <2>1. PICK d \in datagrams : recv_pc[d.to] = "ended"
      BY <1>7 DEF SenderRefused
    <2>2. d.to = peer
      BY DEF IInv, ToPeer
    <2>3. NoStrayConfig
      BY DEF StraysParse, NoStrayConfig
    <2>4. peer \in Receivers
      BY <1>7, <2>3 DEF SenderRefused, IInv, Agreed
    <2>5. peer' = peer /\ recv_pc' = recv_pc
      BY <1>7 DEF SenderRefused
    <2> QED
      BY <2>1, <2>2, <2>4, <2>5 DEF InvalidIgnored
  <1>8. ASSUME NEW r \in Receivers, ReceiverStart(r) \/ ReceiverAck(r)
        PROVE  InvalidIgnored'
    <2>1. recv_pc[r] # "ended"
      BY <1>8 DEF ReceiverStart, ReceiverAck
    <2>2. \A x \in Receivers \ {r} : recv_pc'[x] = recv_pc[x]
      BY <1>1, <1>8 DEF ReceiverStart, ReceiverAck
    <2>3. sender_pc' = sender_pc /\ peer' = peer /\ config' = config
      BY <1>8 DEF ReceiverStart, ReceiverAck, senderVars
    <2> QED
      BY <2>1, <2>2, <2>3, ReasonStays
  <1>9. ASSUME NEW p \in sent \cup StrayPackets, Arrive(p) \/ Refuse(p)
        PROVE  InvalidIgnored'
    <2>1. sender_pc' = sender_pc /\ peer' = peer /\ config' = config
      BY <1>9 DEF Arrive, Refuse, senderVars
    <2>2. \A r \in Receivers : recv_pc[r] = "ended" => recv_pc'[r] = "ended"
      BY <1>1, <1>9 DEF Arrive, Refuse
    <2> QED
      BY <2>1, <2>2, ReasonStays
  <1>10. CASE UNCHANGED vars
    BY <1>10, ReasonStays DEF vars, senderVars
  <1> QED
    BY <1>2, <1>3, <1>4, <1>5, <1>6, <1>7, <1>8, <1>9, <1>10
       DEF Next, SenderStep

(* "ignore invalid or non-config messages" (video_sender.cc) is false only *)
(* because parse_from_string throws for a message of a known type that is  *)
(* too short: if no other host sends one, and none sends a whole           *)
(* ConfigMsg, no message ends the sender, neither an invalid one nor one   *)
(* of a receiver that came too late or again.                              *)
THEOREM OnlyShortMessagesHarm ==
  ASSUME StraysParse
  PROVE  Spec => []InvalidIgnored
  <1>1. Init => InvalidIgnored
    BY DEF Init, InvalidIgnored
  <1>2. IInv /\ InvalidIgnored /\ [Next]_vars => InvalidIgnored'
    BY ReasonInductive
  <1> QED
    BY <1>1, <1>2, Invariance, PTL DEF Spec
=============================================================================
