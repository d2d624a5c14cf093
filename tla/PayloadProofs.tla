---------------------------- MODULE PayloadProofs ----------------------------
(***************************************************************************)
(* Theorems about Payload: what GetStr writes never passes what it reads,  *)
(* a picture comes back through base64 and the element's text, for all     *)
(* pictures and texts.                                                     *)
(***************************************************************************)
EXTENDS Payload, SequenceTheorems, WellFoundedInduction, TLAPS

-----------------------------------------------------------------------------
(* Numbers: sets of them have a smallest element, bounded ones a largest,   *)
(* and what holds at 0 and is handed on holds everywhere.                   *)
LEMMA Less == IsWellFoundedOn({ss \in Nat \X Nat : ss[1] < ss[2]}, Nat)
  BY NatLessThanWellFounded DEF OpToRel

LEMMA HasLeast ==
  ASSUME NEW T \in SUBSET Nat, T # {}
  PROVE  \E x \in T : \A y \in T : x <= y
<1> DEFINE R == {ss \in Nat \X Nat : ss[1] < ss[2]}
<1>1. \E x \in T : \A y \in T : ~ (<<y, x>> \in R)
  BY Less, WFMin
<1>2. \A x, y \in Nat : ~ (<<y, x>> \in R) => x <= y
  OBVIOUS
<1> QED
  BY <1>1, <1>2

LEMMA MinIs ==
  ASSUME NEW T \in SUBSET Nat, T # {}
  PROVE  Min(T) \in T /\ \A y \in T : Min(T) <= y
<1>1. \E x \in T : \A y \in T : x <= y
  BY HasLeast
<1> QED
  BY <1>1 DEF Min

LEMMA MaxIs ==
  ASSUME NEW n \in Nat, NEW T \in SUBSET (0..n), T # {}
  PROVE  Max(T) \in T /\ \A y \in T : Max(T) >= y
<1> DEFINE D == {m \in 0..n : n - m \in T}
<1>1. \A x \in T : x \in Int /\ n - x \in D
  OBVIOUS
<1>2. \A m \in D : m \in Nat /\ n - m \in T
  OBVIOUS
<1> HIDE DEF D
<1>3. PICK d \in D : \A e \in D : d <= e
  <2>1. D \in SUBSET Nat /\ D # {}
    BY <1>1, <1>2
  <2> QED BY <2>1, HasLeast
<1>4. \A y \in T : n - d >= y
  BY <1>1, <1>2, <1>3
<1>5. n - d \in T
  BY <1>2, <1>3
<1> QED
  BY <1>4, <1>5 DEF Max

LEMMA Induction ==
  ASSUME NEW n \in Nat, NEW T, 0 \in T, \A i \in 1..n : i - 1 \in T => i \in T
  PROVE  0..n \subseteq T
<1> DEFINE D == (0..n) \ T
<1>1. CASE D = {}
  BY <1>1
<1>2. CASE D # {}
  <2>0. D \in SUBSET Nat
    OBVIOUS
  <2>1. PICK x \in D : \A y \in D : x <= y
    <3> HIDE DEF D
    <3> QED BY <2>0, <1>2, HasLeast
  <2>2. x \in 1..n /\ x - 1 \in 0..n /\ x - 1 \notin D
    BY <2>1
  <2> QED
    BY <2>1, <2>2
<1> QED
  BY <1>1, <1>2

-----------------------------------------------------------------------------
(* FlattenSeq, by what it has made of every prefix.                         *)
Flattening(s, n, P) ==
  /\ P[0] = <<>>
  /\ \A i \in 1..n : P[i] = P[i - 1] \o s[i]

LEMMA FlattenIs ==
  ASSUME NEW S, NEW s \in Seq(Seq(S)), NEW P, Flattening(s, Len(s), P)
  PROVE  FlattenSeq(s) = P[Len(s)]
<1> DEFINE n == Len(s)
           Def(f) == [i \in 1..Len(s) |-> IF i = 1 THEN s[i] ELSE f[i - 1] \o s[i]]
           flatten == CHOOSE f : f = Def(f)
<1>0. n \in Nat /\ \A i \in 1..n : s[i] \in Seq(S)
  BY LenProperties, ElementOfSeq
<1>1. CASE n = 0
  <2>1. s = <<>>
    BY <1>1, EmptySeq
  <2> QED BY <1>1, <2>1 DEF FlattenSeq, Flattening
<1>2. CASE n # 0
  <2>0. FlattenSeq(s) = flatten[n]
    BY <1>2 DEF FlattenSeq
  <2>1. ASSUME 1 \in 1..n PROVE P[1] = s[1]
    <3>1. P[1] = P[0] \o s[1] /\ P[0] = <<>>
      <4>1. 1 - 1 = 0
        OBVIOUS
      <4> QED BY <2>1, <4>1 DEF Flattening
    <3> QED BY <1>0, <2>1, <3>1, ConcatEmptySeq
  <2>2. \A i \in 1..n : P[i] = IF i = 1 THEN s[i] ELSE P[i - 1] \o s[i]
    BY <2>1 DEF Flattening
  <2>3. [i \in 1..n |-> P[i]] = Def([i \in 1..n |-> P[i]])
    <3>1. \A i \in 1..n : i # 1 => i - 1 \in 1..n
      BY <1>0
    <3> HIDE DEF n
    <3>2. [i \in 1..n |-> P[i]] = [i \in 1..n |-> IF i = 1 THEN s[i] ELSE [k \in 1..n |-> P[k]][i - 1] \o s[i]]
      BY <2>2, <3>1
    <3> QED BY <3>2 DEF n
  <2>4. flatten = Def(flatten)
    BY <2>3
  <2> HIDE DEF flatten
  <2>5. \A i \in 1..n : flatten[i] = IF i = 1 THEN s[i] ELSE flatten[i - 1] \o s[i]
    BY <2>4
  <2> HIDE DEF n
  <2> DEFINE T == {i \in 0..n : i = 0 \/ flatten[i] = P[i]}
  <2>6. \A i \in 1..n : i - 1 \in T => i \in T
    BY <1>0, <2>2, <2>5
  <2>7. 0 \in T
    BY <1>0
  <2>8. n \in T
    <3> HIDE DEF T
    <3>1. 0..n \subseteq T
      BY <1>0, <2>6, <2>7, Induction
    <3> QED BY <1>0, <3>1
  <2> QED BY <1>2, <2>0, <2>8 DEF n
<1> QED BY <1>1, <1>2

(* Every sequence of sequences has such prefixes. *)
LEMMA FlatteningExists ==
  ASSUME NEW S, NEW s, NEW n \in Nat, \A i \in 1..n : s[i] \in Seq(S)
  PROVE  \E P : Flattening(s, n, P) /\ \A i \in 0..n : P[i] \in Seq(S)
<1> DEFINE Good(m, P) == Flattening(s, m, P) /\ \A i \in 0..m : P[i] \in Seq(S)
           T == {m \in 0..n : \E P : Good(m, P)}
<1>1. 0 \in T
  <2>1. Good(0, [i \in 0..0 |-> <<>>])
    BY DEF Flattening
  <2> QED BY <2>1
<1>2. ASSUME NEW m \in 1..n, m - 1 \in T PROVE m \in T
  <2>1. PICK P : Good(m - 1, P)
    BY <1>2
  <2>2. m - 1 \in 0..m-1 /\ P[m - 1] \in Seq(S) /\ P[m - 1] \o s[m] \in Seq(S)
    <3>1. m - 1 \in 0..m-1 /\ P[m - 1] \in Seq(S)
      BY <2>1
    <3> QED BY <3>1, ConcatProperties
  <2>3. PICK Q : Q = [i \in 0..m |-> IF i = m THEN P[m - 1] \o s[m] ELSE P[i]]
    OBVIOUS
  <2>4. Q[m] = P[m - 1] \o s[m] /\ \A i \in 0..m-1 : Q[i] = P[i]
    <3>1. m \in 0..m /\ \A i \in 0..m-1 : i \in 0..m /\ i # m
      OBVIOUS
    <3> QED BY <2>3, <3>1, Zenon
  <2>5. Flattening(s, m, Q)
    <3>1. \A i \in 1..m : i - 1 \in 0..m-1 /\ (i # m => i \in 0..m-1 /\ i \in 1..m-1)
      OBVIOUS
    <3>2. 0 \in 0..m-1
      OBVIOUS
    <3> QED BY <2>1, <2>4, <3>1, <3>2 DEF Flattening
  <2>6. Good(m, Q)
    <3>1. \A i \in 0..m : i = m \/ i \in 0..m-1
      OBVIOUS
    <3> QED BY <2>1, <2>2, <2>4, <2>5, <3>1
  <2> QED BY <2>6
<1>3. n \in T
  <2> HIDE DEF T
  <2>1. 0..n \subseteq T
    BY <1>1, <1>2, Induction
  <2> QED BY <2>1
<1> QED BY <1>3

LEMMA FlattenType ==
  ASSUME NEW S, NEW s \in Seq(Seq(S))
  PROVE  FlattenSeq(s) \in Seq(S)
<1>1. Len(s) \in Nat /\ \A i \in 1..Len(s) : s[i] \in Seq(S)
  BY LenProperties, ElementOfSeq
<1>2. PICK P : Flattening(s, Len(s), P) /\ \A i \in 0..Len(s) : P[i] \in Seq(S)
  BY <1>1, FlatteningExists
<1>3. Len(s) \in 0..Len(s)
  BY <1>1
<1> QED BY <1>2, <1>3, FlattenIs

-----------------------------------------------------------------------------
(* The buffer: a zero ends the text, what is written lies before what is    *)
(* read.                                                                    *)
BufferInv ==
  /\ Len(mem) \in Nat /\ mem \in [1..Len(mem) -> Byte]
  /\ end \in 1..Len(mem) /\ mem[end] = NUL
  /\ p \in 1..end /\ q \in 1..p

LEMMA LenOfFunction ==
  ASSUME NEW n \in Nat, NEW f, f = [k \in 1..n |-> f[k]]
  PROVE  Len(f) = n
OBVIOUS

LEMMA Bytes == \A b : b \in Byte <=> b \in Int /\ 0 <= b /\ b < 256
  BY DEF Byte

LEMMA TypeOfUTF8 ==
  ASSUME NEW u \in Nat
  PROVE  /\ ConvertUTF32ToUTF8(u) \in Seq(Byte)
         /\ Len(ConvertUTF32ToUTF8(u)) \in 0..4
         /\ u = 0 => Len(ConvertUTF32ToUTF8(u)) = 1
<1>1. Low(u, 0) \in Byte /\ Low(u, 1) \in Byte /\ Low(u, 2) \in Byte
  <2>1. \A n \in Int : 128 + (n % 64) \in Byte
    BY Bytes
  <2>2. u \div 64^0 \in Int /\ u \div 64^1 \in Int /\ u \div 64^2 \in Int
    OBVIOUS
  <2> QED BY <2>1, <2>2, Zenon DEF Low
<1>2. PICK v : v = ConvertUTF32ToUTF8(u)
  OBVIOUS
<1>3. \/ u < 128 /\ v = <<u>>
      \/ u >= 128 /\ u < 2048 /\ v = <<192 + u \div 64, Low(u, 0)>>
      \/ u >= 2048 /\ u < 65536 /\ v = <<224 + u \div 64^2, Low(u, 1), Low(u, 0)>>
      \/ u >= 65536 /\ u < 2097152 /\ v = <<240 + u \div 64^3, Low(u, 2), Low(u, 1), Low(u, 0)>>
      \/ u >= 2097152 /\ v = <<>>
  BY <1>2 DEF ConvertUTF32ToUTF8, FourBytes
<1>4. /\ u < 128 => u \in Byte
      /\ u >= 128 /\ u < 2048 => 192 + u \div 64 \in Byte
      /\ u >= 2048 /\ u < 65536 => 224 + u \div 64^2 \in Byte
      /\ u >= 65536 /\ u < 2097152 => 240 + u \div 64^3 \in Byte
  BY Bytes
<1>5. PICK a, b, c, d :
        /\ a \in Byte /\ b \in Byte /\ c \in Byte /\ d \in Byte
        /\ \/ v = <<a>>
           \/ u # 0 /\ (v = <<a, b>> \/ v = <<a, b, c>> \/ v = <<a, b, c, d>> \/ v = <<>>)
  <2>1. CASE u < 128
    BY <1>3, <1>4, <2>1
  <2>2. CASE u >= 128 /\ u < 2048
    BY <1>1, <1>3, <1>4, <2>2
  <2>3. CASE u >= 2048 /\ u < 65536
    BY <1>1, <1>3, <1>4, <2>3
  <2>4. CASE u >= 65536 /\ u < 2097152
    BY <1>1, <1>3, <1>4, <2>4
  <2>5. CASE u >= 2097152
    BY <1>1, <1>3, <2>5
  <2> QED BY <2>1, <2>2, <2>3, <2>4, <2>5
<1>6. v \in Seq(Byte) /\ Len(v) \in 0..4 /\ (u = 0 => Len(v) = 1)
  <2>1. CASE v = <<a>>
    BY <1>5, <2>1
  <2>2. CASE u # 0 /\ v = <<a, b>>
    BY <1>5, <2>2
  <2>3. CASE u # 0 /\ v = <<a, b, c>>
    BY <1>5, <2>3
  <2>4. CASE u # 0 /\ v = <<a, b, c, d>>
    <3>1. a \in Byte /\ b \in Byte /\ c \in Byte /\ d \in Byte
      BY <1>5
    <3>2. <<a, b, c, d>> \in Seq(Byte) /\ Len(<<a, b, c, d>>) = 4
      BY <3>1
    <3> QED BY <2>4, <3>2
  <2>5. CASE u # 0 /\ v = <<>>
    BY <2>5
  <2> QED BY <1>5, <2>1, <2>2, <2>3, <2>4, <2>5
<1> QED BY <1>2, <1>6

(* The number of a reference. *)
LEMMA NumberType ==
  ASSUME NEW base \in Nat, NEW n \in Nat, NEW d \in [1..n -> Nat], Len(d) = n
  PROVE  Number(d, base) \in Nat /\ (n = 0 => Number(d, base) = 0)
<1> DEFINE Def(f, m) == [k \in 0..m |-> IF k = 0 THEN 0 ELSE (base * f[k - 1] + d[k]) % UnsignedLimit]
           T == {m \in 0..n : \E f : f = Def(f, m)}
           upTo == CHOOSE f : f = Def(f, n)
           N == {m \in 0..n : upTo[m] \in Nat}
<1>1. 0 \in T
  <2>1. [k \in 0..0 |-> 0] = Def([k \in 0..0 |-> 0], 0)
    OBVIOUS
  <2>2. \E f : f = Def(f, 0)
    BY <2>1
  <2> QED BY <2>2
<1>2. ASSUME NEW m \in 1..n, m - 1 \in T PROVE m \in T
  <2>1. PICK f : f = Def(f, m - 1)
    BY <1>2
  <2>2. PICK g : g = [k \in 0..m |-> IF k = m THEN (base * f[m - 1] + d[m]) % UnsignedLimit ELSE f[k]]
    OBVIOUS
  <2>3. \A k \in 0..m-1 : k \in 0..m /\ k # m /\ (k # 0 => k - 1 \in 0..m-1) /\ (k = 0 \/ k \in 1..n)
    OBVIOUS
  <2>4. \A k \in 0..m : k \in 0..m-1 \/ k = m
    OBVIOUS
  <2>5. \A k \in 0..m-1 : f[k] = IF k = 0 THEN 0 ELSE (base * f[k - 1] + d[k]) % UnsignedLimit
    BY <2>1
  <2>6. m \in 0..m /\ m - 1 \in 0..m-1 /\ m # 0
    OBVIOUS
  <2>7. g[m] = (base * f[m - 1] + d[m]) % UnsignedLimit /\ \A k \in 0..m-1 : g[k] = f[k]
    BY <2>2, <2>3, <2>6
  <2>8. \A k \in 0..m : g[k] = IF k = 0 THEN 0 ELSE (base * g[k - 1] + d[k]) % UnsignedLimit
    BY <2>3, <2>4, <2>5, <2>6, <2>7
  <2>9. g = Def(g, m)
    BY <2>2, <2>8
  <2> HIDE DEF Def
  <2>10. m \in 0..n /\ \E h : h = Def(h, m)
    BY <2>6, <2>9
  <2> QED BY <2>10
<1>3. n \in T
  <2> HIDE DEF T
  <2>1. 0..n \subseteq T
    BY <1>1, <1>2, Induction
  <2> QED BY <2>1
<1>4. upTo = Def(upTo, n)
  BY <1>3
<1>5. Number(d, base) = upTo[n]
  BY DEF Number
<1> HIDE DEF upTo
<1>6. \A k \in 0..n : upTo[k] = IF k = 0 THEN 0 ELSE (base * upTo[k - 1] + d[k]) % UnsignedLimit
  BY <1>4
<1>7. 0 \in N
  BY <1>6
<1>8. ASSUME NEW m \in 1..n, m - 1 \in N PROVE m \in N
  <2>1. upTo[m - 1] \in Nat /\ d[m] \in Nat /\ m \in 0..n /\ m # 0
    BY <1>8
  <2>2. upTo[m] = (base * upTo[m - 1] + d[m]) % UnsignedLimit
    BY <1>6, <2>1
  <2>3. \A a, b, c \in Nat : a * b + c \in Nat
    OBVIOUS
  <2>5. \A a \in Nat : a % UnsignedLimit \in Nat
    BY UnsignedAssumption
  <2>4. upTo[m] \in Nat
    <3>1. PICK a \in Nat, c \in Nat : a = upTo[m - 1] /\ c = d[m]
      BY <2>1
    <3>2. upTo[m] = (base * a + c) % UnsignedLimit
      BY <2>2, <3>1
    <3>3. base * a + c \in Nat
      BY <2>3
    <3> QED BY <2>5, <3>2, <3>3
  <2> QED BY <2>1, <2>4
<1>9. n \in N
  <2> HIDE DEF N
  <2>1. 0..n \subseteq N
    BY <1>7, <1>8, Induction
  <2> QED BY <2>1
<1> QED BY <1>5, <1>6, <1>9

(* A character reference is longer than what it stands for, and ends before *)
(* the zero.                                                                *)
LEMMA ReferenceFits ==
  ASSUME BufferInv, Reading, mem[p] = AMP, mem[p + 1] = HASH, GetCharacterRef.next # 0
  PROVE  /\ GetCharacterRef.next \in p + 1 .. end
         /\ GetCharacterRef.value \in Seq(Byte)
         /\ Len(GetCharacterRef.value) <= GetCharacterRef.next - p
<1> DEFINE hex    == mem[p + 2] = X
           base   == IF hex THEN 16 ELSE 10
           stops  == Positions(SEMICOLON, IF hex THEN p + 3 ELSE p + 2)
           stop   == Min({k \in stops : k < end})
           marks  == {k \in p + 1 .. stop - 1 : mem[k] = IF hex THEN X ELSE HASH}
           marker == Max(marks)
           digits == [k \in 1 .. stop - marker - 1 |-> DigitOf(mem[marker + k], base)]
           ref    == [next |-> stop + 1, value |-> ConvertUTF32ToUTF8(Number(digits, base))]
<1>0. /\ p \in Nat /\ end \in Nat /\ Len(mem) \in Nat /\ p + 1 < end /\ end <= Len(mem)
      /\ mem[end] = NUL /\ \A k \in 1..Len(mem) : mem[k] \in Int
  BY Bytes DEF BufferInv, Reading, NUL, HASH
<1>1. CASE mem[p + 2] = NUL
  <2>1. GetCharacterRef = [next |-> p + 1, value |-> <<>>]
    BY <1>1 DEF GetCharacterRef
  <2> QED BY <1>0, <2>1
<1>2. CASE mem[p + 2] # NUL
  <2>1. GetCharacterRef = IF \A k \in stops : k > end THEN NoReference
                          ELSE IF \E k \in DOMAIN digits : digits[k] = -1 THEN NoReference
                          ELSE ref
    BY <1>2 DEF GetCharacterRef
  <2>2. PICK E : E = {k \in stops : k < end}
    OBVIOUS
  <2> HIDE DEF stop, marks, marker, digits, ref
  <2>3. /\ ~ \A k \in stops : k > end
        /\ ~ \E k \in DOMAIN digits : digits[k] = -1
        /\ GetCharacterRef = ref
    BY <2>1 DEF NoReference
  <2>4. E # {} /\ \A k \in E : k \in Nat /\ k >= p + 2 /\ k < end /\ (hex => k >= p + 3)
    BY <2>2, <2>3, <1>0 DEF Positions, NUL, SEMICOLON
  <2>5. stop \in E
    BY <2>2, <2>4, MinIs DEF stop
  <2>6. /\ stop \in Nat /\ stop >= p + 2 /\ stop < end /\ (hex => stop >= p + 3)
        /\ stop - 1 \in Nat
    BY <2>4, <2>5, <1>0
  <2>7. marker \in p + 1 .. stop - 1
    <3>1. (IF hex THEN p + 2 ELSE p + 1) \in marks
      BY <2>6, <1>0 DEF marks
    <3>2. \A k \in marks : k \in p + 1 .. stop - 1 /\ k \in 0 .. stop - 1
      BY <2>6, <1>0 DEF marks
    <3>3. marks \in SUBSET (0 .. stop - 1) /\ marks # {}
      BY <3>1, <3>2
    <3>4. marker \in marks
      BY <2>6, <3>3, MaxIs DEF marker
    <3> QED BY <3>2, <3>4
  <2>8. PICK n \in Nat : n = stop - marker - 1
    BY <2>6, <2>7, <1>0
  <2>9. digits \in [1..n -> Nat] /\ Len(digits) = n
    <3>1. digits = [k \in 1..n |-> DigitOf(mem[marker + k], base)]
      BY <2>8 DEF digits
    <3>2. ASSUME NEW k \in 1..n PROVE digits[k] \in Nat
      <4>1. digits[k] = DigitOf(mem[marker + k], base) /\ digits[k] # -1
        BY <2>3, <3>1
      <4>2. mem[marker + k] \in Int
        BY <1>0, <2>6, <2>7, <2>8
      <4>3. \A c \in Int : DigitOf(c, base) \in Nat \/ DigitOf(c, base) = -1
        BY DEF DigitOf, LowerDigit
      <4> QED BY <4>1, <4>2, <4>3
    <3> QED BY <3>1, <3>2, LenOfFunction
  <2>10. base \in Nat
    OBVIOUS
  <2> HIDE DEF base
  <2>11. PICK u \in Nat : u = Number(digits, base) /\ (n = 0 => u = 0)
    BY <2>9, <2>10, NumberType
  <2>12. n = 0 \/ stop >= p + 3
    BY <2>6, <2>7, <2>8, <1>0
  <2>13. /\ ConvertUTF32ToUTF8(u) \in Seq(Byte)
         /\ Len(ConvertUTF32ToUTF8(u)) \in Nat
         /\ Len(ConvertUTF32ToUTF8(u)) <= stop + 1 - p
    <3>1. PICK l \in 0..4 : l = Len(ConvertUTF32ToUTF8(u)) /\ (u = 0 => l = 1)
      BY TypeOfUTF8
    <3>2. PICK z \in Nat : z = stop
      BY <2>6
    <3>3. l \in Nat /\ l <= 4 /\ (n = 0 => l = 1)
      <4>1. l \in Nat /\ l <= 4
        OBVIOUS
      <4>2. n = 0 => l = 1
        BY <2>11, <3>1, Zenon
      <4> QED BY <4>1, <4>2
    <3>4. z >= p + 2 /\ (n = 0 \/ z >= p + 3)
      BY <2>6, <2>12, <3>2
    <3>5. l <= z + 1 - p
      <4> HIDE DEF Reading, BufferInv
      <4> QED BY <1>0, <3>2, <3>3, <3>4
    <3>6. l \in Nat /\ l <= stop + 1 - p
      BY <3>2, <3>3, <3>5
    <3> QED BY <3>1, <3>6, TypeOfUTF8
  <2>14. GetCharacterRef.next = stop + 1 /\ GetCharacterRef.value = ConvertUTF32ToUTF8(u)
    BY <2>3, <2>11 DEF ref
  <2> QED BY <2>6, <2>13, <2>14, <1>0
<1> QED BY <1>1, <1>2

LEMMA PutKeeps ==
  ASSUME BufferInv, NEW s \in Seq(Byte), NEW next \in p + 1 .. end, Len(s) <= next - p,
         Put(s, next)
  PROVE  BufferInv'
<1>0. /\ Len(mem) \in Nat /\ mem \in [1..Len(mem) -> Byte] /\ end \in Nat /\ p \in Nat /\ q \in Nat
      /\ 1 <= q /\ q <= p /\ p < next /\ next <= end /\ end <= Len(mem) /\ next \in Nat
      /\ Len(s) \in Nat /\ \A k \in 1..Len(s) : s[k] \in Byte
  BY DEF BufferInv
<1>1. mem' = [k \in 1..Len(mem) |-> IF k \in q .. q + Len(s) - 1 THEN s[k - q + 1] ELSE mem[k]]
  BY <1>0 DEF Put
<1>2. \A k \in 1..Len(mem) : mem'[k] \in Byte
  <2>1. \A k \in q .. q + Len(s) - 1 : k - q + 1 \in 1..Len(s)
    BY <1>0
  <2> QED BY <1>0, <1>1, <2>1
<1>3. mem' \in [1..Len(mem) -> Byte] /\ Len(mem') = Len(mem)
  BY <1>0, <1>1, <1>2, LenOfFunction
<1>4. end \notin q .. q + Len(s) - 1 /\ end \in 1..Len(mem) /\ mem'[end] = mem[end]
  BY <1>0, <1>1
<1> QED BY <1>0, <1>3, <1>4 DEF BufferInv, Put

LEMMA PutOne ==
  ASSUME BufferInv, NEW b \in Byte, NEW next \in p + 1 .. end, Put(<<b>>, next)
  PROVE  BufferInv'
<1>1. PICK s : s = <<b>>
  OBVIOUS
<1>2. s \in Seq(Byte) /\ Len(s) = 1
  BY <1>1
<1>3. Len(s) <= next - p
  BY <1>2 DEF BufferInv
<1>4. Put(s, next)
  BY <1>1
<1> QED BY <1>2, <1>3, <1>4, PutKeeps

(* Every turn of the loop keeps it: what a character or a reference becomes *)
(* is never longer than what was read.                                      *)
LEMMA GetStrKeeps ==
  ASSUME BufferInv, GetStr
  PROVE  BufferInv'
<1>0. /\ Len(mem) \in Nat /\ mem \in [1..Len(mem) -> Byte] /\ end \in Nat /\ p \in Nat /\ q \in Nat
      /\ 1 <= q /\ q <= p /\ p < end /\ end <= Len(mem) /\ mem[end] = NUL
      /\ \A k \in 1..Len(mem) : mem[k] \in Byte
  BY DEF BufferInv, GetStr, NewLine, CharacterReference, Entity, Unknown, Copy, Reading
<1>1. p + 1 \in p + 1 .. end /\ mem[p] \in Byte /\ mem[q] \in Byte
  BY <1>0
<1>2. LF \in Byte /\ AMP \in Byte /\ \A e \in entities : e.value \in Byte /\ Len(e.pattern) \in Nat
  BY Bytes DEF entities, LF, QUOT, AMP, APOS, LESS, GREATER
<1>3. CASE NewLine
  <2>1. PICK n \in {p + 1, p + 2} : Put(<<LF>>, n) /\ (n = p + 1 \/ mem[p + 1] # NUL)
    BY <1>3 DEF NewLine, LF, CR, NUL
  <2>2. n \in p + 1 .. end
    <3>1. p + 1 = end => n = p + 1
      BY <1>0, <2>1
    <3> QED BY <1>0, <2>1, <3>1
  <2> QED BY <1>2, <2>1, <2>2, PutOne
<1>4. CASE CharacterReference
  <2>1. CASE GetCharacterRef.next = 0
    <3>1. Put(<<AMP>>, p + 1)
      BY <1>4, <2>1 DEF CharacterReference
    <3> QED BY <1>1, <1>2, <3>1, PutOne
  <2>2. CASE GetCharacterRef.next # 0
    <3>1. PICK ref : ref = GetCharacterRef
      OBVIOUS
    <3>2. ref.next \in p + 1 .. end /\ ref.value \in Seq(Byte) /\ Len(ref.value) <= ref.next - p
      BY <1>4, <2>2, <3>1, ReferenceFits DEF CharacterReference
    <3>3. Put(ref.value, ref.next)
      BY <1>4, <2>2, <3>1 DEF CharacterReference
    <3> QED BY <3>2, <3>3, PutKeeps
  <2> QED BY <2>1, <2>2
<1>5. CASE Entity
  <2>1. PICK e \in entities : p + Len(e.pattern) + 1 < end /\ Put(<<e.value>>, p + Len(e.pattern) + 2)
    BY <1>5 DEF Entity, Entities
  <2>2. PICK n \in Nat : n = Len(e.pattern)
    BY <1>2, <2>1
  <2>3. e.value \in Byte /\ p + n + 2 \in p + 1 .. end
    BY <1>0, <1>2, <2>1, <2>2
  <2> QED BY <2>1, <2>2, <2>3, PutOne
<1>6. CASE Unknown
  <2>1. Put(<<mem[q]>>, p + 1)
    BY <1>6 DEF Unknown
  <2> QED BY <1>1, <2>1, PutOne
<1>7. CASE Copy
  <2>1. Put(<<mem[p]>>, p + 1)
    BY <1>7 DEF Copy
  <2> QED BY <1>1, <2>1, PutOne
<1> QED BY <1>3, <1>4, <1>5, <1>6, <1>7 DEF GetStr

-----------------------------------------------------------------------------
(* What is put on the wire is a sequence of bytes.                          *)
LEMMA PatternType ==
  ASSUME NEW e \in entities
  PROVE  e.pattern \in Seq(Byte) /\ Len(e.pattern) \in Nat /\ Len(e.pattern) >= 2
<1>1. \A b1, b2, b3, b4 \in Byte : <<b1, b2>> \in Seq(Byte) /\ <<b1, b2, b3>> \in Seq(Byte) /\ <<b1, b2, b3, b4>> \in Seq(Byte)
  OBVIOUS
<1>2. /\ 113 \in Byte /\ 117 \in Byte /\ 111 \in Byte /\ 116 \in Byte /\ 97 \in Byte
      /\ 109 \in Byte /\ 112 \in Byte /\ 115 \in Byte /\ 108 \in Byte /\ 103 \in Byte
  BY Bytes
<1>3. \/ e.pattern = <<113, 117, 111, 116>> \/ e.pattern = <<97, 109, 112>>
      \/ e.pattern = <<97, 112, 111, 115>> \/ e.pattern = <<108, 116>> \/ e.pattern = <<103, 116>>
  BY DEF entities
<1>4. <<113, 117, 111, 116>> \in Seq(Byte) /\ <<97, 112, 111, 115>> \in Seq(Byte)
  BY <1>1, <1>2
<1>5. <<97, 109, 112>> \in Seq(Byte) /\ <<108, 116>> \in Seq(Byte) /\ <<103, 116>> \in Seq(Byte)
  BY <1>1, <1>2
<1>6. e.pattern \in Seq(Byte)
  BY <1>3, <1>4, <1>5, Zenon
<1>7. Len(e.pattern) \in Nat /\ Len(e.pattern) >= 2
  <2>1. /\ Len(<<113, 117, 111, 116>>) = 4 /\ Len(<<97, 109, 112>>) = 3
        /\ Len(<<97, 112, 111, 115>>) = 4 /\ Len(<<108, 116>>) = 2 /\ Len(<<103, 116>>) = 2
    OBVIOUS
  <2>2. Len(e.pattern) = 4 \/ Len(e.pattern) = 3 \/ Len(e.pattern) = 2
    BY <1>3, <2>1, Zenon
  <2>3. PICK l : l = Len(e.pattern)
    OBVIOUS
  <2>4. l = 4 \/ l = 3 \/ l = 2
    BY <2>2, <2>3
  <2>5. l \in Nat /\ l >= 2
    BY <2>4
  <2> QED BY <2>3, <2>5, Zenon
<1> QED BY <1>6, <1>7

LEMMA EscapedType ==
  ASSUME NEW c \in Byte
  PROVE  Escaped(c) \in Seq(Byte)
<1>1. CASE c \in restrictedEntityFlag
  <2>1. PICK e \in entities : e = CHOOSE x \in entities : x.value = c
    <3>1. \E x \in entities : x.value = c
      BY <1>1 DEF restrictedEntityFlag, entities
    <3> QED BY <3>1
  <2>2. e.pattern \in Seq(Byte)
    BY PatternType
  <2>3. AMP \in Byte /\ SEMICOLON \in Byte
    BY Bytes DEF AMP, SEMICOLON
  <2>4. Escaped(c) = <<AMP>> \o e.pattern \o <<SEMICOLON>>
    BY <1>1, <2>1 DEF Escaped
  <2> QED BY <2>2, <2>3, <2>4
<1>2. CASE c \notin restrictedEntityFlag
  BY <1>2 DEF Escaped
<1> QED BY <1>1, <1>2

LEMMA PrintType ==
  ASSUME NEW t \in Seq(Byte)
  PROVE  PrintString(t) \in Seq(Byte)
<1>1. PICK n \in Nat : n = Len(t) /\ DOMAIN t = 1..n /\ \A k \in 1..n : t[k] \in Byte
  BY LenProperties, ElementOfSeq
<1>2. PICK s : s = [k \in 1..n |-> Escaped(t[k])]
  OBVIOUS
<1>3. s \in Seq(Seq(Byte))
  <2>1. s \in [1..n -> Seq(Byte)]
    BY <1>1, <1>2, EscapedType
  <2> QED BY <2>1, SeqDef
<1>4. PrintString(t) = FlattenSeq(s)
  BY <1>1, <1>2 DEF PrintString
<1> QED BY <1>3, <1>4, FlattenType

LEMMA WrittenType ==
  ASSUME NEW t \in Seq(Piece)
  PROVE  Written(t) \in Seq(Byte)
<1>1. PICK n \in Nat : n = Len(t) /\ DOMAIN t = 1..n /\ \A k \in 1..n : t[k] \in Piece
  BY LenProperties, ElementOfSeq
<1>2. PICK s : s = [k \in 1..n |-> t[k].written]
  OBVIOUS
<1>3. s \in Seq(Seq(Byte))
  <2>1. \A k \in 1..n : t[k].written \in Seq(Byte)
    <3>1. Seq(Byte \ {NUL}) \subseteq Seq(Byte)
      BY SeqMonotonic
    <3>2. \A x \in Piece : x.written \in Seq(Byte \ {NUL})
      BY DEF Piece
    <3> QED BY <1>1, <3>1, <3>2
  <2>2. s \in [1..n -> Seq(Byte)]
    BY <1>2, <2>1
  <2> QED BY <2>2, SeqDef
<1>4. Written(t) = FlattenSeq(s)
  BY <1>1, <1>2 DEF Written
<1> QED BY <1>3, <1>4, FlattenType

-----------------------------------------------------------------------------
(* The text of a picture: character j of group g.                           *)
Char(b, g, j) == EncodedGroup(Groups(b, 3)[g])[j]
GroupCount(n) == (n + 2) \div 3

(* The byte that many places behind a group's first; a shorter last group is
   filled up with zeros. *)
ByteAt(b, k) == IF k <= Len(b) THEN b[k] ELSE 0

LEMMA GroupIs ==
  ASSUME NEW b \in Seq(Byte), NEW g \in 1..GroupCount(Len(b))
  PROVE  /\ Groups(b, 3)[g] \in Seq(Byte)
         /\ Len(Groups(b, 3)[g]) = Least(3, Len(b) - 3 * (g - 1))
         /\ \A j \in 1..Len(Groups(b, 3)[g]) : Groups(b, 3)[g][j] = b[3 * (g - 1) + j]
<1>1. PICK n \in Nat : n = Len(b) /\ \A k \in 1..n : b[k] \in Byte
  BY LenProperties, ElementOfSeq
<1>2. PICK m \in Nat : m = 3 * (g - 1) /\ m < n
  <2>1. 3 * (g - 1) < n /\ 3 * (g - 1) \in Nat
    BY <1>1 DEF GroupCount
  <2> QED BY <2>1
<1>3. PICK z \in Nat : z = Least(3 * g, n) /\ z - m = Least(3, n - m) /\ m < z /\ z <= n
  <2>1. 3 * g = m + 3
    BY <1>2
  <2>2. Least(m + 3, n) \in Nat /\ Least(m + 3, n) - m = Least(3, n - m) /\ m < Least(m + 3, n) /\ Least(m + 3, n) <= n
    BY <1>2 DEF Least
  <2> QED BY <2>1, <2>2
<1>4. Groups(b, 3)[g] = SubSeq(b, m + 1, z)
  <2>1. Groups(b, 3) = [h \in 1 .. (n + 2) \div 3 |-> SubSeq(b, 3 * (h - 1) + 1, Least(3 * h, n))]
    <3>1. n + 3 - 1 = n + 2
      OBVIOUS
    <3> QED BY <1>1, <3>1 DEF Groups
  <2> QED BY <1>1, <1>2, <1>3, <2>1 DEF GroupCount
<1>5. /\ SubSeq(b, m + 1, z) \in Seq(Byte)
      /\ Len(SubSeq(b, m + 1, z)) = z - m
      /\ \A j \in 1..z - m : SubSeq(b, m + 1, z)[j] = b[m + j]
  BY <1>1, <1>2, <1>3, SubSeqProperties
<1> QED BY <1>1, <1>2, <1>3, <1>4, <1>5

(* A character is the one of the table of six bits of the bytes, or padding.  *)
LEMMA SextetsIs ==
  ASSUME NEW b1 \in Byte, NEW b2 \in Byte, NEW b3 \in Byte, NEW c, c = <<b1, b2, b3>>
  PROVE  /\ Sextets(c)[1] = b1 \div 4
         /\ Sextets(c)[2] = (b1 % 4) * 16 + b2 \div 16
         /\ Sextets(c)[3] = (b2 % 16) * 4 + b3 \div 64
         /\ Sextets(c)[4] = b3 % 64
         /\ \A j \in 1..4 : Sextets(c)[j] \in 0..63
<1>1. b1 \in Int /\ b2 \in Int /\ b3 \in Int /\ 0 <= b1 /\ b1 < 256 /\ 0 <= b2 /\ b2 < 256 /\ 0 <= b3 /\ b3 < 256
  BY Bytes
<1>2. /\ Sextets(c)[1] = b1 \div 4
      /\ Sextets(c)[2] = (b1 % 4) * 16 + b2 \div 16
      /\ Sextets(c)[3] = (b2 % 16) * 4 + b3 \div 64
      /\ Sextets(c)[4] = b3 % 64
  BY DEF Sextets
<1>3. b1 \div 4 \in 0..63 /\ (b1 % 4) * 16 + b2 \div 16 \in 0..63
  BY <1>1
<1>4. (b2 % 16) * 4 + b3 \div 64 \in 0..63 /\ b3 % 64 \in 0..63
  BY <1>1
<1>5. \A j \in 1..4 : j = 1 \/ j = 2 \/ j = 3 \/ j = 4
  OBVIOUS
<1> QED BY <1>2, <1>3, <1>4, <1>5

LEMMA FilledIs ==
  ASSUME NEW g \in Seq(Byte), NEW n \in Nat, NEW c \in Byte, Len(g) <= n
  PROVE  /\ Filled(g, n, c) \in Seq(Byte) /\ Len(Filled(g, n, c)) = n
         /\ \A j \in 1..n : Filled(g, n, c)[j] = IF j <= Len(g) THEN g[j] ELSE c
<1>1. PICK m \in Nat : m = Len(g) /\ m <= n
  BY LenProperties
<1>2. PICK r : r = [j \in 1..n - m |-> c]
  OBVIOUS
<1>3. r \in Seq(Byte) /\ Len(r) = n - m /\ \A j \in 1..n - m : r[j] = c
  <2>1. n - m \in Nat
    BY <1>1
  <2>2. r \in [1..n - m -> Byte]
    BY <1>2
  <2>3. r \in Seq(Byte)
    BY <2>1, <2>2, SeqDef
  <2> QED BY <1>2, <2>1, <2>3
<1>4. Filled(g, n, c) = g \o r
  BY <1>1, <1>2 DEF Filled
<1>5. /\ g \o r \in Seq(Byte) /\ Len(g \o r) = m + (n - m)
      /\ \A j \in 1..m + (n - m) : (g \o r)[j] = IF j <= m THEN g[j] ELSE r[j - m]
  BY <1>1, <1>3, ConcatProperties
<1> QED
  <2>1. m + (n - m) = n /\ \A j \in 1..n : ~ (j <= m) => j - m \in 1..n - m
    BY <1>1
  <2> QED BY <1>1, <1>3, <1>4, <1>5, <2>1

LEMMA TableIs ==
  /\ \A k \in 0..63 : /\ base64_chars[k] \in is_base64 /\ base64_chars[k] \in Byte
                      /\ find[base64_chars[k]] = k
  /\ Pad \notin is_base64 /\ LF \notin is_base64 /\ Pad \in Byte /\ LF \in Byte
  /\ \A c \in is_base64 : c \notin restrictedEntityFlag /\ c \notin {NUL, LF, CR, AMP} /\ c \in Byte
<1> DEFINE at(k) == IF k < 26 THEN 65 + k
                       ELSE IF k < 52 THEN 71 + k
                       ELSE IF k < 62 THEN k - 4
                       ELSE IF k = 62 THEN 43 ELSE 47
<1>1. \A k \in Int : 0 <= k /\ k < 64 <=> k \in 0..63
  OBVIOUS
<1>2. \A k \in 0..63 : base64_chars[k] = at(k)
  BY DEF base64_chars
<1>3. /\ \A k \in 0..63 : at(k) \in Byte /\ at(k) # 61 /\ at(k) # 10 /\ at(k) # 13 /\ at(k) # 0
                        /\ at(k) # 38 /\ at(k) # 60 /\ at(k) # 62
      /\ \A k, l \in 0..63 : at(k) = at(l) => k = l
  BY Bytes
<1> HIDE DEF at
<1>4. ASSUME NEW k \in 0..63 PROVE find[base64_chars[k]] = k
  <2>1. base64_chars[k] \in 0..255 /\ base64_chars[k] \in is_base64
    <3>1. base64_chars[k] \in Byte
      BY <1>2, <1>3
    <3>2. base64_chars[k] \in is_base64
      BY Zenon DEF is_base64
    <3> QED BY <3>1, <3>2 DEF Byte
  <2>2. PICK c : c = base64_chars[k]
    OBVIOUS
  <2>3. find[c] = CHOOSE l \in 0..63 : base64_chars[l] = c
    BY <2>1, <2>2 DEF find
  <2>4. \A l \in 0..63 : base64_chars[l] = c => l = k
    BY <1>2, <1>3, <2>2
  <2> QED BY <2>2, <2>3, <2>4, Zenon
<1>5. \A k \in 0..63 : base64_chars[k] \in is_base64 /\ base64_chars[k] \in Byte
  BY <1>2, <1>3 DEF is_base64
<1>6. \A c \in is_base64 : \E k \in 0..63 : c = at(k)
  BY <1>2 DEF is_base64
<1>7. Pad \in Byte /\ LF \in Byte
  BY Bytes DEF Pad, LF
<1> QED BY <1>3, <1>4, <1>5, <1>6, <1>7 DEF Pad, LF, CR, NUL, AMP, LESS, GREATER, restrictedEntityFlag

LEMMA EncodedGroupIs ==
  ASSUME NEW b \in Seq(Byte), NEW g \in 1..GroupCount(Len(b))
  PROVE  LET m == 3 * (g - 1)
             G == EncodedGroup(Groups(b, 3)[g])
             c == <<ByteAt(b, m + 1), ByteAt(b, m + 2), ByteAt(b, m + 3)>>
         IN  /\ \A j \in 1..3 : ByteAt(b, m + j) \in Byte
             /\ G \in [1..4 -> Byte]
             /\ \A j \in 1..4 : G[j] = IF j <= Len(b) - m + 1
                                      THEN base64_chars[Sextets(c)[j]] ELSE Pad
<1> DEFINE B(j) == ByteAt(b, 3 * (g - 1) + j)
<1>1. PICK n \in Nat : n = Len(b) /\ \A k \in 1..n : b[k] \in Byte
  BY LenProperties, ElementOfSeq
<1>2. PICK m \in Nat : m = 3 * (g - 1) /\ m < n
  <2>1. 3 * (g - 1) < n /\ 3 * (g - 1) \in Nat
    BY <1>1 DEF GroupCount
  <2> QED BY <2>1
<1>3. PICK a : a = Groups(b, 3)[g]
  OBVIOUS
<1>4. /\ a \in Seq(Byte) /\ Len(a) \in Nat /\ Len(a) = Least(3, n - m)
      /\ \A j \in 1..Len(a) : a[j] = b[m + j]
  BY <1>1, <1>2, <1>3, GroupIs, LenProperties
<1>5. PICK f : f = Filled(a, 3, 0)
  OBVIOUS
<1>6. f \in Seq(Byte) /\ Len(f) = 3 /\ \A j \in 1..3 : f[j] = IF j <= Len(a) THEN a[j] ELSE 0
  <2>1. 0 \in Byte
    BY Bytes
  <2>2. 3 \in Nat /\ Len(a) <= 3
    BY <1>2, <1>4 DEF Least
  <2>3. /\ Filled(a, 3, 0) \in Seq(Byte) /\ Len(Filled(a, 3, 0)) = 3
        /\ \A j \in 1..3 : Filled(a, 3, 0)[j] = IF j <= Len(a) THEN a[j] ELSE 0
    <3>1. PICK z \in Byte : z = 0
      BY <2>1
    <3>2. /\ Filled(a, 3, z) \in Seq(Byte) /\ Len(Filled(a, 3, z)) = 3
          /\ \A j \in 1..3 : Filled(a, 3, z)[j] = IF j <= Len(a) THEN a[j] ELSE z
      BY <1>4, <2>2, FilledIs
    <3> QED BY <3>1, <3>2
  <2> QED BY <1>5, <2>3
<1>7. \A j \in 1..3 : f[j] = ByteAt(b, m + j) /\ f[j] \in Byte
  <2>1. ASSUME NEW j \in 1..3 PROVE f[j] = ByteAt(b, m + j)
    <3>1. j <= Len(a) <=> m + j <= n
      BY <1>2, <1>4 DEF Least
    <3> QED BY <1>1, <1>4, <1>6, <3>1 DEF ByteAt
  <2>2. \A j \in 1..3 : f[j] \in Byte
    BY <1>6, ElementOfSeq
  <2> QED BY <2>1, <2>2
<1>8. PICK c : c = <<f[1], f[2], f[3]>>
  OBVIOUS
<1>9. Sextets(f) = Sextets(c)
  <2>1. c[1] = f[1] /\ c[2] = f[2] /\ c[3] = f[3]
    BY <1>8
  <2> QED BY <2>1 DEF Sextets
<1>10. PICK G : G = EncodedGroup(a)
  OBVIOUS
<1>11. \A j \in 1..4 : Sextets(c)[j] \in 0..63
  <2>1. f[1] \in Byte /\ f[2] \in Byte /\ f[3] \in Byte
    BY <1>7
  <2> QED BY <1>8, <2>1, SextetsIs
<1>12. G = [j \in 1..4 |-> IF j <= Len(a) + 1 THEN base64_chars[Sextets(c)[j]] ELSE Pad]
  BY <1>5, <1>9, <1>10 DEF EncodedGroup
<1>13. \A j \in 1..4 : j <= Len(a) + 1 <=> j <= n - m + 1
  BY <1>2, <1>4 DEF Least
<1>14. G \in [1..4 -> Byte]
  BY <1>11, <1>12, TableIs
<1>15. c = <<ByteAt(b, m + 1), ByteAt(b, m + 2), ByteAt(b, m + 3)>>
  BY <1>7, <1>8
<1>16. \A j \in 1..3 : ByteAt(b, m + j) \in Byte
  BY <1>7
<1>17. \A j \in 1..4 : G[j] = IF j <= n - m + 1 THEN base64_chars[Sextets(c)[j]] ELSE Pad
  BY <1>12, <1>13
<1> QED BY <1>1, <1>2, <1>3, <1>10, <1>14, <1>15, <1>16, <1>17, Zenon

(* Groups of four, one after the other. *)
LEMMA FlattenFours ==
  ASSUME NEW S, NEW n \in Nat, NEW s \in [1..n -> [1..4 -> S]]
  PROVE  /\ FlattenSeq(s) \in Seq(S) /\ Len(FlattenSeq(s)) = 4 * n
         /\ \A i \in 1..n, j \in 1..4 : FlattenSeq(s)[4 * (i - 1) + j] = s[i][j]
<1>1. \A i \in 1..n : s[i] \in Seq(S) /\ Len(s[i]) = 4
  <2>1. \A f \in [1..4 -> S] : f \in Seq(S) /\ Len(f) = 4
    <3>1. \A f \in [1..4 -> S] : f \in Seq(S)
      BY SeqDef
    <3>2. \A f \in [1..4 -> S] : Len(f) = 4
      BY <3>1, LenProperties
    <3> QED BY <3>1, <3>2
  <2> QED BY <2>1
<1>2. s \in Seq(Seq(S)) /\ Len(s) = n
  <2>1. s \in [1..n -> Seq(S)]
    BY <1>1
  <2> QED BY <2>1, SeqDef, LenProperties
<1>3. PICK P : Flattening(s, n, P) /\ \A i \in 0..n : P[i] \in Seq(S)
  BY <1>1, FlatteningExists
<1>4. FlattenSeq(s) = P[n]
  BY <1>2, <1>3, FlattenIs
<1> DEFINE T == {m \in 0..n : /\ Len(P[m]) = 4 * m
                              /\ \A i \in 1..m, j \in 1..4 : P[m][4 * (i - 1) + j] = s[i][j]}
<1>5. 0 \in T
  <2>1. P[0] = <<>>
    BY <1>3 DEF Flattening
  <2>2. Len(P[0]) = 4 * 0
    BY <2>1
  <2> QED BY <2>2
<1>6. ASSUME NEW m \in 1..n, m - 1 \in T PROVE m \in T
  <2>1. PICK a \in Seq(S), b \in Seq(S) : a = P[m - 1] /\ b = s[m]
    BY <1>1, <1>3
  <2>2. P[m] = a \o b
    BY <1>3, <2>1 DEF Flattening
  <2>3. PICK x \in Nat : x = 4 * (m - 1)
    OBVIOUS
  <2>4. Len(a) = x /\ Len(b) = 4
    BY <1>1, <1>6, <2>1, <2>3
  <2>5. Len(a \o b) = x + 4 /\ \A i \in 1..x + 4 : (a \o b)[i] = IF i <= x THEN a[i] ELSE b[i - x]
    <3>1. /\ Len(a \o b) = Len(a) + Len(b)
          /\ \A i \in 1..Len(a) + Len(b) : (a \o b)[i] = IF i <= Len(a) THEN a[i] ELSE b[i - Len(a)]
      BY ConcatProperties
    <3> QED BY <2>4, <3>1
  <2>6. \A i \in 1..m, j \in 1..4 : 4 * (i - 1) + j \in 1..x + 4 /\ (i < m => 4 * (i - 1) + j <= x)
    BY <2>3
  <2>7. ASSUME NEW i \in 1..m, NEW j \in 1..4 PROVE P[m][4 * (i - 1) + j] = s[i][j]
    <3>1. CASE i < m
      <4>1. i \in 1..m-1
        BY <3>1
      <4>2. a[4 * (i - 1) + j] = s[i][j]
        BY <1>6, <2>1, <4>1
      <4> QED BY <2>2, <2>5, <2>6, <3>1, <4>2
    <3>2. CASE i = m
      <4>1. x + j \in 1..x + 4 /\ ~ (x + j <= x) /\ x + j - x = j
        BY <2>3
      <4>2. (a \o b)[x + j] = b[j]
        BY <2>5, <4>1
      <4> QED BY <2>1, <2>2, <2>3, <3>2, <4>2
    <3> QED BY <3>1, <3>2
  <2>8. Len(P[m]) = 4 * m
    BY <2>2, <2>3, <2>5
  <2> QED BY <2>7, <2>8
<1>7. n \in T
  <2> HIDE DEF T
  <2>1. 0..n \subseteq T
    BY <1>5, <1>6, Induction
  <2> QED BY <2>1
<1>8. n \in 0..n
  OBVIOUS
<1> QED BY <1>3, <1>4, <1>7, <1>8

(* A picture, encoded. *)
LEMMA EncodeIs ==
  ASSUME NEW b \in Seq(Byte)
  PROVE  /\ base64_encode(b) \in Seq(Byte)
         /\ Len(base64_encode(b)) = 4 * GroupCount(Len(b))
         /\ \A g \in 1..GroupCount(Len(b)), j \in 1..4 : base64_encode(b)[4 * (g - 1) + j] = Char(b, g, j)
<1>1. PICK n \in Nat : n = GroupCount(Len(b))
  <2>1. Len(b) \in Nat
    BY LenProperties
  <2> QED BY <2>1 DEF GroupCount
<1>2. PICK s : s = [g \in 1..n |-> EncodedGroup(Groups(b, 3)[g])]
  OBVIOUS
<1>3. base64_encode(b) = FlattenSeq(s)
  <2>1. DOMAIN Groups(b, 3) = 1..n
    <3>1. Len(b) + 3 - 1 = Len(b) + 2
      BY LenProperties
    <3> QED BY <1>1, <3>1 DEF Groups, GroupCount
  <2> QED BY <1>2, <2>1 DEF base64_encode
<1>4. s \in [1..n -> [1..4 -> Byte]]
  BY <1>1, <1>2, EncodedGroupIs
<1>5. /\ FlattenSeq(s) \in Seq(Byte) /\ Len(FlattenSeq(s)) = 4 * n
      /\ \A i \in 1..n, j \in 1..4 : FlattenSeq(s)[4 * (i - 1) + j] = s[i][j]
  <2>1. n \in Nat
    BY <1>1, LenProperties DEF GroupCount
  <2> QED BY <1>4, <2>1, FlattenFours
<1> QED BY <1>1, <1>2, <1>3, <1>5 DEF Char

-----------------------------------------------------------------------------
(* Decoding.                                                                *)
LEMMA PieceIs ==
  ASSUME NEW s, NEW x \in Nat, NEW n \in Nat, \A j \in 1..n : s[x + j] \in Byte
  PROVE  /\ SubSeq(s, x + 1, x + n) \in Seq(Byte) /\ Len(SubSeq(s, x + 1, x + n)) = n
         /\ \A j \in 1..n : SubSeq(s, x + 1, x + n)[j] = s[x + j]
<1>1. PICK u \in Int, v \in Int : u = x + 1 /\ v = x + n
  OBVIOUS
<1>2. \A k \in u..v : s[k] \in Byte
  <2>1. \A k \in u..v : k - x \in 1..n /\ x + (k - x) = k
    BY <1>1
  <2> QED BY <2>1
<1>3. /\ SubSeq(s, u, v) \in Seq(Byte)
      /\ Len(SubSeq(s, u, v)) = IF u <= v THEN v - u + 1 ELSE 0
      /\ \A j \in 1..v - u + 1 : SubSeq(s, u, v)[j] = s[u + j - 1]
  BY <1>2, SubSeqProperties
<1>4. v - u + 1 = n /\ (u <= v \/ n = 0) /\ \A j \in 1..n : u + j - 1 = x + j
  BY <1>1
<1>5. /\ SubSeq(s, u, v) \in Seq(Byte) /\ Len(SubSeq(s, u, v)) = n
      /\ \A j \in 1..n : SubSeq(s, u, v)[j] = s[x + j]
  BY <1>1, <1>3, <1>4
<1> QED BY <1>1, <1>5

LEMMA PrefixIs ==
  ASSUME NEW s, NEW n \in Nat, \A j \in 1..n : s[j] \in Byte
  PROVE  /\ SubSeq(s, 1, n) \in Seq(Byte) /\ Len(SubSeq(s, 1, n)) = n
         /\ \A j \in 1..n : SubSeq(s, 1, n)[j] = s[j]
<1>1. 1 \in Int /\ n \in Int /\ n - 1 + 1 = n /\ (1 <= n \/ n = 0) /\ \A j \in 1..n : 1 + j - 1 = j
  OBVIOUS
<1>2. /\ SubSeq(s, 1, n) \in Seq(Byte)
      /\ Len(SubSeq(s, 1, n)) = IF 1 <= n THEN n - 1 + 1 ELSE 0
      /\ \A j \in 1..n - 1 + 1 : SubSeq(s, 1, n)[j] = s[1 + j - 1]
  BY <1>1, SubSeqProperties
<1> QED BY <1>1, <1>2

LEMMA JoinIs ==
  ASSUME NEW x \in Seq(Byte), NEW v \in Seq(Byte)
  PROVE  /\ x \o v \in Seq(Byte) /\ Len(x \o v) = Len(x) + Len(v)
         /\ \A i \in 1..Len(x) : (x \o v)[i] = x[i]
         /\ \A i \in 1..Len(v) : (x \o v)[Len(x) + i] = v[i]
<1>0. PICK n \in Nat, m \in Nat : n = Len(x) /\ m = Len(v)
  BY LenProperties
<1>1. /\ x \o v \in Seq(Byte) /\ Len(x \o v) = Len(x) + Len(v)
      /\ \A i \in 1..Len(x) + Len(v) : (x \o v)[i] = IF i <= Len(x) THEN x[i] ELSE v[i - Len(x)]
  BY ConcatProperties
<1>2. PICK t \in Seq(Byte) : /\ t = x \o v /\ Len(t) = n + m
                             /\ \A i \in 1..n + m : t[i] = IF i <= n THEN x[i] ELSE v[i - n]
  BY <1>0, <1>1
<1>3. \A i \in 1..n : t[i] = x[i]
  BY <1>2
<1>4. \A i \in 1..m : t[n + i] = v[i]
  <2>1. \A i \in 1..m : n + i \in 1..n + m /\ ~ (n + i <= n) /\ n + i - n = i
    OBVIOUS
  <2> QED BY <1>2, <2>1
<1> QED BY <1>0, <1>2, <1>3, <1>4

LEMMA LongerPrefix ==
  ASSUME NEW b \in Seq(Byte), NEW d \in Seq(Byte), NEW x \in Nat,
         x + Len(d) <= Len(b), \A o \in 1..Len(d) : d[o] = b[x + o]
  PROVE  SubSeq(b, 1, x) \o d = SubSeq(b, 1, x + Len(d))
<1>1. PICK n \in Nat, y \in Nat : n = Len(b) /\ y = Len(d) /\ x + y <= n
  BY LenProperties
<1>2. \A i \in 1..n : b[i] \in Byte
  BY <1>1, ElementOfSeq
<1>3. PICK u : u = SubSeq(b, 1, x)
  OBVIOUS
<1>4. PICK v : v = SubSeq(b, 1, x + y)
  OBVIOUS
<1>5. u \in Seq(Byte) /\ Len(u) = x /\ \A i \in 1..x : u[i] = b[i]
  <2>1. \A i \in 1..x : b[i] \in Byte
    BY <1>1, <1>2
  <2> QED BY <1>3, <2>1, PrefixIs
<1>6. v \in Seq(Byte) /\ Len(v) = x + y /\ \A i \in 1..x + y : v[i] = b[i]
  <2>0. PICK z \in Nat : z = x + y
    BY <1>1
  <2>1. \A i \in 1..z : b[i] \in Byte
    BY <1>1, <1>2, <2>0
  <2> QED BY <1>4, <2>0, <2>1, PrefixIs
<1>7. PICK w : w = u \o d
  OBVIOUS
<1>8. w \in Seq(Byte) /\ Len(w) = x + y /\ \A i \in 1..x + y : w[i] = IF i <= x THEN u[i] ELSE d[i - x]
  <2>1. /\ w \in Seq(Byte) /\ Len(w) = Len(u) + Len(d)
        /\ \A i \in 1..Len(u) + Len(d) : w[i] = IF i <= Len(u) THEN u[i] ELSE d[i - Len(u)]
    BY <1>5, <1>7, ConcatProperties
  <2> QED BY <1>1, <1>5, <2>1
<1>9. \A i \in 1..x + y : w[i] = v[i]
  <2> SUFFICES ASSUME NEW i \in 1..x + y PROVE w[i] = v[i]
    OBVIOUS
  <2>1. CASE i <= x
    BY <1>1, <1>5, <1>6, <1>8, <2>1
  <2>2. CASE ~ (i <= x)
    <3>1. i - x \in 1..y /\ x + (i - x) = i
      BY <1>1, <2>2
    <3>2. d[i - x] = b[x + (i - x)]
      BY <1>1, <3>1
    <3> QED BY <1>6, <1>8, <2>2, <3>1, <3>2
  <2> QED BY <2>1, <2>2
<1>10. w = v
  <2>1. Len(w) = Len(v) /\ \A i \in 1..Len(w) : w[i] = v[i]
    BY <1>6, <1>8, <1>9
  <2> QED BY <1>6, <1>8, <2>1, SeqEqual
<1> QED BY <1>1, <1>3, <1>4, <1>7, <1>10

LEMMA OctetsIs ==
  ASSUME NEW b1 \in Byte, NEW b2 \in Byte, NEW b3 \in Byte, NEW s
  PROVE  /\ s[1] = b1 \div 4 /\ s[2] = (b1 % 4) * 16 + b2 \div 16 => Octets(s)[1] = b1
         /\ s[2] = (b1 % 4) * 16 + b2 \div 16 /\ s[3] = (b2 % 16) * 4 + b3 \div 64
               => Octets(s)[2] = b2
         /\ s[3] = (b2 % 16) * 4 + b3 \div 64 /\ s[4] = b3 % 64 => Octets(s)[3] = b3
<1>1. b1 \in Int /\ b2 \in Int /\ b3 \in Int /\ 0 <= b1 /\ b1 < 256 /\ 0 <= b2 /\ b2 < 256 /\ 0 <= b3 /\ b3 < 256
  BY Bytes
<1>2. /\ Octets(s)[1] = (s[1] * 4 + (s[2] % 64) \div 16) % 256
      /\ Octets(s)[2] = ((s[2] % 16) * 16 + (s[3] % 64) \div 4) % 256
      /\ Octets(s)[3] = ((s[3] % 4) * 64 + s[4]) % 256
  BY DEF Octets
<1>3. ((b1 \div 4) * 4 + (((b1 % 4) * 16 + b2 \div 16) % 64) \div 16) % 256 = b1
  BY <1>1
<1>4. ((((b1 % 4) * 16 + b2 \div 16) % 16) * 16 + (((b2 % 16) * 4 + b3 \div 64) % 64) \div 4) % 256 = b2
  BY <1>1
<1>5. ((((b2 % 16) * 4 + b3 \div 64) % 4) * 64 + (b3 % 64)) % 256 = b3
  BY <1>1
<1> HIDE DEF Octets
<1>6. ASSUME s[1] = b1 \div 4, s[2] = (b1 % 4) * 16 + b2 \div 16
      PROVE  Octets(s)[1] = b1
  BY ONLY <1>2, <1>3, <1>6, Zenon
<1>7. ASSUME s[2] = (b1 % 4) * 16 + b2 \div 16, s[3] = (b2 % 16) * 4 + b3 \div 64
      PROVE  Octets(s)[2] = b2
  BY ONLY <1>2, <1>4, <1>7, Zenon
<1>8. ASSUME s[3] = (b2 % 16) * 4 + b3 \div 64, s[4] = b3 % 64
      PROVE  Octets(s)[3] = b3
  <2>1. PICK x, y : x = (b2 % 16) * 4 + b3 \div 64 /\ y = b3 % 64
    OBVIOUS
  <2>2. ((x % 4) * 64 + y) % 256 = b3
    BY <1>5, <2>1
  <2>3. s[3] = x /\ s[4] = y
    BY <1>8, <2>1
  <2> QED BY ONLY <1>2, <2>2, <2>3
<1> QED BY <1>6, <1>7, <1>8

LEMMA EncodedPrefix ==
  ASSUME NEW b \in Seq(Byte), NEW m \in Nat, m <= 4 * GroupCount(Len(b)),
         NEW t, t = SubSeq(base64_encode(b), 1, m)
  PROVE  t \in Seq(Byte) /\ Len(t) = m /\ \A k \in 1..m : t[k] = base64_encode(b)[k]
<1>1. PICK E : E = base64_encode(b) /\ E \in Seq(Byte) /\ Len(E) = 4 * GroupCount(Len(b))
  BY EncodeIs
<1>2. \A k \in 1..m : E[k] \in Byte
  <2>1. \A k \in 1..Len(E) : E[k] \in Byte
    BY <1>1, ElementOfSeq
  <2>2. GroupCount(Len(b)) \in Nat
    BY LenProperties DEF GroupCount
  <2>3. \A k \in 1..m : k \in 1..Len(E)
    BY <1>1, <2>2
  <2> QED BY <2>1, <2>3
<1> QED BY <1>1, <1>2, PrefixIs

(* Group i of the first m characters: its length and what it gives.          *)
GroupLength(m, i) == Least(4, m - 4 * (i - 1))
Decoded(b, m, i) == DecodedGroup(Groups(SubSeq(base64_encode(b), 1, m), 4)[i])

(* A group of l characters of the text gives l - 1 bytes of the picture.     *)
LEMMA DecodedGroupIs ==
  ASSUME NEW b \in Seq(Byte), NEW m \in Nat, 3 * m <= 4 * Len(b) + 2,
         NEW i \in 1..(m + 3) \div 4
  PROVE  /\ GroupLength(m, i) \in 1..4 /\ 3 * (i - 1) + GroupLength(m, i) - 1 <= Len(b)
         /\ Decoded(b, m, i) \in Seq(Byte) /\ Len(Decoded(b, m, i)) = GroupLength(m, i) - 1
         /\ \A o \in 1..GroupLength(m, i) - 1 : Decoded(b, m, i)[o] = b[3 * (i - 1) + o]
<1>0. PICK t, l, D : /\ t = SubSeq(base64_encode(b), 1, m) /\ l = GroupLength(m, i)
                    /\ D = DecodedGroup(Groups(t, 4)[i]) /\ D = Decoded(b, m, i)
  BY DEF Decoded
<1>1. PICK n \in Nat : n = Len(b) /\ \A k \in 1..n : b[k] \in Byte
  BY LenProperties, ElementOfSeq
<1>2. PICK x \in Nat, y \in Nat : x = 3 * (i - 1) /\ y = 4 * (i - 1) /\ y < m
  <2>1. i - 1 \in Nat /\ 3 * (i - 1) \in Nat /\ 4 * (i - 1) \in Nat /\ 4 * (i - 1) < m
    OBVIOUS
  <2> QED BY <2>1
<1>3. l \in 1..4 /\ l \in Nat /\ 1 <= l /\ l <= 4 /\ y + l <= m
  BY <1>0, <1>2 DEF GroupLength, Least
<1>4. \A j \in 1..l : j <= n - x + 1
  <2>1. 3 * y = 4 * x
    BY <1>2
  <2>2. 3 * (y + l) <= 4 * n + 2
    BY <1>1, <1>2, <1>3
  <2>3. l <= n - x + 1
    BY <1>1, <1>2, <1>3, <2>1, <2>2
  <2> QED BY <1>1, <1>2, <1>3, <2>3
<1>5. i \in 1..GroupCount(n)
  <2>1. 3 * m <= 4 * n + 2
    BY <1>1
  <2>2. 4 * (i - 1) < m
    BY <1>2
  <2>3. 12 * (i - 1) < 4 * n + 2
    BY <1>1, <2>1, <2>2
  <2>4. 3 * (i - 1) < n
    BY <1>1, <1>2, <1>3, <1>4, <2>1, <2>2, <2>3
  <2> QED BY <1>1, <2>4 DEF GroupCount
<1>6. PICK E : /\ E = base64_encode(b) /\ E \in Seq(Byte) /\ Len(E) = 4 * GroupCount(n)
              /\ \A j \in 1..4 : E[4 * (i - 1) + j] = Char(b, i, j)
  BY <1>1, <1>5, EncodeIs
<1>7. t \in Seq(Byte) /\ Len(t) = m /\ \A k \in 1..m : t[k] = E[k]
  <2>1. m <= 4 * GroupCount(n)
    BY <1>1 DEF GroupCount
  <2> QED BY <1>0, <1>1, <1>6, <2>1, EncodedPrefix
<1>8. PICK a : a = Groups(t, 4)[i]
  OBVIOUS
<1>9. a = SubSeq(t, y + 1, y + l)
  <2>1. Groups(t, 4) = [h \in 1 .. (m + 3) \div 4 |-> SubSeq(t, 4 * (h - 1) + 1, Least(4 * h, m))]
    <3>1. m + 4 - 1 = m + 3
      OBVIOUS
    <3> QED BY <1>7, <3>1 DEF Groups
  <2>2. Least(4 * i, m) = y + l
    <3>1. 4 * i = y + 4
      BY <1>2
    <3>2. Least(y + 4, m) = y + l
      BY <1>0, <1>2 DEF GroupLength, Least
    <3> QED BY <3>1, <3>2
  <2> QED BY <1>2, <1>8, <2>1, <2>2
<1>10. a \in Seq(Byte) /\ Len(a) = l /\ \A j \in 1..l : a[j] = t[y + j]
  <2>1. \A j \in 1..l : t[y + j] \in Byte
    <3>1. \A k \in 1..m : t[k] \in Byte
      BY <1>7, ElementOfSeq
    <3> QED BY <1>2, <1>3, <3>1
  <2>2. PICK z \in Nat : z = l
    BY <1>3
  <2>3. /\ SubSeq(t, y + 1, y + z) \in Seq(Byte) /\ Len(SubSeq(t, y + 1, y + z)) = z
        /\ \A j \in 1..z : SubSeq(t, y + 1, y + z)[j] = t[y + j]
    <3>1. \A j \in 1..z : t[y + j] \in Byte
      BY <2>1, <2>2
    <3> QED BY ONLY <3>1, PieceIs, Zenon
  <2> QED BY <1>9, <2>2, <2>3
<1>11. PICK b1 \in Byte, b2 \in Byte, b3 \in Byte :
          b1 = ByteAt(b, x + 1) /\ b2 = ByteAt(b, x + 2) /\ b3 = ByteAt(b, x + 3)
  <2>1. i \in 1..GroupCount(Len(b)) /\ 1 \in 1..3 /\ 2 \in 1..3 /\ 3 \in 1..3
    BY <1>1, <1>5
  <2>2. \A j \in 1..3 : ByteAt(b, x + j) \in Byte
    BY <1>2, <2>1, EncodedGroupIs
  <2> QED BY <2>1, <2>2
<1>12. PICK c : c = <<b1, b2, b3>>
  OBVIOUS
<1>13. \A j \in 1..l : a[j] = base64_chars[Sextets(c)[j]]
  <2>1. ASSUME NEW j \in 1..4 PROVE Char(b, i, j) = IF j <= n - x + 1 THEN base64_chars[Sextets(c)[j]] ELSE Pad
    BY <1>1, <1>2, <1>5, <1>11, <1>12, EncodedGroupIs DEF Char
  <2>2. ASSUME NEW j \in 1..l PROVE a[j] = Char(b, i, j) /\ j \in 1..4
    <3>1. j \in 1..4 /\ y + j \in 1..m
      BY <1>2, <1>3
    <3>2. a[j] = E[y + j]
      BY <1>7, <1>10, <3>1
    <3>3. E[y + j] = Char(b, i, j)
      BY <1>2, <1>6, <3>1
    <3> QED BY <3>1, <3>2, <3>3
  <2> QED BY <1>4, <2>1, <2>2
<1>14. \A j \in 1..l : find[a[j]] = Sextets(c)[j]
  <2>1. \A j \in 1..4 : Sextets(c)[j] \in 0..63
    BY <1>12, SextetsIs
  <2>2. \A j \in 1..l : j \in 1..4
    BY <1>3
  <2> QED BY <1>13, <2>1, <2>2, TableIs
<1>15. PICK f : f = Filled(a, 4, 0)
  OBVIOUS
<1>16. \A j \in 1..l : f[j] = a[j]
  <2>1. PICK z \in Byte : z = 0
    BY Bytes
  <2>2. \A j \in 1..4 : f[j] = IF j <= Len(a) THEN a[j] ELSE z
    <3>1. 4 \in Nat /\ Len(a) <= 4 /\ a \in Seq(Byte)
      BY <1>3, <1>10
    <3>2. \A j \in 1..4 : Filled(a, 4, z)[j] = IF j <= Len(a) THEN a[j] ELSE z
      BY <2>1, <3>1, FilledIs
    <3> QED BY <1>15, <2>1, <3>2
  <2>3. \A j \in 1..l : j \in 1..4 /\ j <= Len(a)
    BY <1>3, <1>10
  <2> QED BY <2>2, <2>3
<1>17. PICK s : s = [j \in 1..4 |-> find[f[j]]]
  OBVIOUS
<1>18. \A j \in 1..l : s[j] = Sextets(c)[j]
  <2>1. \A j \in 1..l : j \in 1..4
    BY <1>3
  <2> QED BY <1>14, <1>16, <1>17, <2>1
<1>19. \A o \in 1..l - 1 : Octets(s)[o] = ByteAt(b, x + o)
  <2>1. /\ Sextets(c)[1] = b1 \div 4
        /\ Sextets(c)[2] = (b1 % 4) * 16 + b2 \div 16
        /\ Sextets(c)[3] = (b2 % 16) * 4 + b3 \div 64
        /\ Sextets(c)[4] = b3 % 64
    BY <1>12, SextetsIs
  <2>2. ASSUME l >= 2 PROVE Octets(s)[1] = b1
    <3>1. s[1] = Sextets(c)[1] /\ s[2] = Sextets(c)[2]
      BY <1>3, <1>18, <2>2
    <3> QED BY <2>1, <3>1, OctetsIs
  <2>3. ASSUME l >= 3 PROVE Octets(s)[2] = b2
    <3>1. s[2] = Sextets(c)[2] /\ s[3] = Sextets(c)[3]
      BY <1>3, <1>18, <2>3
    <3> QED BY <2>1, <3>1, OctetsIs
  <2>4. ASSUME l >= 4 PROVE Octets(s)[3] = b3
    <3>1. s[3] = Sextets(c)[3] /\ s[4] = Sextets(c)[4]
      BY <1>3, <1>18, <2>4
    <3> QED BY <2>1, <3>1, OctetsIs
  <2>5. \A o \in 1..l - 1 : (o = 1 /\ l >= 2) \/ (o = 2 /\ l >= 3) \/ (o = 3 /\ l >= 4)
    BY <1>3
  <2> QED BY <1>11, <2>2, <2>3, <2>4, <2>5
<1>20. \A o \in 1..l - 1 : Octets(s)[o] = b[x + o] /\ b[x + o] \in Byte
  <2>1. l - 1 <= n - x
    BY <1>3, <1>4
  <2>2. \A o \in 1..l - 1 : x + o \in 1..n /\ x + o <= Len(b)
    BY <1>1, <1>2, <1>3, <2>1
  <2> QED BY <1>1, <1>19, <2>2 DEF ByteAt
<1>21. D = SubSeq(Octets(s), 1, l - 1)
  BY <1>0, <1>8, <1>10, <1>15, <1>17 DEF DecodedGroup, BytesOf
<1>22. /\ D \in Seq(Byte) /\ Len(D) = l - 1 /\ \A o \in 1..l - 1 : D[o] = Octets(s)[o]
  <2>1. PICK z \in Nat : z = l - 1
    BY <1>3
  <2>2. \A o \in 1..z : Octets(s)[o] \in Byte
    BY <1>20, <2>1
  <2> QED BY <1>21, <2>1, <2>2, PrefixIs
<1>23. 3 * (i - 1) + l - 1 <= Len(b)
  BY <1>1, <1>2, <1>3, <1>4
<1> QED BY <1>0, <1>2, <1>3, <1>20, <1>22, <1>23

(* The characters up to the m-th give the bytes they hold in full.           *)
LEMMA DecodeIs ==
  ASSUME NEW b \in Seq(Byte), NEW m \in Nat, 3 * m <= 4 * Len(b) + 2,
         NEW t, Taken(t) = SubSeq(base64_encode(b), 1, m)
  PROVE  base64_decode(t) = SubSeq(b, 1, (3 * m) \div 4)
<1>1. PICK n \in Nat : n = Len(b)
  BY LenProperties
<1>2. PICK u : u = Taken(t)
  OBVIOUS
<1>3. Len(u) = m
  <2>1. m <= 4 * GroupCount(Len(b))
    BY <1>1 DEF GroupCount
  <2> QED BY <1>2, <2>1, EncodedPrefix
<1>4. PICK c \in Nat, M \in Nat : c = (m + 3) \div 4 /\ M = (3 * m) \div 4
  OBVIOUS
<1>5. PICK s : s = [g \in 1..c |-> DecodedGroup(Groups(u, 4)[g])]
  OBVIOUS
<1>6. base64_decode(t) = FlattenSeq(s)
  <2>1. DOMAIN Groups(u, 4) = 1..c
    <3>1. m + 4 - 1 = m + 3
      OBVIOUS
    <3> QED BY <1>3, <1>4, <3>1 DEF Groups
  <2> QED BY <1>2, <1>5, <2>1 DEF base64_decode
<1> DEFINE l(i) == GroupLength(m, i)
<1>7. \A i \in 1..c : /\ l(i) \in 1..4 /\ 3 * (i - 1) + l(i) - 1 <= n
                      /\ s[i] \in Seq(Byte) /\ Len(s[i]) = l(i) - 1
                      /\ \A o \in 1..l(i) - 1 : s[i][o] = b[3 * (i - 1) + o]
  <2> SUFFICES ASSUME NEW i \in 1..c
               PROVE  /\ l(i) \in 1..4 /\ 3 * (i - 1) + l(i) - 1 <= n
                      /\ s[i] \in Seq(Byte) /\ Len(s[i]) = l(i) - 1
                      /\ \A o \in 1..l(i) - 1 : s[i][o] = b[3 * (i - 1) + o]
    OBVIOUS
  <2>1. i \in 1..(m + 3) \div 4 /\ s[i] = DecodedGroup(Groups(u, 4)[i])
    BY <1>4, <1>5
  <2>2. s[i] = Decoded(b, m, i)
    BY <1>2, <2>1 DEF Decoded
  <2> QED BY <1>1, <2>1, <2>2, DecodedGroupIs
<1>8. s \in Seq(Seq(Byte)) /\ Len(s) = c
  <2>1. s \in [1..c -> Seq(Byte)]
    BY <1>5, <1>7
  <2> QED BY <2>1, SeqDef, LenProperties
<1>9. PICK P : P = [i \in 0..c |-> SubSeq(b, 1, Least(3 * i, M))]
  OBVIOUS
<1>10. P[0] = <<>>
  <2>1. Least(3 * 0, M) = 0 /\ 0 \in 0..c
    BY DEF Least
  <2>2. SubSeq(b, 1, 0) = <<>>
    BY SubSeqEmpty
  <2> QED BY <1>9, <2>1, <2>2
<1>11. ASSUME NEW i \in 1..c PROVE P[i] = P[i - 1] \o s[i]
  <2>1. PICK x \in Nat, k \in Nat : x = 3 * (i - 1) /\ k = l(i) - 1
    <3>1. l(i) - 1 \in Nat /\ 3 * (i - 1) \in Nat
      <4>1. l(i) \in 1..4
        BY <1>7
      <4> QED BY <4>1
    <3> QED BY <3>1
  <2>2. Least(3 * (i - 1), M) = x /\ Least(3 * i, M) = x + k
    BY <1>4, <2>1 DEF GroupLength, Least
  <2>3. P[i - 1] = SubSeq(b, 1, x) /\ P[i] = SubSeq(b, 1, x + k)
    <3>1. i \in 0..c /\ i - 1 \in 0..c
      OBVIOUS
    <3> QED BY <1>9, <2>2, <3>1
  <2>4. x + k <= Len(b) /\ s[i] \in Seq(Byte) /\ Len(s[i]) = k /\ \A o \in 1..k : s[i][o] = b[x + o]
    BY <1>1, <1>7, <2>1
  <2>5. PICK d \in Seq(Byte) : d = s[i] /\ Len(d) = k
    BY <2>4
  <2>6. SubSeq(b, 1, x) \o d = SubSeq(b, 1, x + Len(d))
    <3>1. x + Len(d) <= Len(b) /\ \A o \in 1..Len(d) : d[o] = b[x + o]
      BY <2>4, <2>5
    <3> QED BY <3>1, LongerPrefix
  <2> QED BY <2>3, <2>5, <2>6
<1>12. FlattenSeq(s) = P[c]
  BY <1>8, <1>10, <1>11, FlattenIs DEF Flattening
<1>13. P[c] = SubSeq(b, 1, M)
  <2>1. Least(3 * c, M) = M /\ c \in 0..c
    BY <1>4 DEF Least
  <2> QED BY <1>9, <2>1
<1> QED BY <1>4, <1>6, <1>12, <1>13

-----------------------------------------------------------------------------
(* A character of the text is one of base64 as long as it holds a bit of the *)
(* picture, and padding behind that.                                        *)
LEMMA EncodedIs ==
  ASSUME NEW b \in Seq(Byte), NEW k \in 1..4 * GroupCount(Len(b))
  PROVE  /\ 3 * k <= 4 * Len(b) + 2 => base64_encode(b)[k] \in is_base64
         /\ 3 * k > 4 * Len(b) + 2 => base64_encode(b)[k] = Pad
<1>1. PICK n \in Nat : n = Len(b)
  BY LenProperties
<1>2. PICK g \in 1..GroupCount(n), j \in 1..4 : k = 4 * (g - 1) + j
  <2>1. PICK h \in Int : h = (k + 3) \div 4
    BY <1>1 DEF GroupCount
  <2>2. h \in 1..GroupCount(n) /\ k - 4 * (h - 1) \in 1..4 /\ k = 4 * (h - 1) + (k - 4 * (h - 1))
    BY <1>1, <2>1 DEF GroupCount
  <2> QED BY <2>2
<1>3. PICK x \in Nat, y \in Nat : x = 3 * (g - 1) /\ y = 4 * (g - 1) /\ x < n /\ 3 * y = 4 * x
  <2>1. 3 * (g - 1) \in Nat /\ 4 * (g - 1) \in Nat /\ 3 * (g - 1) < n
    BY <1>1 DEF GroupCount
  <2> QED BY <2>1
<1>4. 3 * k <= 4 * n + 2 <=> j <= n - x + 1
  <2>1. 3 * k = 4 * x + 3 * j
    BY <1>2, <1>3
  <2> QED BY <1>1, <1>2, <1>3, <2>1
<1>5. base64_encode(b)[k] = Char(b, g, j)
  BY <1>1, <1>2, EncodeIs
<1>6. PICK b1 \in Byte, b2 \in Byte, b3 \in Byte :
          b1 = ByteAt(b, x + 1) /\ b2 = ByteAt(b, x + 2) /\ b3 = ByteAt(b, x + 3)
  <2>1. 1 \in 1..3 /\ 2 \in 1..3 /\ 3 \in 1..3
    OBVIOUS
  <2>2. \A i \in 1..3 : ByteAt(b, x + i) \in Byte
    BY <1>1, <1>2, <1>3, EncodedGroupIs
  <2> QED BY <2>1, <2>2
<1>7. PICK c : c = <<b1, b2, b3>>
  OBVIOUS
<1>8. Char(b, g, j) = IF j <= n - x + 1 THEN base64_chars[Sextets(c)[j]] ELSE Pad
  BY <1>1, <1>2, <1>3, <1>6, <1>7, EncodedGroupIs DEF Char
<1>9. Sextets(c)[j] \in 0..63
  BY <1>7, SextetsIs
<1>10. base64_chars[Sextets(c)[j]] \in is_base64
  BY <1>9, TableIs
<1> QED BY <1>1, <1>2, <1>3, <1>4, <1>5, <1>8, <1>10

(* What SendPicture makes of an encoded picture.                             *)
PictureText(b, t, n) ==
  /\ t \in Seq(Byte) /\ n \in 0..Len(t) /\ n <= 4 * GroupCount(Len(b))
  /\ \A k \in 1..Len(t) : t[k] \in is_base64 \/ t[k] = Pad \/ t[k] = LF
  /\ \A k \in 1..n : t[k] = base64_encode(b)[k]
  /\ \/ n = Len(t) /\ \A k \in n + 1 .. 4 * GroupCount(Len(b)) : base64_encode(b)[k] = Pad
     \/ n < Len(t) /\ t[n + 1] = LF

(* The decoder takes the characters before the padding or the line break.    *)
LEMMA TakenIs ==
  ASSUME NEW b \in Seq(Byte), NEW t, NEW n, PictureText(b, t, n)
  PROVE  base64_decode(t) = SubSeq(b, 1, Least(Len(b), (6 * n) \div 8))
<1>1. PICK L \in Nat, G \in Nat, len \in Nat, N \in Nat :
         L = Len(b) /\ G = 4 * GroupCount(L) /\ len = Len(t) /\ N = (4 * L + 2) \div 3
  <2>1. Len(b) \in Nat /\ Len(t) \in Nat
    BY LenProperties DEF PictureText
  <2> QED BY <2>1 DEF GroupCount
<1>2. /\ t \in Seq(Byte) /\ n \in Nat /\ n <= len /\ n <= G
      /\ \A k \in 1..n : t[k] = base64_encode(b)[k]
      /\ \/ n = len /\ \A k \in n + 1 .. G : base64_encode(b)[k] = Pad
         \/ n < len /\ t[n + 1] = LF
  BY <1>1 DEF PictureText
<1>3. N <= G /\ \A k \in 1..G : IF k <= N THEN base64_encode(b)[k] \in is_base64 ELSE base64_encode(b)[k] = Pad
  <2>1. N <= G
    BY <1>1 DEF GroupCount
  <2>2. \A k \in Nat : k <= N <=> 3 * k <= 4 * L + 2
    BY <1>1
  <2>3. \A k \in 1..G : /\ 3 * k <= 4 * L + 2 => base64_encode(b)[k] \in is_base64
                        /\ 3 * k > 4 * L + 2 => base64_encode(b)[k] = Pad
    BY <1>1, EncodedIs
  <2>4. ASSUME NEW k \in 1..G
        PROVE  IF k <= N THEN base64_encode(b)[k] \in is_base64 ELSE base64_encode(b)[k] = Pad
    <3>0. k \in Nat
      OBVIOUS
    <3>1. CASE k <= N
      <4>1. 3 * k <= 4 * L + 2
        BY <2>2, <3>0, <3>1
      <4> QED BY <2>3, <3>1, <4>1
    <3>2. CASE ~ (k <= N)
      <4>1. ~ (3 * k <= 4 * L + 2)
        BY <2>2, <3>0, <3>2
      <4>2. 3 * k > 4 * L + 2
        BY <1>1, <3>0, <4>1
      <4> QED BY <2>3, <3>2, <4>2
    <3> QED BY <3>1, <3>2
  <2> QED BY <2>1, <2>4
<1>4. PICK m \in Nat : m = Least(n, N) /\ m <= n /\ m <= N
  BY <1>2 DEF Least
<1>5. PICK stops : stops = {k \in DOMAIN t : t[k] \notin is_base64}
  OBVIOUS
<1>6. DOMAIN t = 1..len
  BY <1>1, <1>2, LenProperties
<1>7. \A k \in 1..m : k \notin stops
  BY <1>2, <1>3, <1>4, <1>5
<1>8. IF m = len THEN stops = {} ELSE m + 1 \in stops
  <2>1. CASE n <= N
    <3>1. m = n
      BY <1>2, <1>4, <2>1 DEF Least
    <3>2. CASE n = len
      BY <1>5, <1>6, <1>7, <3>1, <3>2
    <3>3. CASE n < len /\ t[n + 1] = LF
      BY <1>2, <1>5, <1>6, <3>1, <3>3, TableIs
    <3> QED BY <1>2, <3>2, <3>3
  <2>2. CASE n > N
    <3>1. m = N /\ N + 1 \in 1..n /\ N + 1 \in 1..G /\ N + 1 \in 1..len /\ m # len
      BY <1>2, <1>4, <2>2 DEF Least
    <3>2. t[N + 1] = Pad
      <4>1. t[N + 1] = base64_encode(b)[N + 1]
        BY <1>2, <3>1
      <4> QED BY <1>3, <3>1, <4>1
    <3> QED BY <1>5, <1>6, <3>1, <3>2, TableIs
  <2> QED BY <1>2, <2>1, <2>2
<1>9. Taken(t) = SubSeq(t, 1, m)
  <2>1. CASE m = len
    BY <1>1, <1>5, <1>8, <2>1 DEF Taken
  <2>2. CASE m # len
    <3>1. stops \in SUBSET Nat /\ stops # {} /\ m + 1 \in stops /\ \A k \in stops : k >= m + 1
      BY <1>5, <1>6, <1>7, <1>8, <2>2
    <3>2. Min(stops) \in stops /\ \A k \in stops : Min(stops) <= k
      BY <3>1, MinIs
    <3>3. PICK z \in Nat : z = Min(stops)
      BY <3>1, <3>2
    <3>4. Min(stops) - 1 = m
      <4>1. z <= m + 1 /\ z >= m + 1
        BY <3>1, <3>2, <3>3
      <4> QED BY <3>3, <4>1
    <3> QED BY <1>5, <3>1, <3>4 DEF Taken
  <2> QED BY <2>1, <2>2
<1>10. SubSeq(t, 1, m) = SubSeq(base64_encode(b), 1, m)
  <2>1. PICK u, v : u = SubSeq(t, 1, m) /\ v = SubSeq(base64_encode(b), 1, m)
    OBVIOUS
  <2>2. v \in Seq(Byte) /\ Len(v) = m /\ \A k \in 1..m : v[k] = base64_encode(b)[k]
    <3>1. m <= 4 * GroupCount(Len(b))
      BY <1>1, <1>3, <1>4
    <3> QED BY <2>1, <3>1, EncodedPrefix, Zenon
  <2>3. u \in Seq(Byte) /\ Len(u) = m /\ \A k \in 1..m : u[k] = t[k]
    <3>1. \A k \in 1..m : t[k] \in Byte
      <4>1. \A k \in 1..Len(t) : t[k] \in Byte
        BY <1>2, ElementOfSeq
      <4> QED BY <1>1, <1>2, <1>4, <4>1
    <3> QED BY <2>1, <3>1, PrefixIs
  <2>4. \A k \in 1..m : u[k] = v[k]
    BY <1>2, <1>4, <2>2, <2>3
  <2> QED BY <2>1, <2>2, <2>3, <2>4, SeqEqual
<1>11. base64_decode(t) = SubSeq(b, 1, (3 * m) \div 4)
  <2>1. 3 * m <= 4 * Len(b) + 2
    BY <1>1, <1>4
  <2> QED BY <1>9, <1>10, <2>1, DecodeIs
<1>12. (3 * m) \div 4 = Least(L, (6 * n) \div 8)
  <2>1. CASE n >= N
    <3>1. m = N /\ (3 * N) \div 4 = L /\ (6 * n) \div 8 >= L
      BY <1>1, <1>2, <1>4, <2>1 DEF Least
    <3> QED BY <1>2, <3>1 DEF Least
  <2>2. CASE n < N
    <3>1. n < len /\ t[n + 1] = LF
      <4>1. SUFFICES ASSUME \A k \in n + 1 .. G : base64_encode(b)[k] = Pad PROVE FALSE
        BY <1>2
      <4>2. N \in n + 1 .. G /\ N \in 1..G /\ N <= N
        BY <1>2, <1>3, <2>2
      <4> QED BY <1>3, <4>1, <4>2, TableIs
    <3>2. m = n /\ (6 * n) \div 8 = (3 * n) \div 4 /\ (3 * n) \div 4 <= L
      BY <1>1, <1>2, <1>4, <2>2 DEF Least
    <3> QED BY <1>2, <3>2 DEF Least
  <2> QED BY <1>2, <2>1, <2>2
<1> QED BY <1>1, <1>11, <1>12

-----------------------------------------------------------------------------
(* The text of a picture has nothing the printer would replace.              *)
LEMMA PlainPrints ==
  ASSUME NEW t \in Seq(Byte), \A k \in 1..Len(t) : t[k] \notin restrictedEntityFlag
  PROVE  PrintString(t) = t
<1>1. PICK n \in Nat : n = Len(t) /\ DOMAIN t = 1..n /\ \A k \in 1..n : t[k] \in Byte
  BY LenProperties, ElementOfSeq
<1>2. PICK s : s = [k \in 1..n |-> <<t[k]>>]
  OBVIOUS
<1>3. \A k \in 1..n : s[k] = <<t[k]>> /\ s[k] \in Seq(Byte) /\ Len(s[k]) = 1
  BY <1>1, <1>2
<1>4. s \in Seq(Seq(Byte)) /\ Len(s) = n
  <2>1. s \in [1..n -> Seq(Byte)]
    BY <1>2, <1>3
  <2> QED BY <2>1, SeqDef, LenProperties
<1>5. PrintString(t) = FlattenSeq(s)
  <2>1. [k \in 1..n |-> Escaped(t[k])] = s
    BY <1>1, <1>2 DEF Escaped
  <2> QED BY <1>1, <2>1 DEF PrintString
<1>6. PICK P : P = [i \in 0..n |-> SubSeq(t, 1, i)]
  OBVIOUS
<1>7. P[0] = <<>>
  BY <1>6, SubSeqEmpty
<1>8. ASSUME NEW i \in 1..n PROVE P[i] = P[i - 1] \o s[i]
  <2>1. PICK x \in Nat : x = i - 1 /\ x + 1 = i /\ i \in 0..n /\ x \in 0..n
    OBVIOUS
  <2>2. P[i] = SubSeq(t, 1, x + 1) /\ P[i - 1] = SubSeq(t, 1, x)
    BY <1>6, <2>1
  <2>3. PICK d \in Seq(Byte) : d = s[i] /\ Len(d) = 1 /\ d[1] = t[x + 1]
    <3>1. s[i] = <<t[i]>>
      BY <1>3
    <3> QED BY <1>3, <2>1, <3>1
  <2>4. SubSeq(t, 1, x) \o d = SubSeq(t, 1, x + Len(d))
    <3>1. x + Len(d) <= Len(t) /\ \A o \in 1..Len(d) : d[o] = t[x + o]
      BY <1>1, <2>1, <2>3
    <3> QED BY <3>1, LongerPrefix
  <2> QED BY <2>2, <2>3, <2>4
<1>9. FlattenSeq(s) = P[n]
  BY <1>4, <1>7, <1>8, FlattenIs DEF Flattening
<1>10. P[n] = t
  <2>1. n \in 0..n /\ SubSeq(t, 1, Len(t)) = t
    BY SubSeqFull
  <2> QED BY <1>1, <1>6, <2>1
<1> QED BY <1>5, <1>9, <1>10

-----------------------------------------------------------------------------
(* What is printed, and what is read of it, up to a character of the text.   *)
Printed(t, i) == FlattenSeq([k \in 1..i |-> Escaped(t[k])])
Cleaned(t, i) == FlattenSeq([k \in 1..i |-> ReadAs(t, k)])

LEMMA FlattenSteps ==
  ASSUME NEW n \in Nat, NEW s, \A k \in 1..n : s[k] \in Seq(Byte), NEW F,
         F = [i \in 0..n |-> FlattenSeq([k \in 1..i |-> s[k]])]
  PROVE  Flattening(s, n, F) /\ \A i \in 0..n : F[i] \in Seq(Byte)
<1>1. PICK P : Flattening(s, n, P) /\ \A i \in 0..n : P[i] \in Seq(Byte)
  BY FlatteningExists
<1>2. ASSUME NEW i \in 0..n PROVE F[i] = P[i]
  <2>1. PICK u : u = [k \in 1..i |-> s[k]]
    OBVIOUS
  <2>2. u \in Seq(Seq(Byte)) /\ Len(u) = i
    <3>1. i \in Nat /\ u \in [1..i -> Seq(Byte)]
      BY <2>1
    <3> QED BY <3>1, SeqDef, LenProperties
  <2>3. Flattening(u, i, P)
    <3>1. \A k \in 1..i : k \in 1..n /\ u[k] = s[k]
      BY <2>1
    <3> QED BY <1>1, <3>1 DEF Flattening
  <2>4. FlattenSeq(u) = P[i]
    BY <2>2, <2>3, FlattenIs
  <2> QED BY <2>1, <2>4
<1>3. \A i \in 1..n : i \in 0..n /\ i - 1 \in 0..n
  OBVIOUS
<1>4. 0 \in 0..n
  OBVIOUS
<1> QED BY <1>1, <1>2, <1>3, <1>4 DEF Flattening

LEMMA PrintedIs ==
  ASSUME NEW t \in Seq(Byte)
  PROVE  /\ Printed(t, 0) = <<>> /\ \A i \in 0..Len(t) : Printed(t, i) \in Seq(Byte)
         /\ \A i \in 1..Len(t) : Printed(t, i) = Printed(t, i - 1) \o Escaped(t[i])
         /\ PrintString(t) = Printed(t, Len(t))
<1>1. PICK n \in Nat : n = Len(t) /\ DOMAIN t = 1..n /\ \A k \in 1..n : t[k] \in Byte
  BY LenProperties, ElementOfSeq
<1>2. PICK s : s = [k \in 1..n |-> Escaped(t[k])]
  OBVIOUS
<1>3. \A k \in 1..n : s[k] \in Seq(Byte)
  BY <1>1, <1>2, EscapedType
<1>4. PICK F : F = [i \in 0..n |-> FlattenSeq([k \in 1..i |-> s[k]])]
  OBVIOUS
<1>5. Flattening(s, n, F) /\ \A i \in 0..n : F[i] \in Seq(Byte)
  BY <1>3, <1>4, FlattenSteps
<1>6. ASSUME NEW i \in 0..n PROVE F[i] = Printed(t, i)
  <2>1. [k \in 1..i |-> s[k]] = [k \in 1..i |-> Escaped(t[k])]
    BY <1>2
  <2> QED BY <1>4, <2>1 DEF Printed
<1>7. \A i \in 1..n : i \in 0..n /\ i - 1 \in 0..n /\ s[i] = Escaped(t[i])
  BY <1>2
<1>8. 0 \in 0..n /\ PrintString(t) = Printed(t, n)
  BY <1>1 DEF Printed, PrintString
<1> QED BY <1>1, <1>5, <1>6, <1>7, <1>8 DEF Flattening

LEMMA ReadAsType ==
  ASSUME NEW t \in Seq(Byte), NEW k \in 1..Len(t)
  PROVE  ReadAs(t, k) \in Seq(Byte)
<1>1. t[k] \in Byte /\ LF \in Byte
  BY ElementOfSeq, TableIs
<1>2. <<t[k]>> \in Seq(Byte) /\ <<LF>> \in Seq(Byte) /\ <<>> \in Seq(Byte)
  BY <1>1, EmptySeq
<1>3. PICK r : r = RunLength(t, k)
  OBVIOUS
<1>4. ReadAs(t, k) = IF r = 0 THEN <<t[k]>> ELSE IF r % 2 = 0 THEN <<>> ELSE <<LF>>
  BY <1>3 DEF ReadAs
<1> QED BY <1>2, <1>4, Zenon

LEMMA CleanedIs ==
  ASSUME NEW t \in Seq(Byte)
  PROVE  /\ Cleaned(t, 0) = <<>> /\ \A i \in 0..Len(t) : Cleaned(t, i) \in Seq(Byte)
         /\ \A i \in 1..Len(t) : Cleaned(t, i) = Cleaned(t, i - 1) \o ReadAs(t, i)
         /\ Normalized(t) = Cleaned(t, Len(t))
<1>1. PICK n \in Nat : n = Len(t) /\ DOMAIN t = 1..n
  BY LenProperties
<1>2. PICK s : s = [k \in 1..n |-> ReadAs(t, k)]
  OBVIOUS
<1>3. \A k \in 1..n : s[k] \in Seq(Byte)
  BY <1>1, <1>2, ReadAsType
<1>4. PICK F : F = [i \in 0..n |-> FlattenSeq([k \in 1..i |-> s[k]])]
  OBVIOUS
<1>5. Flattening(s, n, F) /\ \A i \in 0..n : F[i] \in Seq(Byte)
  BY <1>3, <1>4, FlattenSteps
<1>6. ASSUME NEW i \in 0..n PROVE F[i] = Cleaned(t, i)
  <2>1. [k \in 1..i |-> s[k]] = [k \in 1..i |-> ReadAs(t, k)]
    BY <1>2
  <2> QED BY <1>4, <2>1 DEF Cleaned
<1>7. \A i \in 1..n : i \in 0..n /\ i - 1 \in 0..n /\ s[i] = ReadAs(t, i)
  BY <1>2
<1>8. 0 \in 0..n /\ Normalized(t) = Cleaned(t, n)
  BY <1>1 DEF Cleaned, Normalized
<1> QED BY <1>1, <1>5, <1>6, <1>7, <1>8 DEF Flattening

(* Where a character's text lies.                                            *)
LEMMA PrintedPlaces ==
  ASSUME NEW t \in Seq(Byte), NEW i \in 1..Len(t), NEW a \in Nat, a = Len(Printed(t, i - 1))
  PROVE  /\ Len(Printed(t, i)) = a + Len(Escaped(t[i]))
         /\ Len(Printed(t, i)) <= Len(PrintString(t))
         /\ \A j \in 1..Len(Escaped(t[i])) : PrintString(t)[a + j] = Escaped(t[i])[j]
<1>1. PICK n \in Nat : n = Len(t) /\ i \in 1..n /\ \A k \in 1..n : t[k] \in Byte
  BY LenProperties, ElementOfSeq
<1>2. PICK e \in Seq(Byte) : e = Escaped(t[i])
  BY <1>1, EscapedType
<1>3. PICK u \in Seq(Byte) : u = Printed(t, i - 1)
  <2>1. i - 1 \in 0..n
    BY <1>1
  <2> QED BY <1>1, <2>1, PrintedIs
<1>4. PICK v : v = Printed(t, i)
  OBVIOUS
<1>5. PICK len \in Nat : len = Len(e)
  BY LenProperties
<1>6. v = u \o e
  BY <1>1, <1>2, <1>3, <1>4, PrintedIs
<1>7. /\ v \in Seq(Byte) /\ Len(v) = a + len
      /\ \A j \in 1..len : v[a + j] = e[j]
  <2>1. /\ v \in Seq(Byte) /\ Len(v) = Len(u) + Len(e)
        /\ \A j \in 1..Len(e) : v[Len(u) + j] = e[j]
    BY <1>6, JoinIs
  <2> QED BY <1>3, <1>5, <2>1
<1> DEFINE Extends(w) == Len(w) \in Nat /\ a + len <= Len(w) /\ \A k \in 1..a + len : w[k] = v[k]
           T == {m \in 0..n : m >= i => Extends(Printed(t, m))}
<1>8. 0 \in T
  BY <1>1
<1>9. ASSUME NEW m \in 1..n, m - 1 \in T PROVE m \in T
  <2>1. CASE m < i
    BY <2>1
  <2>2. CASE m = i
    BY <1>4, <1>7, <2>2
  <2>3. CASE m > i
    <3>1. PICK x \in Seq(Byte) : x = Printed(t, m - 1) /\ Extends(x)
      <4>1. m - 1 \in 0..Len(t) /\ m - 1 >= i
        BY <1>1, <2>3
      <4>2. Printed(t, m - 1) \in Seq(Byte)
        BY <4>1, PrintedIs
      <4> QED BY <1>9, <4>1, <4>2
    <3>2. PICK y \in Seq(Byte) : y = Escaped(t[m])
      BY <1>1, EscapedType
    <3>3. PICK w : w = Printed(t, m) /\ w = x \o y
      BY <1>1, <3>1, <3>2, PrintedIs
    <3>4. /\ w \in Seq(Byte) /\ Len(w) = Len(x) + Len(y) /\ Len(x) \in Nat /\ Len(y) \in Nat
          /\ \A k \in 1..Len(x) : w[k] = x[k]
      BY <3>3, JoinIs, LenProperties
    <3>5. Extends(w)
      <4>1. \A k \in 1..a + len : k \in 1..Len(x)
        BY <3>1, <3>4
      <4> QED BY <3>1, <3>4, <4>1
    <3>6. Extends(Printed(t, m))
      BY <3>3, <3>5
    <3> HIDE DEF Extends
    <3> QED BY <3>6
  <2>4. m < i \/ m = i \/ m > i
    BY <1>1
  <2> HIDE DEF T
  <2> QED BY <2>1, <2>2, <2>3, <2>4
<1>10. n \in T
  <2> HIDE DEF T
  <2>1. 0..n \subseteq T
    BY <1>8, <1>9, Induction
  <2> QED BY <2>1
<1>11. Extends(PrintString(t))
  BY <1>1, <1>10, PrintedIs
<1>12. \A j \in 1..len : PrintString(t)[a + j] = e[j]
  <2>1. \A j \in 1..len : a + j \in 1..a + len
    OBVIOUS
  <2> QED BY <1>7, <1>11, <2>1
<1> QED BY <1>2, <1>4, <1>5, <1>7, <1>11, <1>12

LEMMA CharacterPlaces ==
  ASSUME NEW t \in Seq(Byte)
  PROVE  \A y \in 1..Len(t) :
            /\ Len(Printed(t, y)) = Len(Printed(t, y - 1)) + Len(Escaped(t[y]))
            /\ Len(Printed(t, y)) <= Len(PrintString(t))
            /\ \A j \in 1..Len(Escaped(t[y])) :
                  PrintString(t)[Len(Printed(t, y - 1)) + j] = Escaped(t[y])[j]
<1> SUFFICES ASSUME NEW y \in 1..Len(t)
             PROVE  /\ Len(Printed(t, y)) = Len(Printed(t, y - 1)) + Len(Escaped(t[y]))
                    /\ Len(Printed(t, y)) <= Len(PrintString(t))
                    /\ \A j \in 1..Len(Escaped(t[y])) :
                          PrintString(t)[Len(Printed(t, y - 1)) + j] = Escaped(t[y])[j]
  OBVIOUS
<1>1. PICK a \in Nat : a = Len(Printed(t, y - 1))
  <2>1. y - 1 \in 0..Len(t)
    BY LenProperties
  <2>2. Printed(t, y - 1) \in Seq(Byte)
    BY <2>1, PrintedIs
  <2> QED BY <2>2, LenProperties
<1>2. /\ Len(Printed(t, y)) = a + Len(Escaped(t[y]))
      /\ Len(Printed(t, y)) <= Len(PrintString(t))
      /\ \A j \in 1..Len(Escaped(t[y])) : PrintString(t)[a + j] = Escaped(t[y])[j]
  BY <1>1, PrintedPlaces
<1> QED BY <1>1, <1>2

(* The characters of an entity. *)
LEMMA EscapedIs ==
  ASSUME NEW c \in restrictedEntityFlag
  PROVE  \E e \in entities :
            /\ e.value = c /\ Len(e.pattern) \in Nat /\ Len(e.pattern) >= 2
            /\ Escaped(c) \in Seq(Byte) /\ Len(Escaped(c)) = Len(e.pattern) + 2
            /\ Escaped(c)[1] = AMP /\ Escaped(c)[Len(e.pattern) + 2] = SEMICOLON
            /\ \A j \in 1..Len(e.pattern) : Escaped(c)[1 + j] = e.pattern[j]
<1>1. PICK e \in entities : e = CHOOSE x \in entities : x.value = c
  BY DEF entities, restrictedEntityFlag
<1>2. e.value = c
  <2>1. \E x \in entities : x.value = c
    BY DEF entities, restrictedEntityFlag
  <2> QED BY <1>1, <2>1
<1>3. Escaped(c) = <<AMP>> \o e.pattern \o <<SEMICOLON>>
  BY <1>1 DEF Escaped
<1>4. PICK pat \in Seq(Byte), n \in Nat : pat = e.pattern /\ n = Len(pat) /\ n >= 2
  BY PatternType
<1>5. PICK x \in Seq(Byte), y \in Seq(Byte) : x = <<AMP>> /\ y = <<SEMICOLON>> /\ Len(x) = 1 /\ Len(y) = 1 /\ x[1] = AMP /\ y[1] = SEMICOLON
  <2>1. AMP \in Byte /\ SEMICOLON \in Byte
    BY Bytes DEF AMP, SEMICOLON
  <2>2. <<AMP>> \in Seq(Byte) /\ <<SEMICOLON>> \in Seq(Byte) /\ Len(<<AMP>>) = 1 /\ Len(<<SEMICOLON>>) = 1 /\ <<AMP>>[1] = AMP /\ <<SEMICOLON>>[1] = SEMICOLON
    BY <2>1
  <2> QED BY <2>2
<1>6. PICK u \in Seq(Byte) : /\ u = x \o pat /\ Len(u) = 1 + n /\ u[1] = AMP
                             /\ \A j \in 1..n : u[1 + j] = pat[j]
  <2>1. /\ x \o pat \in Seq(Byte) /\ Len(x \o pat) = Len(x) + Len(pat)
        /\ \A i \in 1..Len(x) : (x \o pat)[i] = x[i]
        /\ \A i \in 1..Len(pat) : (x \o pat)[Len(x) + i] = pat[i]
    BY JoinIs
  <2>2. 1 \in 1..Len(x)
    BY <1>5
  <2> QED BY <1>4, <1>5, <2>1, <2>2
<1>7. PICK v \in Seq(Byte) : /\ v = u \o y /\ Len(v) = n + 2 /\ v[1] = AMP /\ v[n + 2] = SEMICOLON
                             /\ \A j \in 1..n : v[1 + j] = pat[j]
  <2>1. PICK v \in Seq(Byte) : /\ v = u \o y /\ Len(v) = Len(u) + Len(y)
                               /\ \A i \in 1..Len(u) : v[i] = u[i]
                               /\ \A i \in 1..Len(y) : v[Len(u) + i] = y[i]
    BY JoinIs
  <2>2. 1 \in 1..1 + n /\ \A j \in 1..n : 1 + j \in 1..1 + n
    OBVIOUS
  <2>3. v[1 + n + 1] = y[1]
    <3>1. 1 \in 1..Len(y) /\ Len(u) = 1 + n
      BY <1>5, <1>6
    <3>2. v[Len(u) + 1] = y[1]
      BY <2>1, <3>1
    <3> QED BY <3>1, <3>2
  <2>4. 1 + n + 1 = n + 2
    OBVIOUS
  <2>5. Len(v) = n + 2 /\ v[n + 2] = SEMICOLON
    BY <1>5, <1>6, <2>1, <2>3, <2>4
  <2>6. v[1] = AMP /\ \A j \in 1..n : v[1 + j] = pat[j]
    <3>1. 1 \in 1..Len(u) /\ \A j \in 1..n : 1 + j \in 1..Len(u)
      BY <1>6, <2>2
    <3> QED BY <1>6, <2>1, <3>1
  <2> QED BY <2>1, <2>5, <2>6
<1>8. Escaped(c) = v
  BY <1>3, <1>4, <1>5, <1>6, <1>7
<1> QED BY <1>2, <1>4, <1>7, <1>8

(* A run of newlines, by the run that ends one character earlier. *)
IsRun(t, k, n) ==
  \A j \in k - n + 1 .. k :
     /\ t[j] \in {CR, LF}
     /\ j > k - n + 1 => t[j] # t[j - 1]

LEMMA RunIs ==
  ASSUME NEW t, NEW k \in Nat, NEW r \in 0..k, IsRun(t, k, r),
         \A n \in r + 1..k : ~ IsRun(t, k, n)
  PROVE  RunLength(t, k) = r
<1> DEFINE T == {n \in 0..k : IsRun(t, k, n)}
<1>1. RunLength(t, k) = Max(T)
  BY DEF RunLength, IsRun
<1>2. r \in T /\ T \in SUBSET (0..k) /\ \A n \in T : n \in 0..k /\ n <= r
  OBVIOUS
<1> HIDE DEF T
<1>3. Max(T) \in T /\ \A n \in T : Max(T) >= n
  BY <1>2, MaxIs
<1>4. PICK z \in Int : z = Max(T)
  <2>1. Max(T) \in 0..k
    BY <1>2, <1>3
  <2> QED BY <2>1
<1>5. z >= r /\ z <= r
  BY <1>2, <1>3, <1>4
<1> QED BY <1>1, <1>4, <1>5

LEMMA RunOf ==
  ASSUME NEW t, NEW k \in Nat
  PROVE  /\ RunLength(t, k) \in 0..k /\ IsRun(t, k, RunLength(t, k))
         /\ \A n \in 0..k : IsRun(t, k, n) => n <= RunLength(t, k)
<1> DEFINE T == {n \in 0..k : IsRun(t, k, n)}
<1>1. RunLength(t, k) = Max(T)
  BY DEF RunLength, IsRun
<1>2. 0 \in T /\ T \in SUBSET (0..k)
  BY DEF IsRun
<1>3. \A n \in T : n \in 0..k /\ IsRun(t, k, n)
  OBVIOUS
<1>4. \A n \in 0..k : IsRun(t, k, n) => n \in T
  OBVIOUS
<1> HIDE DEF T
<1>5. Max(T) \in T /\ \A n \in T : Max(T) >= n
  BY <1>2, MaxIs
<1>6. PICK z \in 0..k : z = Max(T) /\ IsRun(t, k, z)
  BY <1>3, <1>5
<1> QED BY <1>1, <1>3, <1>4, <1>5, <1>6

LEMMA RunStep ==
  ASSUME NEW t, NEW k \in Nat, k >= 1
  PROVE  RunLength(t, k) = IF t[k] \notin {CR, LF} THEN 0
                           ELSE IF k = 1 \/ t[k - 1] \notin {CR, LF} \/ t[k - 1] = t[k] THEN 1
                           ELSE RunLength(t, k - 1) + 1
<1>1. CASE t[k] \notin {CR, LF}
  <2>1. IsRun(t, k, 0) /\ \A n \in 1..k : ~ IsRun(t, k, n)
    BY <1>1 DEF IsRun
  <2>2. RunLength(t, k) = 0
    BY <2>1, RunIs
  <2> QED BY <1>1, <2>2
<1>2. CASE t[k] \in {CR, LF} /\ (k = 1 \/ t[k - 1] \notin {CR, LF} \/ t[k - 1] = t[k])
  <2>1. IsRun(t, k, 1)
    BY <1>2 DEF IsRun
  <2>2. ASSUME NEW n \in 2..k PROVE ~ IsRun(t, k, n)
    <3>1. k # 1 /\ k \in k - n + 1..k /\ k - 1 \in k - n + 1..k /\ k > k - n + 1
      OBVIOUS
    <3> QED BY <1>2, <3>1 DEF IsRun
  <2>3. RunLength(t, k) = 1
    BY <2>1, <2>2, RunIs
  <2> QED BY <1>2, <2>3
<1>3. CASE t[k] \in {CR, LF} /\ k # 1 /\ t[k - 1] \in {CR, LF} /\ t[k - 1] # t[k]
  <2>1. PICK m \in Nat : m = k - 1 /\ k = m + 1
    OBVIOUS
  <2>2. PICK r \in 0..m : /\ r = RunLength(t, m) /\ IsRun(t, m, r)
                          /\ \A n \in 0..m : IsRun(t, m, n) => n <= r
    BY RunOf
  <2>3. r >= 1
    <3>1. IsRun(t, m, 1) /\ 1 \in 0..m
      BY <1>3, <2>1 DEF IsRun
    <3> QED BY <2>2, <3>1
  <2>4. IsRun(t, k, r + 1)
    <3> SUFFICES ASSUME NEW j \in m - r + 1..m + 1
                 PROVE  t[j] \in {CR, LF} /\ (j > m - r + 1 => t[j] # t[j - 1])
      <4>1. k - (r + 1) + 1 = m - r + 1
        BY <2>1
      <4> QED BY <2>1, <4>1 DEF IsRun
    <3>1. CASE j = m + 1
      BY <1>3, <2>1, <3>1
    <3>2. CASE j # m + 1
      <4>1. j \in m - r + 1..m
        BY <3>2
      <4> QED BY <2>2, <4>1 DEF IsRun
    <3> QED BY <3>1, <3>2
  <2>5. ASSUME NEW n \in r + 2..k, IsRun(t, k, n) PROVE FALSE
    <3>1. n - 1 \in 0..m /\ n - 1 > r
      BY <2>1
    <3>2. IsRun(t, m, n - 1)
      <4>1. m - (n - 1) + 1 = k - n + 1
        BY <2>1
      <4>2. \A j \in k - n + 1..m : j \in k - n + 1..k
        BY <2>1
      <4> QED BY <2>5, <4>1, <4>2 DEF IsRun
    <3> QED BY <2>2, <3>1, <3>2
  <2>6. RunLength(t, k) = r + 1
    <3>1. r + 1 \in 0..k /\ \A n \in r + 1 + 1..k : n \in r + 2..k
      BY <2>1
    <3>2. \A n \in r + 1 + 1..k : ~ IsRun(t, k, n)
      BY <2>5, <3>1
    <3> HIDE DEF IsRun
    <3> QED BY <2>4, <3>1, <3>2, RunIs
  <2> QED BY <1>3, <2>1, <2>2, <2>6
<1> QED BY <1>1, <1>2, <1>3

-----------------------------------------------------------------------------
(* The invariant: types, the buffer, and a picture's text untouched.         *)
TypeInv ==
  /\ kind \in {"text", "foreign", "picture"}
  /\ state \in {"sender", "encoded", "wire", "reading", "text", "done"}
  /\ kind = "text" => value \in Seq(Byte)
  /\ kind = "foreign" => value \in Seq(Piece)
  /\ kind = "picture" => value \in Seq(Byte)
  /\ state = "encoded" => kind = "picture"
  /\ wire \in Seq(Byte)

(* Reading has changed nothing. *)
Untouched ==
  /\ end = Len(wire) + 1 /\ q = p
  /\ \A k \in 1..Len(wire) : mem[k] = wire[k]

PictureInv ==
  kind = "picture" =>
     /\ state = "encoded" => wire = base64_encode(value)
     /\ state \in {"wire", "reading", "text", "done"} => PictureText(value, wire, kept)
     /\ state \in {"reading", "text"} => Untouched
     /\ state = "text" => ~Reading
     /\ state = "done" => got = base64_decode(wire)

PayloadInv == TypeInv /\ BufferInv /\ PictureInv

LEMMA ParseKeeps ==
  ASSUME NEW t \in Seq(Byte), ParseText(t)
  PROVE  /\ BufferInv'
         /\ (\A k \in 1..Len(t) : t[k] # LESS) =>
               end' = Len(t) + 1 /\ q' = p' /\ \A k \in 1..Len(t) : mem'[k] = t[k]
<1> DEFINE T == {k \in 1 .. Len(t) + 1 : k = Len(t) + 1 \/ t[k] = LESS}
<1>1. PICK n \in Nat : n = Len(t)
  BY LenProperties
<1>2. n + 1 \in T /\ \A k \in T : k \in 1..n + 1 /\ (k = n + 1 \/ t[k] = LESS)
  BY <1>1
<1>3. PICK stop : stop = Min(T)
  OBVIOUS
<1>4. stop \in T
  <2>1. T \in SUBSET Nat /\ T # {}
    BY <1>1, <1>2
  <2> HIDE DEF T
  <2> QED BY <1>3, <2>1, MinIs
<1>5. stop \in 1..n + 1 /\ ((\A k \in 1..n : t[k] # LESS) => stop = n + 1)
  <2> HIDE DEF T
  <2>1. stop \in 1..n + 1 /\ (stop = n + 1 \/ t[stop] = LESS)
    BY <1>2, <1>4
  <2>2. stop = n + 1 \/ stop \in 1..n
    BY <1>1, <2>1
  <2> QED BY <2>1, <2>2
<1>6. PICK a : /\ a = Append(t, NUL) /\ a \in [1..n + 1 -> Byte]
               /\ \A k \in 1..n : a[k] = t[k]
  <2>1. PICK z \in Byte : z = NUL
    BY Bytes DEF NUL
  <2>2. /\ Append(t, z) \in Seq(Byte) /\ Len(Append(t, z)) = n + 1
        /\ \A k \in 1..n : Append(t, z)[k] = t[k]
    BY <1>1, AppendProperties
  <2>3. Append(t, z) \in [1..n + 1 -> Byte]
    BY <2>2, LenProperties
  <2> QED BY <2>1, <2>2, <2>3
<1>7. mem' = [a EXCEPT ![stop] = NUL] /\ end' = stop /\ p' = 1 /\ q' = 1
  BY <1>3, <1>6 DEF ParseText
<1>8. /\ mem' \in [1..n + 1 -> Byte] /\ mem'[stop] = NUL
      /\ \A k \in 1..n + 1 : k # stop => mem'[k] = a[k]
  <2>1. NUL \in Byte
    BY Bytes DEF NUL
  <2> QED BY <1>5, <1>6, <1>7, <2>1
<1>9. Len(mem') = n + 1
  <2>1. PICK m \in Nat : m = n + 1
    BY <1>1
  <2>2. mem' = [k \in 1..m |-> mem'[k]]
    BY <1>8, <2>1
  <2> QED BY <2>1, <2>2, LenOfFunction
<1>10. BufferInv'
  <2>1. stop \in 1..n + 1 /\ 1 \in 1..stop /\ 1 \in 1..1
    BY <1>1, <1>5
  <2> QED BY <1>1, <1>7, <1>8, <1>9, <2>1 DEF BufferInv
<1>11. ASSUME \A k \in 1..n : t[k] # LESS
       PROVE  end' = n + 1 /\ q' = p' /\ \A k \in 1..n : mem'[k] = t[k]
  <2>1. stop = n + 1
    BY <1>5, <1>11
  <2>2. \A k \in 1..n : k \in 1..n + 1 /\ k # stop
    BY <1>1, <2>1
  <2> QED BY <1>6, <1>7, <1>8, <2>1, <2>2
<1> QED BY <1>1, <1>10, <1>11

LEMMA FinishKeeps ==
  ASSUME BufferInv, Finish
  PROVE  BufferInv' /\ p' = p /\ q' = q /\ end' = end /\ \A k \in 1..Len(mem) : k # q => mem'[k] = mem[k]
<1>1. PICK n \in Nat : n = Len(mem)
  BY DEF BufferInv
<1>2. /\ mem \in [1..n -> Byte] /\ end \in 1..n /\ mem[end] = NUL /\ p \in 1..end /\ q \in 1..p
  BY <1>1 DEF BufferInv
<1>3. mem' = [mem EXCEPT ![q] = NUL] /\ end' = end /\ p' = p /\ q' = q
  BY DEF Finish
<1>4. /\ mem' \in [1..n -> Byte] /\ mem'[end] = NUL /\ \A k \in 1..n : k # q => mem'[k] = mem[k]
  <2>1. NUL \in Byte
    BY Bytes DEF NUL
  <2> QED BY <1>2, <1>3, <2>1
<1>5. Len(mem') = n
  <2>1. mem' = [k \in 1..n |-> mem'[k]]
    BY <1>4
  <2> QED BY <2>1, LenOfFunction
<1> QED BY <1>1, <1>2, <1>3, <1>4, <1>5 DEF BufferInv

LEMMA PutSame ==
  ASSUME BufferInv, p < end, q = p, NEW b, b = mem[p], Put(<<b>>, p + 1)
  PROVE  end' = end /\ q' = p' /\ \A k \in 1..Len(mem) : mem'[k] = mem[k]
<1>1. PICK n \in Nat, r \in Nat : n = Len(mem) /\ r = p /\ r = q
  <2>1. Len(mem) \in Nat /\ p \in Nat
    BY DEF BufferInv
  <2> QED BY <2>1
<1>2. Len(<<b>>) = 1 /\ <<b>>[1] = b
  OBVIOUS
<1>3. DOMAIN mem = 1..n
  BY <1>1 DEF BufferInv
<1>4. mem' = [k \in 1..n |-> IF k \in r .. r + 1 - 1 THEN <<b>>[k - r + 1] ELSE mem[k]]
  BY <1>1, <1>2, <1>3 DEF Put
<1>5. \A k \in 1..n : IF k = r THEN k \in r .. r + 1 - 1 /\ k - r + 1 = 1 ELSE k \notin r .. r + 1 - 1
  OBVIOUS
<1>6. \A k \in 1..n : mem'[k] = mem[k]
  <2> SUFFICES ASSUME NEW k \in 1..n PROVE mem'[k] = mem[k]
    OBVIOUS
  <2>1. CASE k = r
    <3>1. mem'[k] = <<b>>[1]
      BY <1>4, <1>5, <2>1
    <3> QED BY <1>1, <1>2, <2>1, <3>1
  <2>2. CASE k # r
    BY <1>4, <1>5, <2>2
  <2> QED BY <2>1, <2>2
<1>7. q' = r + 1 /\ p' = r + 1 /\ end' = end
  BY <1>1, <1>2 DEF Put
<1> QED BY <1>1, <1>6, <1>7

(* Reading a text without ampersands, carriage returns and zeros changes     *)
(* nothing.                                                                  *)
Plain(t) == \A k \in 1..Len(t) : t[k] \notin {AMP, CR, NUL}

LEMMA GetStrUntouched ==
  ASSUME BufferInv, wire \in Seq(Byte), Plain(wire), Untouched, GetStr, UNCHANGED wire
  PROVE  Untouched'
<1>1. PICK n \in Nat : n = Len(wire)
  BY LenProperties
<1>2. /\ end = n + 1 /\ q = p /\ p \in Nat /\ p < end /\ p \in 1..n /\ end <= Len(mem) /\ Len(mem) \in Nat
      /\ mem[end] = NUL /\ \A k \in 1..n : mem[k] = wire[k]
  <2>1. p < end
    BY DEF GetStr, NewLine, CharacterReference, Entity, Unknown, Copy, Reading
  <2> QED BY <1>1, <2>1 DEF BufferInv, Untouched
<1>3. mem[p] # AMP /\ mem[p] # CR
  BY <1>1, <1>2 DEF Plain
<1>4. mem[p + 1] # CR
  <2>1. p + 1 = end \/ p + 1 \in 1..n
    BY <1>1, <1>2
  <2> QED BY <1>1, <1>2, <2>1 DEF Plain, NUL, CR
<1>5. Put(<<mem[p]>>, p + 1)
  <2>1. NewLine \/ Copy
    BY <1>3 DEF GetStr, CharacterReference, Entity, Unknown
  <2>2. CASE NewLine
    BY <1>3, <1>4, <2>2 DEF NewLine
  <2>3. CASE Copy
    BY <2>3 DEF Copy
  <2> QED BY <2>1, <2>2, <2>3
<1>6. end' = end /\ q' = p' /\ \A k \in 1..Len(mem) : mem'[k] = mem[k]
  BY <1>2, <1>5, PutSame
<1>7. \A k \in 1..n : k \in 1..Len(mem)
  BY <1>2
<1> QED BY <1>1, <1>2, <1>6, <1>7 DEF Untouched

(* The text in a buffer. *)
StringOf(m) == SubSeq(m, 1, Min({k \in 1..Len(m) : m[k] = NUL}) - 1)

LEMMA StringIs ==
  ASSUME NEW m, NEW u \in Seq(Byte), NEW n \in Nat, n = Len(u), Len(m) \in Nat, n + 1 <= Len(m),
         m[n + 1] = NUL, \A k \in 1..n : m[k] = u[k] /\ u[k] # NUL
  PROVE  StringOf(m) = u
<1>1. PICK T : T = {k \in 1..Len(m) : m[k] = NUL}
  OBVIOUS
<1>2. \A k \in T : k \in Nat /\ k >= n + 1
  BY <1>1
<1>3. n + 1 \in T
  BY <1>1
<1>4. PICK z \in Nat : z = Min(T) /\ z = n + 1
  <2>1. T \in SUBSET Nat /\ T # {}
    BY <1>2, <1>3
  <2>2. Min(T) \in T /\ \A k \in T : Min(T) <= k
    BY <2>1, MinIs
  <2>3. PICK z \in Nat : z = Min(T)
    BY <1>2, <2>2
  <2>4. z <= n + 1 /\ z >= n + 1
    BY <1>2, <1>3, <2>2, <2>3
  <2> QED BY <2>3, <2>4
<1>5. StringOf(m) = SubSeq(m, 1, n)
  <2>1. Min(T) - 1 = n
    BY <1>4
  <2> QED BY <1>1, <2>1 DEF StringOf
<1>6. \A k \in 1..n : m[k] \in Byte
  <2>1. \A k \in 1..n : u[k] \in Byte
    BY ElementOfSeq
  <2> QED BY <2>1
<1>7. PICK v \in Seq(Byte) : v = SubSeq(m, 1, n) /\ Len(v) = n /\ \A k \in 1..n : v[k] = m[k]
  <2>1. SubSeq(m, 1, n) \in Seq(Byte) /\ Len(SubSeq(m, 1, n)) = n /\ \A k \in 1..n : SubSeq(m, 1, n)[k] = m[k]
    BY <1>6, PrefixIs
  <2> QED BY <2>1
<1>8. v = u
  BY <1>7, SeqEqual
<1> QED BY <1>5, <1>7, <1>8

LEMMA StrIs ==
  ASSUME BufferInv, wire \in Seq(Byte), Plain(wire), Untouched
  PROVE  Str = wire
<1>1. PICK n \in Nat, u \in Seq(Byte) : u = wire /\ n = Len(u)
  BY LenProperties
<1>2. PICK m : m = mem
  OBVIOUS
<1>3. end = n + 1 /\ end <= Len(m) /\ Len(m) \in Nat /\ m[end] = NUL
  BY <1>1, <1>2 DEF BufferInv, Untouched
<1>4. \A k \in 1..n : m[k] = u[k] /\ u[k] # NUL
  BY <1>1, <1>2 DEF Untouched, Plain
<1>5. StringOf(m) = u
  BY <1>1, <1>3, <1>4, StringIs
<1>6. Str = StringOf(m)
  BY <1>2 DEF Str, StringOf, Positions
<1> QED BY <1>1, <1>5, <1>6

-----------------------------------------------------------------------------
(* The last newline of a run of odd length has been read, or none.           *)
Fresh(t, i) == i < Len(t) /\ t[i + 1] \in {CR, LF} => RunLength(t, i + 1) % 2 = 1

LEMMA FreshAfter ==
  ASSUME NEW t, NEW i \in Nat, i >= 1, Len(t) \in Nat,
         \/ t[i] \notin {CR, LF}
         \/ RunLength(t, i) % 2 = 0
         \/ i < Len(t) => t[i + 1] \notin {CR, LF} \/ t[i + 1] = t[i]
  PROVE  Fresh(t, i)
<1> SUFFICES ASSUME i < Len(t), t[i + 1] \in {CR, LF}
             PROVE  RunLength(t, i + 1) % 2 = 1
  BY DEF Fresh
<1>1. PICK k \in Nat : k = i + 1 /\ k >= 1 /\ k # 1 /\ k - 1 = i
  OBVIOUS
<1>2. RunLength(t, k) = IF t[i] \notin {CR, LF} \/ t[i] = t[k] THEN 1 ELSE RunLength(t, i) + 1
  BY <1>1, RunStep
<1>3. PICK r \in Nat : r = RunLength(t, i)
  <2>1. RunLength(t, i) \in 0..i
    BY RunOf
  <2> QED BY <2>1
<1>4. RunLength(t, k) = 1 \/ (r % 2 = 0 /\ RunLength(t, k) = r + 1)
  BY <1>1, <1>2, <1>3
<1>5. r % 2 = 0 => (r + 1) % 2 = 1
  OBVIOUS
<1> QED BY <1>1, <1>4, <1>5

(* What has been read of a printed text, up to its character i: the rest of  *)
(* it is as it was printed, and behind the write pointer lies its beginning. *)
TextAt(t, i) ==
  /\ i \in 0..Len(t) /\ Fresh(t, i)
  /\ p = Len(Printed(t, i)) + 1 /\ q = Len(Cleaned(t, i)) + 1
  /\ \A k \in 1..Len(Cleaned(t, i)) : mem[k] = Cleaned(t, i)[k]

TextRead(t) ==
  /\ end = Len(wire) + 1
  /\ \A k \in p..Len(wire) : mem[k] = wire[k]
  /\ \E i \in 0..Len(t) : TextAt(t, i)

LEMMA PutPlaces ==
  ASSUME BufferInv, NEW b, NEW next, Put(<<b>>, next)
  PROVE  /\ q' = q + 1 /\ p' = next /\ end' = end /\ mem'[q] = b
         /\ \A k \in 1..Len(mem) : k # q => mem'[k] = mem[k]
<1>1. PICK n \in Nat, r \in Nat : n = Len(mem) /\ r = q /\ r \in 1..n
  <2>1. Len(mem) \in Nat /\ q \in 1..Len(mem)
    BY DEF BufferInv
  <2> QED BY <2>1
<1>2. Len(<<b>>) = 1 /\ <<b>>[1] = b
  OBVIOUS
<1>3. DOMAIN mem = 1..n
  BY <1>1 DEF BufferInv
<1>4. mem' = [k \in 1..n |-> IF k \in r .. r + 1 - 1 THEN <<b>>[k - r + 1] ELSE mem[k]]
  BY <1>1, <1>2, <1>3 DEF Put
<1>5. \A k \in 1..n : IF k = r THEN k \in r .. r + 1 - 1 /\ k - r + 1 = 1 ELSE k \notin r .. r + 1 - 1
  OBVIOUS
<1>6. mem'[r] = b
  <2>1. r \in 1..n /\ r \in r .. r + 1 - 1 /\ r - r + 1 = 1
    BY <1>1
  <2>2. mem'[r] = <<b>>[r - r + 1]
    BY <1>4, <2>1
  <2> QED BY <1>2, <2>1, <2>2
<1>7. \A k \in 1..n : k # r => mem'[k] = mem[k]
  BY <1>4, <1>5
<1>8. q' = r + 1 /\ p' = next /\ end' = end
  BY <1>1, <1>2 DEF Put
<1> QED BY <1>1, <1>6, <1>7, <1>8

LEMMA Advance ==
  ASSUME BufferInv, NEW t \in Seq(Byte), wire \in Seq(Byte), TextRead(t), UNCHANGED wire,
         NEW i \in 0..Len(t), TextAt(t, i), NEW j \in i + 1..Len(t), Fresh(t, j),
         NEW b \in Byte, Cleaned(t, j) = Cleaned(t, i) \o <<b>>,
         NEW next \in Nat, next = Len(Printed(t, j)) + 1, next > p, Put(<<b>>, next)
  PROVE  TextRead(t)'
<1>1. PICK n \in Nat, m \in Nat : n = Len(t) /\ m = Len(wire) /\ j \in 0..n
  <2>1. Len(t) \in Nat /\ Len(wire) \in Nat
    BY LenProperties
  <2> QED BY <2>1
<1>2. PICK g \in Seq(Byte), h \in Seq(Byte) : g = Cleaned(t, i) /\ h = Cleaned(t, j)
  BY <1>1, CleanedIs
<1>3. PICK l \in Nat : l = Len(g)
  BY LenProperties
<1>4. Len(h) = l + 1 /\ h[l + 1] = b /\ \A k \in 1..l : h[k] = g[k]
  <2>0. <<b>> \in Seq(Byte) /\ Len(<<b>>) = 1 /\ <<b>>[1] = b
    OBVIOUS
  <2>1. PICK z \in Seq(Byte) : z = <<b>> /\ Len(z) = 1 /\ z[1] = b
    BY <2>0
  <2>2. h = g \o z
    BY <1>2, <2>1
  <2>3. /\ Len(h) = Len(g) + Len(z)
        /\ \A k \in 1..Len(g) : h[k] = g[k]
        /\ \A k \in 1..Len(z) : h[Len(g) + k] = z[k]
    BY <2>2, JoinIs
  <2>4. 1 \in 1..Len(z)
    BY <2>1
  <2> QED BY <1>3, <2>1, <2>3, <2>4
<1>5. /\ q = l + 1 /\ q <= p /\ p \in Nat /\ p <= end /\ end <= Len(mem) /\ Len(mem) \in Nat /\ end = m + 1
      /\ \A k \in p..m : mem[k] = wire[k]
  <2>1. q <= p /\ p \in Nat /\ p <= end /\ end <= Len(mem) /\ Len(mem) \in Nat
    BY DEF BufferInv
  <2>2. q = l + 1
    BY <1>2, <1>3 DEF TextAt
  <2>3. end = m + 1 /\ \A k \in p..m : mem[k] = wire[k]
    BY <1>1 DEF TextRead
  <2> QED BY <2>1, <2>2, <2>3
<1>6. \A k \in 1..l : mem[k] = g[k]
  BY <1>2, <1>3 DEF TextAt
<1>7. /\ q' = q + 1 /\ p' = next /\ end' = end /\ mem'[q] = b
      /\ \A k \in 1..Len(mem) : k # q => mem'[k] = mem[k]
  BY PutPlaces
<1>8. \A k \in next..m : mem'[k] = wire[k]
  <2>1. p \in Nat /\ q \in Nat /\ q <= p /\ p < next /\ 1 <= p
    BY <1>5
  <2>2. PICK z \in Nat : z = Len(mem) /\ m < z
    BY <1>5
  <2>3. \A k \in next..m : k \in p..m /\ k \in 1..z /\ k # q
    BY <2>1, <2>2
  <2> QED BY <1>5, <1>7, <2>2, <2>3
<1>9. \A k \in 1..l + 1 : mem'[k] = h[k]
  <2> SUFFICES ASSUME NEW k \in 1..l + 1 PROVE mem'[k] = h[k]
    OBVIOUS
  <2>1. CASE k = l + 1
    BY <1>4, <1>5, <1>7, <2>1
  <2>2. CASE k # l + 1
    <3>1. k \in 1..l /\ k \in 1..Len(mem) /\ k # q
      BY <1>5, <2>2
    <3> QED BY <1>4, <1>6, <1>7, <3>1
  <2> QED BY <2>1, <2>2
<1>10. TextAt(t, j)'
  <2>1. q' = Len(h) + 1
    BY <1>4, <1>5, <1>7
  <2> QED BY <1>1, <1>2, <1>4, <1>7, <1>9, <2>1 DEF TextAt
<1> QED BY <1>1, <1>5, <1>7, <1>8, <1>10 DEF TextRead

(* No two entities begin alike. *)
LEMMA EntitiesDiffer ==
  ASSUME NEW y \in entities, NEW z \in entities,
         z.pattern[1] = y.pattern[1], z.pattern[2] = y.pattern[2]
  PROVE  z = y
<1> DEFINE Is(e, v, b, d) == e.value = v /\ e.pattern[1] = b /\ e.pattern[2] = d
<1>1. ASSUME NEW e \in entities
      PROVE  \/ Is(e, QUOT, 113, 117) \/ Is(e, AMP, 97, 109) \/ Is(e, APOS, 97, 112)
             \/ Is(e, LESS, 108, 116) \/ Is(e, GREATER, 103, 116)
  BY DEF entities
<1>2. z.value = y.value
  BY <1>1
<1>3. \A e, f \in entities : e.value = f.value => e = f
  BY DEF entities, QUOT, AMP, APOS, LESS, GREATER
<1> QED BY <1>2, <1>3

(* The read pointer stands in front of e. *)
InFrontOf(e, a, len) ==
  /\ p = a + 1 /\ p + len <= end /\ end \in Nat
  /\ \A j \in 1..len : mem[a + j] = e[j]

LEMMA EntityRead ==
  ASSUME BufferInv, GetStr, NEW c \in restrictedEntityFlag,
         NEW a \in Nat, NEW len \in Nat, len = Len(Escaped(c)), InFrontOf(Escaped(c), a, len)
  PROVE  Put(<<c>>, p + len)
<1>1. p = a + 1 /\ p + len <= end /\ end \in Nat
  BY DEF InFrontOf
<1>2. \A j \in 1..len : mem[a + j] = Escaped(c)[j]
  BY DEF InFrontOf
<1>3. PICK y \in entities : /\ y.value = c /\ Len(y.pattern) \in Nat /\ Len(y.pattern) >= 2
                            /\ len = Len(y.pattern) + 2
                            /\ Escaped(c)[1] = AMP /\ Escaped(c)[Len(y.pattern) + 2] = SEMICOLON
                            /\ \A j \in 1..Len(y.pattern) : Escaped(c)[1 + j] = y.pattern[j]
  BY EscapedIs
<1>4. PICK l \in Nat : l = Len(y.pattern)
  BY <1>3
<1>5. len = l + 2 /\ l >= 2
  BY <1>3, <1>4
<1>6. PICK z0 \in Nat : Len(mem) = z0 /\ mem \in [1..z0 -> Byte] /\ end <= z0
  <2>1. Len(mem) \in Nat /\ mem \in [1..Len(mem) -> Byte] /\ end <= Len(mem)
    BY DEF BufferInv
  <2> QED BY <2>1
<1>7. mem[p] = AMP /\ mem[p + 1] = y.pattern[1] /\ mem[p + 2] = y.pattern[2]
  <2>1. 1 \in 1..len /\ 2 \in 1..len /\ 3 \in 1..len
    BY <1>5
  <2>2. mem[a + 1] = Escaped(c)[1] /\ mem[a + 2] = Escaped(c)[2] /\ mem[a + 3] = Escaped(c)[3]
    BY <1>2, <2>1
  <2>3. 1 \in 1..l /\ 2 \in 1..l /\ 1 + 1 = 2 /\ 1 + 2 = 3
    BY <1>5
  <2>4. Escaped(c)[2] = y.pattern[1] /\ Escaped(c)[3] = y.pattern[2]
    BY <1>3, <1>4, <2>3
  <2>5. p = a + 1 /\ p + 1 = a + 2 /\ p + 2 = a + 3
    BY <1>1
  <2> QED BY <1>3, <2>2, <2>4, <2>5
<1>8. mem[p + 1] # HASH
  <2>1. y.pattern[1] # HASH
    BY DEF entities, HASH
  <2> QED BY <1>7, <2>1
<1>9. ASSUME NEW z \in Entities PROVE z = y
  <2>1. z \in entities
    BY DEF Entities
  <2>2. PICK w \in Nat : w = Len(z.pattern)
    BY <2>1, PatternType
  <2>8. w >= 2
    BY <2>1, <2>2, PatternType
  <2>3. SubSeq(mem, p + 1, p + w + 1) = Append(z.pattern, SEMICOLON)
    BY <2>2 DEF Entities
  <2>7. p + w + 1 < end
    BY <2>2 DEF Entities
  <2>4. Append(z.pattern, SEMICOLON)[1] = z.pattern[1] /\ Append(z.pattern, SEMICOLON)[2] = z.pattern[2]
    <3>1. PICK v \in Seq(Byte), d \in Byte : v = z.pattern /\ d = SEMICOLON /\ Len(v) = w
      <4>1. z.pattern \in Seq(Byte)
        BY <2>1, PatternType
      <4>2. SEMICOLON \in Byte
        BY Bytes DEF SEMICOLON
      <4> QED BY <2>2, <4>1, <4>2
    <3>2. \A k \in 1..w : Append(v, d)[k] = v[k]
      BY <3>1, AppendProperties
    <3>3. 1 \in 1..w /\ 2 \in 1..w
      BY <2>8
    <3> QED BY <3>1, <3>2, <3>3
  <2>5. SubSeq(mem, p + 1, p + w + 1)[1] = mem[p + 1] /\ SubSeq(mem, p + 1, p + w + 1)[2] = mem[p + 2]
    <3>1. PICK k \in Nat : k = w + 1
      OBVIOUS
    <3>2. p + w + 1 = p + k /\ 1 \in 1..k /\ 2 \in 1..k /\ p \in Nat
      BY <1>1, <2>8, <3>1
    <3>3. \A j \in 1..k : p + j \in 1..z0
      BY <1>1, <1>6, <2>8, <2>7, <3>1
    <3>4. \A j \in 1..k : mem[p + j] \in Byte
      BY <1>6, <3>3
    <3>5. \A j \in 1..k : SubSeq(mem, p + 1, p + k)[j] = mem[p + j]
      BY <3>2, <3>4, PieceIs
    <3> QED BY <3>2, <3>5
  <2>6. z.pattern[1] = y.pattern[1] /\ z.pattern[2] = y.pattern[2]
    BY <1>7, <2>3, <2>4, <2>5
  <2> QED BY <2>1, <2>6, EntitiesDiffer
<1>10. y \in Entities
  <2>1. p + l + 1 < end
    BY <1>1, <1>5
  <2>2. SubSeq(mem, p + 1, p + l + 1) = Append(y.pattern, SEMICOLON)
    <3>1. PICK v \in Seq(Byte), d \in Byte : v = y.pattern /\ d = SEMICOLON /\ Len(v) = l
      <4>1. y.pattern \in Seq(Byte)
        BY PatternType
      <4>2. SEMICOLON \in Byte
        BY Bytes DEF SEMICOLON
      <4> QED BY <1>4, <4>1, <4>2
    <3>2. PICK u \in Seq(Byte) : /\ u = Append(v, d) /\ Len(u) = l + 1 /\ u[l + 1] = d
                                 /\ \A k \in 1..l : u[k] = v[k]
      <4>1. /\ Append(v, d) \in Seq(Byte) /\ Len(Append(v, d)) = Len(v) + 1
            /\ \A k \in 1..Len(v) : Append(v, d)[k] = v[k]
            /\ Append(v, d)[Len(v) + 1] = d
        BY AppendProperties
      <4> QED BY <3>1, <4>1
    <3>3. PICK k \in Nat : k = l + 1 /\ p + l + 1 = p + k
      <4>1. l + 1 \in Nat /\ p + l + 1 = p + (l + 1)
        BY <1>1
      <4> QED BY <4>1
    <3>4. ASSUME NEW j \in 1..k PROVE mem[p + j] = u[j] /\ u[j] \in Byte
      <4>1. 1 + j \in 1..len /\ p + j = a + (1 + j)
        BY <1>1, <1>5, <3>3
      <4>2. mem[p + j] = Escaped(c)[1 + j]
        BY <1>2, <4>1
      <4>3. u[j] \in Byte
        BY <3>2, <3>3, ElementOfSeq
      <4>4. CASE j = k
        <5>1. 1 + j = l + 2
          BY <3>3, <4>4
        <5> QED BY <1>3, <1>4, <1>5, <3>1, <3>2, <3>3, <4>2, <4>3, <4>4, <5>1
      <4>5. CASE j # k
        <5>1. j \in 1..l
          BY <3>3, <4>5
        <5> QED BY <1>3, <1>4, <3>1, <3>2, <4>2, <4>3, <5>1
      <4> QED BY <4>4, <4>5
    <3>5. p \in Nat
      BY <1>1
    <3>6. PICK s \in Seq(Byte) : s = SubSeq(mem, p + 1, p + k) /\ Len(s) = k /\ \A j \in 1..k : s[j] = mem[p + j]
      <4>1. \A j \in 1..k : mem[p + j] \in Byte
        BY <3>4
      <4>2. /\ SubSeq(mem, p + 1, p + k) \in Seq(Byte) /\ Len(SubSeq(mem, p + 1, p + k)) = k
            /\ \A j \in 1..k : SubSeq(mem, p + 1, p + k)[j] = mem[p + j]
        BY <3>5, <4>1, PieceIs
      <4> QED BY <4>2
    <3>7. s = u
      BY <3>2, <3>3, <3>4, <3>6, SeqEqual
    <3> QED BY <3>1, <3>2, <3>3, <3>6, <3>7
  <2> QED BY <1>4, <2>1, <2>2 DEF Entities
<1>11. Entity
  <2>1. mem[p] # CR /\ mem[p] # LF
    BY <1>7 DEF AMP, CR, LF
  <2> QED BY <1>7, <1>8, <1>10, <2>1 DEF GetStr, NewLine, CharacterReference, Unknown, Copy
<1>12. PICK z \in Entities : Put(<<z.value>>, p + Len(z.pattern) + 2)
  BY <1>11 DEF Entity
<1>13. Put(<<c>>, p + l + 2)
  BY <1>3, <1>4, <1>9, <1>12
<1>14. p + l + 2 = p + len
  BY <1>1, <1>5
<1> QED BY <1>13, <1>14

(* A turn of the loop reads a character of the text, or two newlines. *)
LEMMA TextTurn ==
  ASSUME BufferInv, NEW t \in Seq(Byte), wire = PrintString(t), TextRead(t), GetStr, UNCHANGED wire
  PROVE  TextRead(t)'
<1>1. PICK n \in Nat : n = Len(t) /\ \A k \in 1..n : t[k] \in Byte
  BY LenProperties, ElementOfSeq
<1>2. wire \in Seq(Byte)
  BY PrintType
<1>3. PICK m \in Nat : m = Len(wire)
  BY <1>2, LenProperties
<1>4. PICK i \in 0..n : TextAt(t, i)
  BY <1>1 DEF TextRead
<1>5. PICK a \in Nat : a = Len(Printed(t, i)) /\ p = a + 1
  <2>1. Printed(t, i) \in Seq(Byte)
    BY <1>1, PrintedIs
  <2> QED BY <1>4, <2>1, LenProperties DEF TextAt
<1>6. /\ end = m + 1 /\ p < end /\ mem[end] = NUL /\ \A k \in p..m : mem[k] = wire[k]
  <2>1. p < end
    BY DEF GetStr, NewLine, CharacterReference, Entity, Unknown, Copy, Reading
  <2>2. mem[end] = NUL
    BY DEF BufferInv
  <2> QED BY <1>3, <2>1, <2>2 DEF TextRead
<1>7. i # n
  <2>1. ASSUME i = n PROVE FALSE
    <3>1. a = m
      BY <1>1, <1>3, <1>5, <2>1, PrintedIs
    <3> QED BY <1>5, <1>6, <3>1
  <2> QED BY <2>1
<1>8. PICK x \in 1..n, c \in Byte : x = i + 1 /\ c = t[x] /\ x - 1 = i
  <2>1. i + 1 \in 1..n /\ i + 1 - 1 = i
    BY <1>7
  <2> QED BY <1>1, <2>1
<1>9. PICK e \in Seq(Byte) : e = Escaped(c)
  BY EscapedType
<1>10. PICK len \in Nat : len = Len(e)
  BY LenProperties
<1>17. \A y \in 1..n :
          /\ Len(Printed(t, y)) = Len(Printed(t, y - 1)) + Len(Escaped(t[y]))
          /\ Len(Printed(t, y)) <= m
          /\ \A j \in 1..Len(Escaped(t[y])) : wire[Len(Printed(t, y - 1)) + j] = Escaped(t[y])[j]
  <2>1. \A y \in 1..Len(t) :
          /\ Len(Printed(t, y)) = Len(Printed(t, y - 1)) + Len(Escaped(t[y]))
          /\ Len(Printed(t, y)) <= Len(PrintString(t))
          /\ \A j \in 1..Len(Escaped(t[y])) :
                PrintString(t)[Len(Printed(t, y - 1)) + j] = Escaped(t[y])[j]
    BY CharacterPlaces
  <2> QED BY <1>1, <1>3, <2>1
<1>11. Len(Printed(t, x)) = a + len /\ a + len <= m /\ \A j \in 1..len : wire[a + j] = e[j]
  <2>1. e = Escaped(t[x]) /\ len = Len(Escaped(t[x])) /\ a = Len(Printed(t, x - 1))
    BY <1>5, <1>8, <1>9, <1>10
  <2> QED BY <1>17, <2>1
<1>12. \A j \in 1..len : mem[a + j] = e[j]
  <2>1. \A j \in 1..len : a + j \in p..m
    BY <1>5, <1>11
  <2> QED BY <1>6, <1>11, <2>1
<1>13. Cleaned(t, x) = Cleaned(t, i) \o ReadAs(t, x)
  BY <1>1, <1>8, CleanedIs
<1>14. PICK r \in Nat : r = RunLength(t, x)
  <2>1. RunLength(t, x) \in 0..x
    BY RunOf
  <2> QED BY <2>1
<1>15. c \notin {CR, LF} => ReadAs(t, x) = <<c>>
  <2>1. c \notin {CR, LF} => RunLength(t, x) = 0
    BY <1>8, RunStep
  <2> QED BY <1>8, <2>1 DEF ReadAs
<1>16. x \in i + 1..Len(t) /\ i \in 0..Len(t)
  BY <1>1, <1>8
<1>20. CASE c \notin restrictedEntityFlag /\ c \notin {CR, LF}
  <2>1. len = 1 /\ e[1] = c
    BY <1>9, <1>10, <1>20 DEF Escaped
  <2>2. mem[p] = c
    <3>1. 1 \in 1..len
      BY <2>1
    <3> QED BY <1>5, <1>12, <2>1, <3>1
  <2>3. Put(<<c>>, p + 1)
    <3>1. mem[p] \notin {CR, LF, AMP}
      BY <1>20, <2>2 DEF restrictedEntityFlag
    <3> QED BY <2>2, <3>1 DEF GetStr, NewLine, CharacterReference, Entity, Unknown, Copy
  <2>4. Fresh(t, x)
    BY <1>1, <1>8, <1>20, FreshAfter
  <2>5. Cleaned(t, x) = Cleaned(t, i) \o <<c>>
    BY <1>13, <1>15, <1>20
  <2>6. p + 1 \in Nat /\ p + 1 = Len(Printed(t, x)) + 1 /\ p + 1 > p
    BY <1>5, <1>11, <2>1
  <2> QED BY <1>2, <1>4, <1>16, <2>3, <2>4, <2>5, <2>6, Advance
<1>21. CASE c \in restrictedEntityFlag
  <2>1. len >= 4
    BY <1>9, <1>10, <1>21, EscapedIs
  <2>2. Put(<<c>>, p + len)
    <3>1. p + len <= end /\ end \in Nat
      BY <1>5, <1>6, <1>11
    <3>2. InFrontOf(Escaped(c), a, len)
      BY <1>5, <1>9, <1>12, <3>1 DEF InFrontOf
    <3> QED BY <1>9, <1>10, <1>21, <3>2, EntityRead
  <2>8. c \notin {CR, LF}
    BY <1>21 DEF restrictedEntityFlag, CR, LF, LESS, GREATER, AMP
  <2>9. Fresh(t, x)
    BY <1>1, <1>8, <2>8, FreshAfter
  <2>10. Cleaned(t, x) = Cleaned(t, i) \o <<c>>
    BY <1>13, <1>15, <2>8
  <2>11. p + len \in Nat /\ p + len = Len(Printed(t, x)) + 1 /\ p + len > p
    BY <1>5, <1>11, <2>1
  <2> QED BY <1>2, <1>4, <1>16, <2>2, <2>9, <2>10, <2>11, Advance
<1>22. CASE c \in {CR, LF}
  <2>1. c \notin restrictedEntityFlag /\ c # AMP
    BY <1>22 DEF restrictedEntityFlag, CR, LF, LESS, GREATER, AMP
  <2>2. len = 1 /\ e[1] = c
    BY <1>9, <1>10, <2>1 DEF Escaped
  <2>3. mem[p] = c
    <3>1. 1 \in 1..len
      BY <2>2
    <3> QED BY <1>5, <1>12, <2>2, <3>1
  <2>4. r % 2 = 1
    BY <1>1, <1>4, <1>8, <1>14, <1>22 DEF TextAt, Fresh
  <2>5. Cleaned(t, x) = Cleaned(t, i) \o <<LF>>
    <3>1. ReadAs(t, x) = <<LF>>
      BY <1>14, <2>4 DEF ReadAs
    <3> QED BY <1>13, <3>1
  <2>6. LF \in Byte
    BY TableIs
  <2>7. PICK o \in {CR, LF} : o = IF c = CR THEN LF ELSE CR
    OBVIOUS
  <2>8. o # c /\ o \notin restrictedEntityFlag /\ o \in Byte /\ o # AMP /\ o # NUL
    <3>1. (c = 13 /\ o = 10) \/ (c = 10 /\ o = 13)
      BY <1>22, <2>7 DEF CR, LF
    <3>2. o # c /\ o \notin restrictedEntityFlag /\ o # AMP /\ o # NUL
      BY <3>1 DEF restrictedEntityFlag, LESS, GREATER, AMP, NUL
    <3>3. 10 \in Byte /\ 13 \in Byte
      BY Bytes
    <3> QED BY <3>1, <3>2, <3>3
  <2>9. Put(<<LF>>, IF mem[p + 1] = o THEN p + 2 ELSE p + 1)
    <3>1. NewLine
      BY <1>22, <2>1, <2>3 DEF GetStr, CharacterReference, Entity, Unknown, Copy
    <3>2. CR # LF
      BY DEF CR, LF
    <3> QED BY <1>22, <2>3, <2>7, <3>1, <3>2 DEF NewLine
  <2>10. CASE x < n /\ t[x + 1] = o
    <3>1. PICK y \in 1..n : y = x + 1 /\ y - 1 = x
      <4>1. x + 1 \in 1..n /\ x + 1 - 1 = x
        BY <2>10
      <4> QED BY <4>1
    <3>2. Escaped(t[y]) = <<o>>
      BY <2>8, <2>10, <3>1 DEF Escaped
    <3>3. PICK b \in Nat : b = Len(Printed(t, y - 1)) /\ b = a + 1
      BY <1>11, <2>2, <3>1
    <3>4. Len(Printed(t, y)) = b + 1 /\ b + 1 <= m /\ wire[b + 1] = o
      <4>1. Len(<<o>>) = 1 /\ <<o>>[1] = o /\ 1 \in 1..1
        OBVIOUS
      <4>2. PICK f \in Seq(Byte) : f = Escaped(t[y]) /\ Len(f) = 1 /\ f[1] = o
        <5>1. <<o>> \in Seq(Byte)
          BY <2>8
        <5> QED BY <3>2, <4>1, <5>1, Zenon
      <4>3. PICK w \in Nat : w = Len(f) /\ w = 1
        BY <4>2
      <4>4. Len(Printed(t, y)) = b + w /\ b + w <= m /\ \A j \in 1..w : wire[b + j] = f[j]
        <5>1. /\ Len(Printed(t, y)) = Len(Printed(t, y - 1)) + Len(Escaped(t[y]))
              /\ Len(Printed(t, y)) <= m
              /\ \A j \in 1..Len(Escaped(t[y])) : wire[Len(Printed(t, y - 1)) + j] = Escaped(t[y])[j]
          BY <1>17
        <5> QED BY <3>3, <4>2, <4>3, <5>1
      <4> QED BY <4>1, <4>2, <4>3, <4>4
    <3>5. mem[p + 1] = o
      <4>1. p + 1 = b + 1 /\ b + 1 \in p..m
        BY <1>5, <3>3, <3>4
      <4> QED BY <1>6, <3>4, <4>1
    <3>6. RunLength(t, y) = r + 1 /\ (r + 1) % 2 = 0
      <4>1. y \in Nat /\ y >= 1 /\ y # 1
        BY <3>1
      <4>2. RunLength(t, y) = r + 1
        BY <1>8, <1>14, <1>22, <2>7, <2>8, <2>10, <3>1, <4>1, RunStep
      <4> QED BY <2>4, <4>2
    <3>7. Cleaned(t, y) = Cleaned(t, i) \o <<LF>>
      <4>1. ReadAs(t, y) = <<>>
        BY <3>6 DEF ReadAs
      <4>2. Cleaned(t, y) = Cleaned(t, x) \o <<>> /\ Cleaned(t, x) \in Seq(Byte)
        <5>1. Cleaned(t, y) = Cleaned(t, y - 1) \o ReadAs(t, y)
          BY <1>1, CleanedIs
        <5>2. Cleaned(t, x) \in Seq(Byte)
          <6>1. x \in 0..n
            OBVIOUS
          <6> QED BY <1>1, <6>1, CleanedIs
        <5> QED BY <3>1, <4>1, <5>1, <5>2
      <4> QED BY <2>5, <4>2, ConcatEmptySeq
    <3>8. Fresh(t, y)
      BY <1>1, <3>6, FreshAfter
    <3>9. /\ Put(<<LF>>, p + 2) /\ y \in i + 1..Len(t)
          /\ p + 2 \in Nat /\ p + 2 = Len(Printed(t, y)) + 1 /\ p + 2 > p
      BY <1>1, <1>5, <1>8, <2>9, <3>1, <3>3, <3>4, <3>5
    <3> QED BY <1>2, <1>4, <1>16, <2>6, <3>7, <3>8, <3>9, Advance
  <2>11. CASE ~ (x < n /\ t[x + 1] = o)
    <3>1. mem[p + 1] # o
      <4>1. CASE x = n
        <5>1. m = a + 1
          BY <1>1, <1>3, <1>11, <2>2, <4>1, PrintedIs
        <5> QED BY <1>5, <1>6, <2>8, <5>1
      <4>2. CASE x # n
        <5>1. PICK y \in 1..n, d \in Byte : y = x + 1 /\ y - 1 = x /\ d = t[y]
          <6>1. x + 1 \in 1..n /\ x + 1 - 1 = x
            BY <4>2
          <6> QED BY <1>1, <6>1
        <5>2. d # o
          BY <2>11, <5>1
        <5>3. PICK f \in Seq(Byte), w \in Nat : f = Escaped(d) /\ w = Len(f) /\ w >= 1 /\ f[1] # o
          <6>1. PICK f \in Seq(Byte) : f = Escaped(d)
            BY EscapedType
          <6>2. Len(f) >= 1 /\ f[1] # o
            <7>1. CASE d \in restrictedEntityFlag
              BY <2>8, <6>1, <7>1, EscapedIs
            <7>2. CASE d \notin restrictedEntityFlag
              <8>1. f = <<d>>
                BY <6>1, <7>2 DEF Escaped
              <8> QED BY <5>2, <8>1
            <7> QED BY <7>1, <7>2
          <6> QED BY <6>1, <6>2, LenProperties
        <5>4. PICK b \in Nat : b = Len(Printed(t, y - 1)) /\ b = a + 1
          BY <1>11, <2>2, <5>1
        <5>5. Len(Printed(t, y)) = b + w /\ b + w <= m /\ \A j \in 1..w : wire[b + j] = f[j]
          <6>1. f = Escaped(t[y]) /\ w = Len(f)
            BY <5>1, <5>3
          <6>2. /\ Len(Printed(t, y)) = Len(Printed(t, y - 1)) + Len(Escaped(t[y]))
                /\ Len(Printed(t, y)) <= m
                /\ \A j \in 1..Len(Escaped(t[y])) : wire[Len(Printed(t, y - 1)) + j] = Escaped(t[y])[j]
            BY <1>17
          <6> QED BY <5>4, <6>1, <6>2
        <5>6. wire[b + 1] = f[1] /\ p + 1 = b + 1 /\ b + 1 \in p..m
          BY <1>5, <5>3, <5>4, <5>5
        <5> QED BY <1>6, <5>3, <5>6
      <4> QED BY <4>1, <4>2
    <3>2. Fresh(t, x)
      <4>1. x < Len(t) => t[x + 1] \notin {CR, LF} \/ t[x + 1] = t[x]
        BY <1>1, <1>8, <1>22, <2>7, <2>11
      <4> QED BY <1>1, <4>1, FreshAfter
    <3>3. Put(<<LF>>, p + 1) /\ p + 1 \in Nat /\ p + 1 = Len(Printed(t, x)) + 1 /\ p + 1 > p
      BY <1>5, <1>11, <2>2, <2>9, <3>1
    <3> QED BY <1>2, <1>4, <1>16, <2>5, <2>6, <3>2, <3>3, Advance
  <2> QED BY <2>10, <2>11
<1> QED BY <1>20, <1>21, <1>22

(* A printed text holds no '<', and a text without zeros none behind it.     *)
NoZero(t) == \A k \in 1..Len(t) : t[k] # NUL

LEMMA EscapedHasNoLess ==
  ASSUME NEW c \in Byte
  PROVE  Len(Escaped(c)) >= 1 /\ \A k \in 1..Len(Escaped(c)) : Escaped(c)[k] # LESS
<1>1. PICK e \in Seq(Byte), n \in Nat : e = Escaped(c) /\ n = Len(e)
  BY EscapedType, LenProperties
<1>2. CASE c \notin restrictedEntityFlag
  <2>1. Escaped(c) = <<c>> /\ c # LESS
    BY <1>2 DEF Escaped, restrictedEntityFlag
  <2>2. Len(<<c>>) = 1 /\ <<c>>[1] = c /\ \A k \in 1..1 : k = 1
    OBVIOUS
  <2>3. \A k \in 1..Len(<<c>>) : <<c>>[k] # LESS
    BY <2>1, <2>2
  <2> QED BY <2>1, <2>2, <2>3
<1>3. CASE c \in restrictedEntityFlag
  <2>1. PICK y \in entities : /\ Len(y.pattern) \in Nat /\ Len(y.pattern) >= 2
                              /\ n = Len(y.pattern) + 2
                              /\ e[1] = AMP /\ e[Len(y.pattern) + 2] = SEMICOLON
                              /\ \A j \in 1..Len(y.pattern) : e[1 + j] = y.pattern[j]
    BY <1>1, <1>3, EscapedIs
  <2>2. PICK l \in Nat : l = Len(y.pattern)
    BY <2>1
  <2>3. n = l + 2
    BY <2>1, <2>2
  <2>4. \A j \in 1..l : y.pattern[j] # LESS
    <3>1. \/ y.pattern = <<113, 117, 111, 116>> \/ y.pattern = <<97, 109, 112>>
          \/ y.pattern = <<97, 112, 111, 115>> \/ y.pattern = <<108, 116>> \/ y.pattern = <<103, 116>>
      BY DEF entities
    <3> DEFINE Without(u) == \A j \in 1..Len(u) : u[j] # LESS
    <3>2. /\ Without(<<113, 117, 111, 116>>) /\ Without(<<97, 109, 112>>)
          /\ Without(<<97, 112, 111, 115>>) /\ Without(<<108, 116>>) /\ Without(<<103, 116>>)
      BY DEF LESS
    <3>3. Without(y.pattern)
      <4> HIDE DEF Without
      <4> QED BY <3>1, <3>2, Zenon
    <3> QED BY <2>2, <3>3
  <2>5. ASSUME NEW k \in 1..n PROVE e[k] # LESS
    <3>1. CASE k = 1
      BY <2>1, <3>1 DEF AMP, LESS
    <3>2. CASE k = n
      <4>1. e[l + 2] = SEMICOLON
        BY <2>1, <2>2
      <4> QED BY <2>3, <3>2, <4>1 DEF SEMICOLON, LESS
    <3>3. CASE k # 1 /\ k # n
      <4>1. PICK j \in 1..l : k = 1 + j
        <5>1. k - 1 \in 1..l /\ k = 1 + (k - 1)
          BY <2>3, <3>3
        <5> QED BY <5>1
      <4>2. e[1 + j] = y.pattern[j]
        BY <2>1, <2>2
      <4> QED BY <2>4, <4>1, <4>2
    <3> QED BY <3>1, <3>2, <3>3
  <2>6. n >= 1
    BY <2>3
  <2> QED BY <1>1, <2>5, <2>6
<1> QED BY <1>2, <1>3

LEMMA JoinWithout ==
  ASSUME NEW x \in Seq(Byte), NEW v \in Seq(Byte), NEW c,
         \A k \in 1..Len(x) : x[k] # c, \A k \in 1..Len(v) : v[k] # c
  PROVE  \A k \in 1..Len(x \o v) : (x \o v)[k] # c
<1>1. PICK n \in Nat, m \in Nat : n = Len(x) /\ m = Len(v)
  BY LenProperties
<1>2. PICK t \in Seq(Byte) : /\ t = x \o v /\ Len(t) = n + m
                             /\ \A i \in 1..n : t[i] = x[i]
                             /\ \A i \in 1..m : t[n + i] = v[i]
  <2>1. /\ x \o v \in Seq(Byte) /\ Len(x \o v) = Len(x) + Len(v)
        /\ \A i \in 1..Len(x) : (x \o v)[i] = x[i]
        /\ \A i \in 1..Len(v) : (x \o v)[Len(x) + i] = v[i]
    BY JoinIs
  <2> QED BY <1>1, <2>1
<1>3. ASSUME NEW k \in 1..n + m PROVE t[k] # c
  <2>1. CASE k <= n
    <3>1. k \in 1..n
      BY <2>1
    <3> QED BY <1>1, <1>2, <3>1
  <2>2. CASE k > n
    <3>1. PICK i \in 1..m : k = n + i
      <4>1. k - n \in 1..m /\ k = n + (k - n)
        BY <2>2
      <4> QED BY <4>1
    <3> QED BY <1>1, <1>2, <3>1
  <2> QED BY <2>1, <2>2
<1> QED BY <1>2, <1>3

LEMMA PrintedHasNoLess ==
  ASSUME NEW t \in Seq(Byte)
  PROVE  \A k \in 1..Len(PrintString(t)) : PrintString(t)[k] # LESS
<1>1. PICK n \in Nat : n = Len(t) /\ \A k \in 1..n : t[k] \in Byte
  BY LenProperties, ElementOfSeq
<1> DEFINE Good(w) == \A k \in 1..Len(w) : w[k] # LESS
           T == {i \in 0..n : Good(Printed(t, i))}
<1>2. 0 \in T
  <2>1. Printed(t, 0) = <<>> /\ Len(<<>>) = 0
    BY PrintedIs
  <2> QED BY <2>1
<1>3. ASSUME NEW i \in 1..n, i - 1 \in T PROVE i \in T
  <2>1. PICK x \in Seq(Byte) : x = Printed(t, i - 1) /\ Good(x)
    <3>1. i - 1 \in 0..Len(t)
      BY <1>1
    <3> QED BY <1>3, <3>1, PrintedIs
  <2>2. PICK v \in Seq(Byte) : v = Escaped(t[i]) /\ Good(v)
    BY <1>1, EscapedType, EscapedHasNoLess
  <2>3. Good(x \o v)
    BY <2>1, <2>2, JoinWithout
  <2>4. Printed(t, i) = x \o v
    BY <1>1, <2>1, <2>2, PrintedIs
  <2>5. Good(Printed(t, i)) /\ i \in 0..n
    BY <2>3, <2>4
  <2> HIDE DEF Good
  <2> QED BY <2>5
<1>4. n \in T
  <2> HIDE DEF T
  <2>1. 0..n \subseteq T
    BY <1>2, <1>3, Induction
  <2> QED BY <2>1
<1> QED BY <1>1, <1>4, PrintedIs

LEMMA CleanedHasNoZero ==
  ASSUME NEW t \in Seq(Byte), NoZero(t)
  PROVE  NoZero(Normalized(t))
<1>1. PICK n \in Nat : n = Len(t)
  BY LenProperties
<1> DEFINE T == {i \in 0..n : NoZero(Cleaned(t, i))}
<1>2. 0 \in T
  <2>1. Cleaned(t, 0) = <<>> /\ Len(<<>>) = 0
    BY CleanedIs
  <2> QED BY <2>1 DEF NoZero
<1>3. ASSUME NEW i \in 1..n, i - 1 \in T PROVE i \in T
  <2>1. PICK x \in Seq(Byte) : x = Cleaned(t, i - 1) /\ NoZero(x)
    <3>1. i - 1 \in 0..Len(t)
      BY <1>1
    <3> QED BY <1>3, <3>1, CleanedIs
  <2>2. PICK v \in Seq(Byte) : v = ReadAs(t, i) /\ NoZero(v)
    <3>1. ReadAs(t, i) \in Seq(Byte)
      BY <1>1, ReadAsType
    <3>2. \A b : b # NUL => NoZero(<<b>>)
      BY DEF NoZero
    <3>3. NoZero(<<>>)
      BY DEF NoZero
    <3>4. t[i] # NUL /\ LF # NUL
      BY <1>1 DEF NoZero, LF, NUL
    <3>5. ReadAs(t, i) = <<t[i]>> \/ ReadAs(t, i) = <<>> \/ ReadAs(t, i) = <<LF>>
      BY DEF ReadAs
    <3> QED BY <3>1, <3>2, <3>3, <3>4, <3>5
  <2>3. NoZero(x \o v)
    BY <2>1, <2>2, JoinWithout DEF NoZero
  <2>4. Cleaned(t, i) = x \o v
    BY <1>1, <2>1, <2>2, CleanedIs
  <2>5. NoZero(Cleaned(t, i)) /\ i \in 0..n
    BY <2>3, <2>4
  <2> QED BY <2>5
<1>4. n \in T
  <2> HIDE DEF T
  <2>1. 0..n \subseteq T
    BY <1>2, <1>3, Induction
  <2> QED BY <2>1
<1> QED BY <1>1, <1>4, CleanedIs

LEMMA TextStarts ==
  ASSUME NEW t \in Seq(Byte), wire = PrintString(t), ParseText(wire), UNCHANGED wire
  PROVE  TextRead(t)'
<1>1. PICK n \in Nat, w \in Seq(Byte), m \in Nat : n = Len(t) /\ w = wire /\ m = Len(w)
  BY PrintType, LenProperties
<1>2. \A k \in 1..m : w[k] # LESS
  BY <1>1, PrintedHasNoLess
<1>3. end' = m + 1 /\ \A k \in 1..m : mem'[k] = w[k]
  BY <1>1, <1>2, ParseKeeps
<1>4. p' = 1 /\ q' = 1
  BY DEF ParseText
<1>5. Fresh(t, 0)
  <2> SUFFICES ASSUME 0 < n, t[1] \in {CR, LF} PROVE RunLength(t, 1) % 2 = 1
    BY <1>1 DEF Fresh
  <2>1. RunLength(t, 1) = 1
    BY RunStep
  <2> QED BY <2>1
<1>6. Len(Printed(t, 0)) = 0 /\ Len(Cleaned(t, 0)) = 0
  <2>1. Printed(t, 0) = <<>> /\ Cleaned(t, 0) = <<>> /\ Len(<<>>) = 0
    BY PrintedIs, CleanedIs
  <2> QED BY <2>1
<1>7. TextAt(t, 0)' /\ 0 \in 0..Len(t)
  BY <1>1, <1>4, <1>5, <1>6 DEF TextAt
<1> QED BY <1>1, <1>3, <1>4, <1>7 DEF TextRead

LEMMA TextEnds ==
  ASSUME BufferInv, NEW t \in Seq(Byte), NoZero(t), wire = PrintString(t), TextRead(t), Finish
  PROVE  Str' = Normalized(t)
<1>1. PICK n \in Nat : n = Len(t) /\ \A k \in 1..n : t[k] \in Byte
  BY LenProperties, ElementOfSeq
<1>2. PICK w \in Seq(Byte), m \in Nat : w = wire /\ m = Len(w)
  BY PrintType, LenProperties
<1>3. PICK i \in 0..n : TextAt(t, i)
  BY <1>1 DEF TextRead
<1>4. end = m + 1 /\ p = m + 1
  BY <1>2 DEF TextRead, Finish, Reading, BufferInv
<1>5. i = n
  <2> SUFFICES ASSUME i # n PROVE FALSE
    OBVIOUS
  <2>1. PICK y \in 1..Len(t), a \in Nat : y - 1 = i /\ a = Len(Printed(t, i)) /\ a = m
    <3>1. i + 1 \in 1..Len(t) /\ i + 1 - 1 = i
      BY <1>1
    <3>2. Printed(t, i) \in Seq(Byte)
      BY <1>1, PrintedIs
    <3>3. PICK a \in Nat : a = Len(Printed(t, i))
      BY <3>2, LenProperties
    <3>4. a = m
      BY <1>3, <1>4, <3>3 DEF TextAt
    <3> QED BY <3>1, <3>3, <3>4
  <2>2. /\ Len(Printed(t, y)) = Len(Printed(t, y - 1)) + Len(Escaped(t[y]))
        /\ Len(Printed(t, y)) <= Len(PrintString(t))
    BY CharacterPlaces
  <2>3. Escaped(t[y]) \in Seq(Byte) /\ Len(Escaped(t[y])) >= 1
    BY <1>1, EscapedType, EscapedHasNoLess
  <2>4. PICK l \in Nat : l = Len(Escaped(t[y])) /\ l >= 1
    BY <2>3, LenProperties
  <2>5. a + l <= m
    BY <1>2, <2>1, <2>2, <2>4
  <2> QED BY <2>1, <2>4, <2>5
<1>6. PICK g \in Seq(Byte), l \in Nat : g = Normalized(t) /\ g = Cleaned(t, n) /\ l = Len(g)
  <2>1. n \in 0..Len(t)
    BY <1>1
  <2> QED BY <1>1, <2>1, CleanedIs, LenProperties
<1>7. q = l + 1 /\ \A k \in 1..l : mem[k] = g[k]
  BY <1>3, <1>5, <1>6 DEF TextAt
<1>8. PICK z \in Nat : z = Len(mem) /\ mem \in [1..z -> Byte] /\ q \in 1..z
  <2>1. Len(mem) \in Nat /\ mem \in [1..Len(mem) -> Byte] /\ q \in 1..Len(mem)
    BY DEF BufferInv
  <2> QED BY <2>1
<1>9. PICK f : f = mem'
  OBVIOUS
<1>10. f = [mem EXCEPT ![q] = NUL]
  BY <1>9 DEF Finish
<1>11. f \in [1..z -> Byte] /\ f[q] = NUL /\ \A k \in 1..z : k # q => f[k] = mem[k]
  <2>1. NUL \in Byte
    BY Bytes DEF NUL
  <2> QED BY <1>8, <1>10, <2>1
<1>12. Len(f) = z
  <2>1. f = [k \in 1..z |-> f[k]]
    BY <1>11
  <2> QED BY <2>1, LenOfFunction
<1>13. f[l + 1] = NUL /\ l + 1 <= z
  BY <1>7, <1>8, <1>11
<1>14. \A k \in 1..l : f[k] = g[k] /\ g[k] # NUL
  <2>1. NoZero(g)
    BY <1>6, CleanedHasNoZero
  <2>2. \A k \in 1..l : k \in 1..z /\ k # q
    BY <1>7, <1>13
  <2> QED BY <1>6, <1>7, <1>11, <2>1, <2>2 DEF NoZero
<1>15. StringOf(f) = g
  BY <1>6, <1>12, <1>13, <1>14, StringIs
<1>16. Str' = StringOf(f)
  BY <1>9 DEF Str, StringOf, Positions
<1> QED BY <1>6, <1>15, <1>16

-----------------------------------------------------------------------------
(* What SendPicture sends.                                                   *)
LEMMA CharactersOfPicture ==
  ASSUME NEW b \in Seq(Byte), NEW k \in 1..4 * GroupCount(Len(b))
  PROVE  base64_encode(b)[k] \in is_base64 \/ base64_encode(b)[k] = Pad
<1>1. PICK z \in Int, y \in Int : z = 3 * k /\ y = 4 * Len(b) + 2
  <2>1. Len(b) \in Nat
    BY LenProperties
  <2> QED BY <2>1
<1>2. z <= y \/ z > y
  OBVIOUS
<1> QED BY <1>1, <1>2, EncodedIs

LEMMA SentPrints ==
  ASSUME NEW t \in Seq(Byte), \A k \in 1..Len(t) : t[k] \in is_base64 \/ t[k] = Pad \/ t[k] = LF
  PROVE  PrintString(t) = t /\ Plain(t) /\ \A k \in 1..Len(t) : t[k] # LESS
<1>1. /\ Pad \notin restrictedEntityFlag /\ LF \notin restrictedEntityFlag
      /\ Pad \notin {AMP, CR, NUL, LESS} /\ LF \notin {AMP, CR, NUL, LESS}
  BY DEF Pad, LF, AMP, CR, NUL, LESS, GREATER, restrictedEntityFlag
<1>2. LESS \in restrictedEntityFlag
  BY DEF restrictedEntityFlag
<1>3. \A c \in is_base64 : c \notin restrictedEntityFlag /\ c \notin {AMP, CR, NUL, LESS}
  BY <1>2, TableIs
<1>4. \A k \in 1..Len(t) : t[k] \notin restrictedEntityFlag /\ t[k] \notin {AMP, CR, NUL, LESS}
  BY <1>1, <1>3
<1> QED BY <1>4, PlainPrints DEF Plain

LEMMA SentIs ==
  ASSUME NEW b \in Seq(Byte), wire = base64_encode(b), SendPicture
  PROVE  PictureText(b, wire', kept')
<1>0. PICK G \in Nat : G = 4 * GroupCount(Len(b))
  <2>1. GroupCount(Len(b)) \in Nat
    BY LenProperties DEF GroupCount
  <2> QED BY <2>1
<1>1. PICK E : /\ E = wire /\ E = base64_encode(b) /\ E \in Seq(Byte)
               /\ Len(E) = G /\ G = 4 * GroupCount(Len(b))
  BY <1>0, EncodeIs
<1>2. \A k \in 1..G : E[k] \in Byte /\ (E[k] \in is_base64 \/ E[k] = Pad)
  <2>1. \A k \in 1..G : E[k] \in Byte
    BY <1>1, ElementOfSeq
  <2> QED BY <1>1, <2>1, CharactersOfPicture
<1>3. ASSUME NEW n \in 0..G, \A k \in n + 1 .. G : E[k] = Pad, Sends(SubSeq(E, 1, n), n)
      PROVE  PictureText(b, wire', kept')
  <2>1. PICK t : t = SubSeq(E, 1, n)
    OBVIOUS
  <2>2. t \in Seq(Byte) /\ Len(t) = n /\ \A k \in 1..n : t[k] = E[k]
    <3>1. \A k \in 1..n : E[k] \in Byte
      BY <1>2
    <3> QED BY <2>1, <3>1, PrefixIs
  <2>3. \A k \in 1..Len(t) : t[k] \in is_base64 \/ t[k] = Pad \/ t[k] = LF
    BY <1>2, <2>2
  <2>4. wire' = t /\ kept' = n
    BY <1>3, <2>1, <2>2, <2>3, SentPrints DEF Sends
  <2> QED BY <1>1, <1>3, <2>2, <2>3, <2>4 DEF PictureText
<1>4. ASSUME NEW n \in 1..G, Sends(SubSeq(E, 1, n) \o <<LF>> \o SubSeq(E, n + 1, G), n)
      PROVE  PictureText(b, wire', kept')
  <2>0. PICK m \in Nat : m = G - n /\ n + m = G
    OBVIOUS
  <2>1. PICK u \in Seq(Byte) : u = SubSeq(E, 1, n) /\ Len(u) = n /\ \A k \in 1..n : u[k] = E[k]
    <3>1. n \in Nat /\ \A k \in 1..n : E[k] \in Byte
      BY <1>2
    <3>2. /\ SubSeq(E, 1, n) \in Seq(Byte) /\ Len(SubSeq(E, 1, n)) = n
          /\ \A k \in 1..n : SubSeq(E, 1, n)[k] = E[k]
      BY <3>1, PrefixIs, Zenon
    <3> QED BY <3>2
  <2>2. PICK v \in Seq(Byte) : v = SubSeq(E, n + 1, G) /\ Len(v) = m /\ \A k \in 1..m : v[k] = E[n + k]
    <3>1. n \in Nat /\ \A k \in 1..m : E[n + k] \in Byte
      BY <1>2, <2>0
    <3>2. /\ SubSeq(E, n + 1, n + m) \in Seq(Byte) /\ Len(SubSeq(E, n + 1, n + m)) = m
          /\ \A k \in 1..m : SubSeq(E, n + 1, n + m)[k] = E[n + k]
      BY <3>1, PieceIs, Zenon
    <3> QED BY <2>0, <3>2
  <2>3. PICK w \in Seq(Byte) : w = <<LF>> /\ Len(w) = 1 /\ w[1] = LF
    <3>1. LF \in Byte
      BY TableIs
    <3>2. <<LF>> \in Seq(Byte) /\ Len(<<LF>>) = 1 /\ <<LF>>[1] = LF
      BY <3>1
    <3> QED BY <3>2
  <2>40. PICK x : x = u \o w
    OBVIOUS
  <2>4. x \in Seq(Byte) /\ Len(x) = n + 1 /\ x[n + 1] = LF /\ \A k \in 1..n : x[k] = E[k]
    <3>1. /\ x \in Seq(Byte) /\ Len(x) = Len(u) + Len(w)
          /\ \A i \in 1..Len(u) : x[i] = u[i]
          /\ \A i \in 1..Len(w) : x[Len(u) + i] = w[i]
      BY <2>40, JoinIs
    <3>2. Len(x) = n + 1 /\ \A i \in 1..n : x[i] = u[i]
      BY <2>1, <2>3, <3>1
    <3>3. x[n + 1] = w[1]
      <4>1. 1 \in 1..Len(w)
        BY <2>3
      <4> QED BY <2>1, <3>1, <4>1
    <3> QED BY <2>1, <2>3, <3>1, <3>2, <3>3
  <2>50. PICK t : t = x \o v
    OBVIOUS
  <2>5. /\ t \in Seq(Byte) /\ Len(t) = n + 1 + m
        /\ \A i \in 1..n + 1 : t[i] = x[i]
        /\ \A i \in 1..m : t[n + 1 + i] = v[i]
    <3>1. /\ t \in Seq(Byte) /\ Len(t) = Len(x) + Len(v)
          /\ \A i \in 1..Len(x) : t[i] = x[i]
          /\ \A i \in 1..Len(v) : t[Len(x) + i] = v[i]
      <4>1. x \in Seq(Byte)
        BY <2>4
      <4> QED BY <2>50, <4>1, JoinIs
    <3> QED BY <2>2, <2>4, <3>1
  <2>6. ASSUME NEW k \in 1..n + 1 + m PROVE t[k] \in is_base64 \/ t[k] = Pad \/ t[k] = LF
    <3>1. CASE k <= n
      <4>1. k \in 1..n /\ k \in 1..n + 1 /\ k \in 1..G
        BY <2>0, <3>1
      <4> QED BY <1>2, <2>4, <2>5, <4>1
    <3>2. CASE k = n + 1
      <4>1. k \in 1..n + 1
        BY <3>2
      <4> QED BY <2>4, <2>5, <3>2, <4>1
    <3>3. CASE k >= n + 2
      <4>1. PICK i \in 1..m : k = n + 1 + i /\ n + i \in 1..G
        <5>1. k - (n + 1) \in 1..m /\ k = n + 1 + (k - (n + 1)) /\ n + (k - (n + 1)) \in 1..G
          BY <2>0, <3>3
        <5> QED BY <5>1
      <4>2. t[k] = v[i] /\ v[i] = E[n + i]
        BY <2>2, <2>5, <4>1
      <4> QED BY <1>2, <4>1, <4>2
    <3> QED BY <3>1, <3>2, <3>3
  <2>7. wire' = t /\ kept' = n
    <3>1. PrintString(t) = t
      BY <2>5, <2>6, SentPrints
    <3>2. Sends(t, n)
      BY <1>4, <2>1, <2>2, <2>3, <2>40, <2>50
    <3> QED BY <3>1, <3>2 DEF Sends
  <2>8. \A k \in 1..n : t[k] = E[k]
    <3>1. \A k \in 1..n : k \in 1..n + 1
      OBVIOUS
    <3> QED BY <2>4, <2>5, <3>1
  <2>9. n < Len(t) /\ t[n + 1] = LF /\ n \in 0..Len(t) /\ n <= G
    <3>1. n + 1 \in 1..n + 1 /\ n < n + 1 + m /\ n \in 0..n + 1 + m /\ n <= G
      BY <2>0
    <3> QED BY <2>4, <2>5, <3>1
  <2> QED BY <1>1, <2>5, <2>6, <2>7, <2>8, <2>9 DEF PictureText
<1>5. DOMAIN wire = 1..G /\ Len(wire) = G
  BY <1>1, LenProperties
<1> QED BY <1>1, <1>3, <1>4, <1>5 DEF SendPicture

-----------------------------------------------------------------------------
(* The invariant is inductive.                                               *)
LEMMA InitPayload ==
  ASSUME Init
  PROVE  PayloadInv
<1>1. BufferInv
  <2>1. mem = <<NUL>> /\ end = 1 /\ p = 1 /\ q = 1
    BY DEF Init
  <2>2. NUL \in Byte
    BY Bytes DEF NUL
  <2>3. Len(mem) = 1 /\ mem[1] = NUL /\ mem \in [1..1 -> Byte]
    BY <2>1, <2>2
  <2> QED BY <2>1, <2>3 DEF BufferInv
<1>2. kind = "text" => value \in Seq(Byte)
  <2>1. kind = "text" => value \in Seq(Byte \ {NUL})
    BY TextsAssumption DEF Init
  <2> QED BY <2>1, SeqMonotonic
<1>3. (kind = "foreign" => value \in Seq(Piece)) /\ (kind = "picture" => value \in Seq(Byte))
  BY ForeignAssumption, PicturesAssumption DEF Init
<1>4. kind \in {"text", "foreign", "picture"} /\ state = "sender" /\ wire \in Seq(Byte)
  <2>1. wire = <<>>
    BY DEF Init
  <2>2. wire \in Seq(Byte)
    BY <2>1, EmptySeq
  <2> QED BY <2>2 DEF Init
<1>5. TypeInv
  BY <1>2, <1>3, <1>4 DEF TypeInv
<1>6. PictureInv
  BY <1>4 DEF PictureInv
<1> QED BY <1>1, <1>5, <1>6 DEF PayloadInv

LEMMA PictureOnTheWire ==
  ASSUME NEW b, NEW t, NEW n, PictureText(b, t, n)
  PROVE  t \in Seq(Byte) /\ Plain(t) /\ \A k \in 1..Len(t) : t[k] # LESS
<1>1. t \in Seq(Byte) /\ \A k \in 1..Len(t) : t[k] \in is_base64 \/ t[k] = Pad \/ t[k] = LF
  BY DEF PictureText
<1> QED BY <1>1, SentPrints

LEMMA ReadKeeps ==
  ASSUME PayloadInv, Read
  PROVE  PayloadInv'
<1> DEFINE pic == kind = "picture"
<1>1. /\ state = "reading" /\ UNCHANGED <<kind, value, wire, kept, got>>
      /\ (GetStr /\ UNCHANGED state) \/ (Finish /\ state' = "text")
  BY DEF Read
<1>2. TypeInv'
  BY <1>1 DEF TypeInv, PayloadInv
<1>3. BufferInv'
  BY <1>1, GetStrKeeps, FinishKeeps DEF PayloadInv
<1>4. ASSUME pic PROVE PictureText(value, wire, kept) /\ Untouched /\ wire \in Seq(Byte) /\ Plain(wire)
  <2>1. PictureText(value, wire, kept) /\ Untouched
    BY <1>1, <1>4 DEF PayloadInv, PictureInv
  <2> QED BY <2>1, PictureOnTheWire
<1>5. CASE GetStr /\ UNCHANGED state
  <2>1. ASSUME pic PROVE Untouched'
    BY <1>1, <1>4, <1>5, <2>1, GetStrUntouched DEF PayloadInv
  <2>2. PictureInv'
    BY <1>1, <1>4, <1>5, <2>1 DEF PictureInv
  <2> QED BY <1>2, <1>3, <2>2 DEF PayloadInv
<1>6. CASE Finish /\ state' = "text"
  <2>1. p' = p /\ q' = q /\ end' = end /\ \A k \in 1..Len(mem) : k # q => mem'[k] = mem[k]
    BY <1>6, FinishKeeps DEF PayloadInv
  <2>2. ~ (p < end) /\ p \in 1..end /\ end \in 1..Len(mem) /\ Len(mem) \in Nat
    BY <1>6 DEF Finish, Reading, PayloadInv, BufferInv
  <2>3. ASSUME pic PROVE Untouched' /\ ~ Reading'
    <3>1. PICK n \in Nat : n = Len(wire)
      BY <1>4, <2>3, LenProperties
    <3>2. end = n + 1 /\ q = p /\ \A k \in 1..n : mem[k] = wire[k]
      BY <1>4, <2>3, <3>1 DEF Untouched
    <3>3. \A k \in 1..n : k \in 1..Len(mem) /\ k # q
      BY <2>2, <3>2
    <3>4. \A k \in 1..n : mem'[k] = wire[k]
      BY <2>1, <3>2, <3>3
    <3> QED BY <1>1, <2>1, <2>2, <3>1, <3>2, <3>4 DEF Untouched, Reading
  <2>4. PictureInv'
    BY <1>1, <1>4, <1>6, <2>3 DEF PictureInv
  <2> QED BY <1>2, <1>3, <2>4 DEF PayloadInv
<1> QED BY <1>1, <1>5, <1>6

LEMMA TakeKeeps ==
  ASSUME PayloadInv, Take
  PROVE  PayloadInv'
<1>1. /\ state = "text" /\ state' = "done" /\ UNCHANGED <<mem, end, p, q, kind, value, wire, kept>>
      /\ got' = IF kind = "picture" THEN base64_decode(Str) ELSE Str
  BY DEF Take, textVars
<1>2. TypeInv' /\ BufferInv'
  BY <1>1 DEF PayloadInv, TypeInv, BufferInv
<1>3. PictureInv'
  <2>1. CASE kind = "picture"
    <3>1. PictureText(value, wire, kept) /\ Untouched /\ BufferInv
      BY <1>1, <2>1 DEF PayloadInv, PictureInv
    <3>2. Str = wire
      BY <3>1, PictureOnTheWire, StrIs
    <3>3. got' = base64_decode(wire)
      BY <1>1, <2>1, <3>2
    <3>4. PictureText(value', wire', kept') /\ got' = base64_decode(wire')
      BY <1>1, <3>1, <3>3
    <3> QED BY <1>1, <2>1, <3>4 DEF PictureInv
  <2>2. CASE kind # "picture"
    BY <1>1, <2>2 DEF PictureInv
  <2> QED BY <2>1, <2>2
<1> QED BY <1>2, <1>3 DEF PayloadInv

LEMMA NextPayload ==
  ASSUME PayloadInv, [Next]_vars
  PROVE  PayloadInv'
<1>0. TypeInv /\ BufferInv /\ PictureInv
  BY DEF PayloadInv
<1>1. CASE Encode
  <2>1. /\ kind = "picture" /\ wire' = base64_encode(value) /\ state' = "encoded"
        /\ UNCHANGED <<mem, end, p, q, kind, value, kept, got>>
    BY <1>1 DEF Encode, textVars
  <2>2. wire' \in Seq(Byte)
    BY <1>0, <2>1, EncodeIs DEF TypeInv
  <2>3. TypeInv'
    BY <1>0, <2>1, <2>2 DEF TypeInv
  <2>4. BufferInv'
    BY <1>0, <2>1 DEF BufferInv
  <2>5. PictureInv'
    BY <2>1 DEF PictureInv
  <2> QED BY <2>3, <2>4, <2>5 DEF PayloadInv
<1>2. CASE SendText
  <2>1. /\ kind = "text" /\ wire' = PrintString(value) /\ state' = "wire"
        /\ UNCHANGED <<mem, end, p, q, kind, value, got>>
    BY <1>2 DEF SendText, Sends, textVars
  <2>2. wire' \in Seq(Byte)
    BY <1>0, <2>1, PrintType DEF TypeInv
  <2>3. TypeInv'
    BY <1>0, <2>1, <2>2 DEF TypeInv
  <2>4. BufferInv'
    BY <1>0, <2>1 DEF BufferInv
  <2>5. PictureInv'
    BY <2>1 DEF PictureInv
  <2> QED BY <2>3, <2>4, <2>5 DEF PayloadInv
<1>3. CASE SendPicture
  <2>1. /\ state = "encoded" /\ state' = "wire"
        /\ UNCHANGED <<mem, end, p, q, kind, value, got>>
    BY <1>3 DEF SendPicture, Sends, textVars
  <2>2. CASE kind = "picture"
    <3>1. value \in Seq(Byte) /\ wire = base64_encode(value)
      BY <1>0, <2>1, <2>2 DEF TypeInv, PictureInv
    <3>2. PictureText(value, wire', kept')
      BY <1>3, <3>1, SentIs
    <3>3. wire' \in Seq(Byte)
      BY <3>2, PictureOnTheWire
    <3>4. TypeInv'
      BY <1>0, <2>1, <3>3 DEF TypeInv
    <3>5. BufferInv'
      BY <1>0, <2>1 DEF BufferInv
    <3>6. PictureText(value', wire', kept')
      BY <2>1, <3>2
    <3>7. PictureInv'
      BY <2>1, <3>6 DEF PictureInv
    <3> QED BY <3>4, <3>5, <3>7 DEF PayloadInv
  <2>3. CASE kind # "picture"
    BY <1>0, <2>1, <2>3 DEF TypeInv
  <2> QED BY <2>2, <2>3
<1>4. CASE SendForeign
  <2>1. /\ kind = "foreign" /\ wire' = Written(value) /\ state' = "wire"
        /\ UNCHANGED <<mem, end, p, q, kind, value, got>>
    BY <1>4 DEF SendForeign, textVars
  <2>2. wire' \in Seq(Byte)
    BY <1>0, <2>1, WrittenType DEF TypeInv
  <2>3. TypeInv'
    BY <1>0, <2>1, <2>2 DEF TypeInv
  <2>4. BufferInv'
    BY <1>0, <2>1 DEF BufferInv
  <2>5. PictureInv'
    BY <2>1 DEF PictureInv
  <2> QED BY <2>3, <2>4, <2>5 DEF PayloadInv
<1>5. CASE Parse
  <2>1. /\ state = "wire" /\ ParseText(wire) /\ state' = "reading"
        /\ UNCHANGED <<kind, value, wire, kept, got>>
    BY <1>5 DEF Parse
  <2>2. TypeInv'
    BY <1>0, <2>1 DEF TypeInv
  <2>3. wire \in Seq(Byte)
    BY <1>0 DEF TypeInv
  <2>4. BufferInv'
    BY <2>1, <2>3, ParseKeeps
  <2>5. PictureInv'
    <3>1. CASE kind = "picture"
      <4>1. PictureText(value, wire, kept)
        BY <1>0, <2>1, <3>1 DEF PictureInv
      <4>2. \A k \in 1..Len(wire) : wire[k] # LESS
        BY <4>1, PictureOnTheWire
      <4>3. end' = Len(wire) + 1 /\ q' = p' /\ \A k \in 1..Len(wire) : mem'[k] = wire[k]
        BY <2>1, <2>3, <4>2, ParseKeeps
      <4>4. Untouched'
        BY <2>1, <4>3 DEF Untouched
      <4>5. PictureText(value', wire', kept')
        BY <2>1, <4>1
      <4> QED BY <2>1, <4>4, <4>5 DEF PictureInv
    <3>2. CASE kind # "picture"
      BY <2>1, <3>2 DEF PictureInv
    <3> QED BY <3>1, <3>2
  <2> QED BY <2>2, <2>4, <2>5 DEF PayloadInv
<1>6. CASE Read
  BY <1>6, ReadKeeps
<1>7. CASE Take
  BY <1>7, TakeKeeps
<1>8. CASE Again
  <2>1. /\ wire' = <<>> /\ state' = "sender" /\ UNCHANGED <<kind, value>>
        /\ mem' = <<NUL>> /\ end' = 1 /\ p' = 1 /\ q' = 1
    BY <1>8 DEF Again
  <2>2. NUL \in Byte /\ wire' \in Seq(Byte)
    <3>1. NUL \in Byte
      BY Bytes DEF NUL
    <3>2. wire' \in Seq(Byte)
      BY <2>1, EmptySeq
    <3> QED BY <3>1, <3>2
  <2>3. Len(mem') = 1 /\ mem'[1] = NUL /\ mem' \in [1..1 -> Byte]
    BY <2>1, <2>2
  <2>4. BufferInv'
    BY <2>1, <2>3 DEF BufferInv
  <2>5. TypeInv'
    BY <1>0, <2>1, <2>2 DEF TypeInv
  <2>6. PictureInv'
    BY <2>1 DEF PictureInv
  <2> QED BY <2>4, <2>5, <2>6 DEF PayloadInv
<1>9. CASE UNCHANGED vars
  <2>1. UNCHANGED <<mem, end, p, q, kind, value, wire, kept, got, state>>
    BY <1>9 DEF vars
  <2>2. TypeInv' /\ BufferInv'
    BY <1>0, <2>1 DEF TypeInv, BufferInv
  <2>3. PictureInv'
    <3>1. Untouched' = Untouched /\ Reading' = Reading
      BY <2>1 DEF Untouched, Reading
    <3>2. PictureText(value', wire', kept') = PictureText(value, wire, kept)
      BY <2>1
    <3> QED BY <1>0, <2>1, <3>1, <3>2 DEF PictureInv
  <2> QED BY <2>2, <2>3 DEF PayloadInv
<1> QED BY <1>1, <1>2, <1>3, <1>4, <1>5, <1>6, <1>7, <1>8, <1>9 DEF Next

THEOREM PayloadInvariant == Spec => []PayloadInv
<1>1. Init => PayloadInv
  BY InitPayload
<1>2. PayloadInv /\ [Next]_vars => PayloadInv'
  BY NextPayload
<1> QED BY <1>1, <1>2, PTL DEF Spec

(* Reading in place never writes over what it has not read, whatever text     *)
(* arrives: references with any number of digits, to any code, known or not.  *)
(* (StrPair::GetStr and XMLUtil::GetCharacterRef, tinyxml2.cpp.)              *)
THEOREM WritingStaysBehind == Spec => []WritesBehindReads
<1>1. PayloadInv => WritesBehindReads
  <2>1. BufferInv => q <= p /\ p <= Len(mem) /\ p <= end
    BY DEF BufferInv
  <2> QED BY <2>1 DEF PayloadInv, WritesBehindReads
<1> QED BY <1>1, PayloadInvariant, PTL

(* Every picture comes back as it was, with all of its padding or less, and of *)
(* one broken into lines the bytes of the first line (base64_encode,           *)
(* base64_decode, PrintString, ParseText and GetStr together).                 *)
THEOREM PictureReturns == Spec => []PictureComesBack
<1>1. PayloadInv => PictureComesBack
  <2> SUFFICES ASSUME PayloadInv, state = "done", kind = "picture"
               PROVE  got = SubSeq(value, 1, Least(Len(value), (6 * kept) \div 8))
    BY DEF PictureComesBack
  <2>1. value \in Seq(Byte) /\ PictureText(value, wire, kept) /\ got = base64_decode(wire)
    BY DEF PayloadInv, TypeInv, PictureInv
  <2> QED BY <2>1, TakenIs
<1> QED BY <1>1, PayloadInvariant, PTL

-----------------------------------------------------------------------------
(* A text on its way.                                                        *)
TextInv ==
  kind = "text" =>
     /\ NoZero(value)
     /\ state \in {"wire", "reading", "text", "done"} => wire = PrintString(value)
     /\ state = "reading" => TextRead(value)
     /\ state = "text" => Str = Normalized(value)
     /\ state = "done" => got = Normalized(value)

LEMMA InitText ==
  ASSUME Init
  PROVE  TextInv
<1>1. state = "sender"
  BY DEF Init
<1>2. ASSUME kind = "text" PROVE NoZero(value)
  <2>1. value \in Seq(Byte \ {NUL})
    BY <1>2, TextsAssumption DEF Init
  <2>2. \A k \in 1..Len(value) : value[k] \in Byte \ {NUL}
    BY <2>1, ElementOfSeq
  <2> QED BY <2>2 DEF NoZero
<1> QED BY <1>1, <1>2 DEF TextInv

LEMMA NextText ==
  ASSUME PayloadInv, TextInv, [Next]_vars
  PROVE  TextInv'
<1>0. TypeInv /\ BufferInv
  BY DEF PayloadInv
<1>1. value' = value /\ kind' = kind
  BY DEF Next, vars, Encode, SendText, SendPicture, SendForeign, Sends, Parse, Read, Take, Again
<1>2. PICK t : t = value
  OBVIOUS
<1> SUFFICES ASSUME kind = "text"
             PROVE  /\ state' \in {"wire", "reading", "text", "done"} => wire' = PrintString(t)
                    /\ state' = "reading" => TextRead(t)'
                    /\ state' = "text" => Str' = Normalized(t)
                    /\ state' = "done" => got' = Normalized(t)
  <2>1. CASE kind # "text"
    BY <1>1, <2>1 DEF TextInv
  <2>2. CASE kind = "text"
    <3>1. NoZero(t)
      BY <1>2, <2>2 DEF TextInv
    <3>2. value' = t
      BY <1>1, <1>2
    <3>3. state' = "reading" => TextRead(value)'
      BY <2>2, <3>2 DEF TextRead, TextAt
    <3> QED BY <2>2, <3>1, <3>2, <3>3 DEF TextInv
  <2> QED BY <2>1, <2>2
<1>3. /\ t \in Seq(Byte) /\ NoZero(t) /\ state # "encoded"
      /\ state \in {"wire", "reading", "text", "done"} => wire = PrintString(t)
      /\ state = "reading" => TextRead(t)
      /\ state = "text" => Str = Normalized(t)
      /\ state = "done" => got = Normalized(t)
  <2>1. t \in Seq(Byte) /\ state # "encoded"
    BY <1>0, <1>2 DEF TypeInv
  <2>2. /\ NoZero(t)
        /\ state \in {"wire", "reading", "text", "done"} => wire = PrintString(t)
        /\ state = "text" => Str = Normalized(t)
        /\ state = "done" => got = Normalized(t)
    BY <1>2 DEF TextInv
  <2>3. state = "reading" => TextRead(t)
    BY <1>2 DEF TextInv, TextRead, TextAt
  <2> QED BY <2>1, <2>2, <2>3
<1>4. CASE Encode \/ SendPicture \/ SendForeign
  BY <1>3, <1>4 DEF Encode, SendPicture, SendForeign
<1>5. CASE SendText
  <2>1. state' = "wire" /\ wire' = PrintString(t)
    BY <1>2, <1>5 DEF SendText, Sends
  <2> QED BY <2>1
<1>6. CASE Parse
  <2>1. state = "wire" /\ state' = "reading" /\ ParseText(wire) /\ UNCHANGED wire
    BY <1>6 DEF Parse
  <2>2. wire = PrintString(t)
    BY <1>3, <2>1
  <2>3. TextRead(t)'
    BY <1>3, <2>1, <2>2, TextStarts
  <2> QED BY <2>1, <2>2, <2>3
<1>7. CASE Read
  <2>1. /\ state = "reading" /\ UNCHANGED wire
        /\ (GetStr /\ UNCHANGED state) \/ (Finish /\ state' = "text")
    BY <1>7 DEF Read
  <2>2. wire = PrintString(t) /\ TextRead(t)
    BY <1>3, <2>1
  <2>3. CASE GetStr /\ UNCHANGED state
    <3>1. TextRead(t)'
      BY <1>0, <1>3, <2>1, <2>2, <2>3, TextTurn
    <3> QED BY <2>1, <2>2, <2>3, <3>1
  <2>4. CASE Finish /\ state' = "text"
    <3>1. Str' = Normalized(t)
      BY <1>0, <1>3, <2>2, <2>4, TextEnds
    <3> QED BY <2>1, <2>2, <2>4, <3>1
  <2> QED BY <2>1, <2>3, <2>4
<1>8. CASE Take
  <2>1. state = "text" /\ state' = "done" /\ got' = Str /\ UNCHANGED wire
    BY <1>8 DEF Take
  <2> QED BY <1>3, <2>1
<1>9. CASE Again
  <2>1. state' = "sender"
    BY <1>9 DEF Again
  <2> QED BY <2>1
<1>10. CASE UNCHANGED vars
  <2>1. UNCHANGED <<mem, end, p, q, wire, got, state>>
    BY <1>10 DEF vars
  <2>2. Str' = Str
    BY <2>1 DEF Str, Positions
  <2>3. TextRead(t) => TextRead(t)'
    BY <2>1 DEF TextRead, TextAt
  <2> QED BY <1>3, <2>1, <2>2, <2>3
<1> QED BY <1>4, <1>5, <1>6, <1>7, <1>8, <1>9, <1>10 DEF Next

(* A text this program prints is read as it was, up to its newlines, whatever *)
(* characters it has: each of the three that are written as an entity is read *)
(* as one, next to any others, and of a run of newlines every second one is   *)
(* dropped (PrintString, ParseText and GetStr together, tinyxml2.cpp).        *)
THEOREM PrintedTextReturns == Spec => []PrintedTextComesBack
<1>1. Init => TextInv
  BY InitText
<1>2. PayloadInv /\ TextInv /\ [Next]_vars => TextInv'
  BY NextText
<1>3. TextInv => PrintedTextComesBack
  BY DEF TextInv, PrintedTextComesBack
<1> QED BY <1>1, <1>2, <1>3, PayloadInvariant, PTL DEF Spec
=============================================================================
