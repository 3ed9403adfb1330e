-------------------------- MODULE FrameCodecProofs --------------------------
(***************************************************************************)
(* Proofs about FrameCodec, for any parameters of the two handlers, any    *)
(* messages, any number of them, and any way the stream is cut into reads  *)
(* and IOBufs.                                                             *)
(***************************************************************************)
EXTENDS FrameCodec, SequenceTheorems, WellFoundedInduction, TLAPS

-----------------------------------------------------------------------------
(* Natural numbers.                                                        *)

\* A set of natural numbers has a least element.
LEMMA LeastElement ==
    ASSUME NEW S, S \subseteq Nat, S # {}
    PROVE  Min(S) \in S /\ \A y \in S : Min(S) <= y
<1> DEFINE R == OpToRel(<, Nat)
<1>1. IsWellFoundedOn(R, Nat)  BY NatLessThanWellFounded
<1>2. \A x, y \in Nat : y < x => <<y, x>> \in R  BY DEF OpToRel
<1> HIDE DEF R
<1>3. PICK x \in S : \A y \in S : ~(<<y, x>> \in R)  BY <1>1, WFMin
<1>4. ASSUME NEW y \in S  PROVE x <= y
  <2>1. x \in Nat /\ y \in Nat /\ ~(y < x)  BY <1>2, <1>3
  <2> QED  BY <2>1
<1> QED  BY <1>4 DEF Min

\* Induction, for a property that is given as a set.
LEMMA Induction ==
    ASSUME NEW S, 0 \in S, \A n \in Nat : n \in S => n + 1 \in S
    PROVE  \A n \in Nat : n \in S
<1> DEFINE T == {n \in Nat : n \notin S}
<1> SUFFICES ASSUME T # {} PROVE FALSE
  OBVIOUS
<1>1. PICK n \in T : \A y \in T : n <= y  BY LeastElement
<1>2. n \in Nat /\ n # 0 /\ n \notin S /\ n - 1 \in Nat  OBVIOUS
<1>3. n - 1 \in S
  <2>1. ~(n <= n - 1)  BY <1>2
  <2> QED  BY <1>1, <1>2, <2>1
<1>4. (n - 1) + 1 = n  BY <1>2
<1> QED  BY <1>2, <1>3, <1>4

-----------------------------------------------------------------------------
(* Numbers and their digits.                                               *)

\* A length field has bytes.
LEMMA Lengths == lengthFieldLength \in Nat \ {0}
BY ParametersAssumption DEF ParametersAssumption

\* Power up to k.
HasPower(k) ==
    \E f : f = [j \in 0 .. k |-> IF j = 0 THEN 1 ELSE Base * f[j - 1]]

\* One more power.
LEMMA NextPower ==
    ASSUME NEW k \in Nat, HasPower(k)
    PROVE  HasPower(k + 1)
<1>1. PICK f : f = [j \in 0 .. k |-> IF j = 0 THEN 1 ELSE Base * f[j - 1]]
  BY DEF HasPower
<1> DEFINE g == [j \in 0 .. k + 1 |-> IF j = k + 1 THEN Base * f[k] ELSE f[j]]
<1>2. ASSUME NEW j \in 0 .. k + 1
      PROVE  g[j] = IF j = 0 THEN 1 ELSE Base * g[j - 1]
  <2>1. CASE j = 0
    BY <1>1, <2>1
  <2>2. CASE j = k + 1
    BY <2>2
  <2>3. CASE j # 0 /\ j # k + 1
    <3>1. f[j] = Base * f[j - 1]  BY <1>1, <2>3
    <3>2. g[j] = f[j] /\ g[j - 1] = f[j - 1]  BY <2>3
    <3> QED  BY <2>3, <3>1, <3>2
  <2> QED  BY <2>1, <2>2, <2>3
<1>3. g = [j \in 0 .. k + 1 |-> IF j = 0 THEN 1 ELSE Base * g[j - 1]]
  <2> HIDE DEF g
  <2> QED  BY <1>2 DEF g
<1> QED  BY <1>3 DEF HasPower

\* Power is what its definition says.
LEMMA PowerEquation ==
    Power = [k \in 0 .. lengthFieldLength |->
               IF k = 0 THEN 1 ELSE Base * Power[k - 1]]
<1>0. HasPower(0)
  <2> DEFINE f == [j \in 0 .. 0 |-> 1]
  <2>1. f = [j \in 0 .. 0 |-> IF j = 0 THEN 1 ELSE Base * f[j - 1]]  OBVIOUS
  <2> QED  BY <2>1 DEF HasPower
<1>1. \A k \in Nat : HasPower(k)
  <2> DEFINE S == {k \in Nat : HasPower(k)}
  <2>1. 0 \in S /\ \A k \in Nat : k \in S => k + 1 \in S
    BY <1>0, NextPower
  <2> HIDE DEF S
  <2>2. \A k \in Nat : k \in S  BY <2>1, Induction
  <2> QED  BY <2>2 DEF S
<1> QED  BY <1>1, Lengths DEF HasPower, Power

\* Each power is Base times the one below.
LEMMA PowerStep ==
    /\ Power[0] = 1
    /\ \A k \in 0 .. lengthFieldLength - 1 : Power[k + 1] = Base * Power[k]
BY PowerEquation, Lengths

\* A power is a positive number.
LEMMA PowerPositive ==
    \A k \in 0 .. lengthFieldLength : Power[k] \in Nat \ {0}
<1> DEFINE S == {k \in Nat : k <= lengthFieldLength => Power[k] \in Nat \ {0}}
<1>1. 0 \in S  BY PowerStep
<1>2. ASSUME NEW k \in Nat, k \in S  PROVE k + 1 \in S
  <2>1. ASSUME k + 1 <= lengthFieldLength  PROVE Power[k + 1] \in Nat \ {0}
    <3>1. k \in 0 .. lengthFieldLength - 1 /\ k <= lengthFieldLength
      BY <2>1, Lengths
    <3>2. Power[k] \in Nat \ {0} /\ Power[k + 1] = Base * Power[k]
      BY <1>2, <3>1, PowerStep
    <3> QED  BY <3>2, ParametersAssumption DEF ParametersAssumption
  <2> QED  BY <2>1
<1> HIDE DEF S
<1>3. \A k \in Nat : k \in S  BY <1>1, <1>2, Induction
<1> QED  BY <1>3, Lengths DEF S

\* Either byte order keeps the bytes, and undoes itself.
LEMMA InOrderProperties ==
    ASSUME NEW S, NEW s \in Seq(S)
    PROVE  /\ InOrder(s) \in Seq(S)
           /\ Len(InOrder(s)) = Len(s)
           /\ InOrder(InOrder(s)) = s
<1>1. Len(s) \in Nat /\ \A i \in 1 .. Len(s) : s[i] \in S
  BY LenProperties, ElementOfSeq
<1> DEFINE r == Reverse(s)
<1>2. r = [i \in 1 .. Len(s) |-> s[Len(s) - i + 1]]  BY DEF Reverse
<1>3. \A i \in 1 .. Len(s) : Len(s) - i + 1 \in 1 .. Len(s)  BY <1>1
<1>4. r \in [1 .. Len(s) -> S]
  <2> HIDE DEF r
  <2> QED  BY <1>1, <1>2, <1>3
<1>5. r \in Seq(S) /\ Len(r) = Len(s)
  <2> HIDE DEF r
  <2> QED  BY <1>1, <1>4
<1>6. Reverse(r) = [i \in 1 .. Len(r) |-> r[Len(r) - i + 1]]
  <2> HIDE DEF r
  <2> QED  BY DEF Reverse
<1>7. Reverse(r) = s
  <2> HIDE DEF r
  <2>1. \A i \in 1 .. Len(s) : r[Len(s) - i + 1] = s[i]
    <3> TAKE i \in 1 .. Len(s)
    <3>1. Len(s) - (Len(s) - i + 1) + 1 = i  BY <1>1
    <3>2. r[Len(s) - i + 1] = s[Len(s) - (Len(s) - i + 1) + 1]  BY <1>2, <1>3
    <3> QED  BY <3>1, <3>2
  <2>2. Reverse(r) = [i \in 1 .. Len(s) |-> s[i]]  BY <1>5, <1>6, <2>1
  <2>3. s = [i \in 1 .. Len(s) |-> s[i]]  BY LenProperties
  <2> QED  BY <2>2, <2>3
<1> QED
  <2> HIDE DEF r
  <2> QED  BY <1>5, <1>7 DEF InOrder, r

\* Each length field consists of so many bytes.
LEMMA DigitsType ==
    ASSUME NEW n \in Nat
    PROVE  Digits(n) \in Seq(Byte) /\ Len(Digits(n)) = lengthFieldLength
<1> DEFINE d == [i \in 1 .. lengthFieldLength |->
                   (n \div Power[lengthFieldLength - i]) % Base]
<1>1. ASSUME NEW i \in 1 .. lengthFieldLength  PROVE d[i] \in Byte
  <2>1. lengthFieldLength - i \in 0 .. lengthFieldLength  BY Lengths
  <2>2. Power[lengthFieldLength - i] \in Nat \ {0}  BY <2>1, PowerPositive
  <2>3. n \div Power[lengthFieldLength - i] \in Nat  BY <2>2
  <2>4. (n \div Power[lengthFieldLength - i]) % Base \in 0 .. Base - 1
    BY <2>3, ParametersAssumption DEF ParametersAssumption
  <2> QED  BY <2>4 DEF Byte
<1>2. d \in [1 .. lengthFieldLength -> Byte]  BY <1>1
<1>3. d \in Seq(Byte) /\ Len(d) = lengthFieldLength
  <2> HIDE DEF d
  <2> QED  BY <1>2, Lengths
<1>4. Digits(n) = InOrder(d)  BY DEF Digits
<1> QED
  <2> HIDE DEF d
  <2> QED  BY <1>3, <1>4, InOrderProperties

\* The value of the first k digits of d, read from the left.
HasValue(d, k) ==
    \E f : f = [j \in 0 .. k |-> IF j = 0 THEN 0 ELSE f[j - 1] * Base + d[j]]

\* One more digit.
LEMMA NextValue ==
    ASSUME NEW d, NEW k \in Nat, HasValue(d, k)
    PROVE  HasValue(d, k + 1)
<1>1. PICK f :
        f = [j \in 0 .. k |-> IF j = 0 THEN 0 ELSE f[j - 1] * Base + d[j]]
  BY DEF HasValue
<1> DEFINE g == [j \in 0 .. k + 1 |->
                   IF j = k + 1 THEN f[k] * Base + d[k + 1] ELSE f[j]]
<1>2. ASSUME NEW j \in 0 .. k + 1
      PROVE  g[j] = IF j = 0 THEN 0 ELSE g[j - 1] * Base + d[j]
  <2>1. CASE j = 0
    BY <1>1, <2>1
  <2>2. CASE j = k + 1
    BY <2>2
  <2>3. CASE j # 0 /\ j # k + 1
    <3>1. f[j] = f[j - 1] * Base + d[j]  BY <1>1, <2>3
    <3>2. g[j] = f[j] /\ g[j - 1] = f[j - 1]  BY <2>3
    <3> QED  BY <2>3, <3>1, <3>2
  <2> QED  BY <2>1, <2>2, <2>3
<1>3. g = [j \in 0 .. k + 1 |-> IF j = 0 THEN 0 ELSE g[j - 1] * Base + d[j]]
  <2> HIDE DEF g
  <2> QED  BY <1>2 DEF g
<1> QED  BY <1>3 DEF HasValue

\* Number is what its definition says.
LEMMA NumberEquation ==
    ASSUME NEW s
    PROVE  \E v : /\ v[0] = 0
                  /\ \A k \in 0 .. lengthFieldLength - 1 :
                       v[k + 1] = v[k] * Base + InOrder(s)[k + 1]
                  /\ Number(s) = v[lengthFieldLength]
<1> DEFINE d == InOrder(s)
           number[i \in 0 .. lengthFieldLength] ==
             IF i = 0 THEN 0 ELSE number[i - 1] * Base + d[i]
<1>0. HasValue(d, 0)
  <2> DEFINE f == [j \in 0 .. 0 |-> 0]
  <2>1. f = [j \in 0 .. 0 |-> IF j = 0 THEN 0 ELSE f[j - 1] * Base + d[j]]
    OBVIOUS
  <2> QED  BY <2>1 DEF HasValue
<1> HIDE DEF d
<1>1. \A k \in Nat : HasValue(d, k)
  <2> DEFINE S == {k \in Nat : HasValue(d, k)}
  <2>1. 0 \in S /\ \A k \in Nat : k \in S => k + 1 \in S
    BY <1>0, NextValue
  <2> HIDE DEF S
  <2>2. \A k \in Nat : k \in S  BY <2>1, Induction
  <2> QED  BY <2>2 DEF S
<1>2. number = [j \in 0 .. lengthFieldLength |->
                   IF j = 0 THEN 0 ELSE number[j - 1] * Base + d[j]]
  BY <1>1, Lengths DEF HasValue
<1>3. Number(s) = number[lengthFieldLength]  BY DEF Number, d
<1>4. number[0] = 0
      /\ \A k \in 0 .. lengthFieldLength - 1 :
           number[k + 1] = number[k] * Base + d[k + 1]
  <2> HIDE DEF number
  <2> QED  BY <1>2, Lengths
<1> QED
  <2> HIDE DEF number
  <2> QED  BY <1>3, <1>4 DEF d

\* A number is its quotient and remainder.
LEMMA DivisionRemainder ==
    ASSUME NEW q \in Nat, NEW b \in Nat \ {0}
    PROVE  q = b * (q \div b) + (q % b)
OBVIOUS

\* Division in two steps, and its remainder.
LEMMA DivisionStep ==
    ASSUME NEW n \in Nat, NEW p \in Nat \ {0}
    PROVE  n \div p = Base * (n \div (Base * p)) + ((n \div p) % Base)
<1>1. Base \in Nat \ {0}  BY ParametersAssumption DEF ParametersAssumption
<1>2. n \div (Base * p) = (n \div p) \div Base  BY <1>1
<1>3. n \div p \in Nat  OBVIOUS
<1>4. n \div p = Base * ((n \div p) \div Base) + ((n \div p) % Base)
  BY <1>1, <1>3, DivisionRemainder
<1> QED  BY <1>2, <1>4

\* A length field says the number it was made from.
THEOREM NumberOfDigits ==
    ASSUME NEW n \in Nat, n < Power[lengthFieldLength]
    PROVE  Number(Digits(n)) = n
<1> DEFINE L == lengthFieldLength
           d == [i \in 1 .. L |-> (n \div Power[L - i]) % Base]
<1>1. L \in Nat \ {0}  BY Lengths
<1>2. d \in Seq(Byte)
  <2>1. ASSUME NEW i \in 1 .. L  PROVE d[i] \in Byte
    <3>1. L - i \in 0 .. L  BY <1>1
    <3>2. Power[L - i] \in Nat \ {0}  BY <3>1, PowerPositive
    <3>3. n \div Power[L - i] \in Nat  BY <3>2
    <3>4. (n \div Power[L - i]) % Base \in 0 .. Base - 1
      BY <3>3, ParametersAssumption DEF ParametersAssumption
    <3> QED  BY <3>4 DEF Byte
  <2>2. d \in [1 .. L -> Byte]  BY <2>1
  <2> HIDE DEF d
  <2> QED  BY <1>1, <2>2
<1>3. InOrder(Digits(n)) = d
  <2>1. Digits(n) = InOrder(d)  BY DEF Digits
  <2> HIDE DEF d
  <2> QED  BY <1>2, <2>1, InOrderProperties
<1>4. PICK v : /\ v[0] = 0
               /\ \A k \in 0 .. L - 1 : v[k + 1] = v[k] * Base + d[k + 1]
               /\ Number(Digits(n)) = v[L]
  <2> HIDE DEF d
  <2> QED  BY <1>3, NumberEquation
<1> DEFINE Reads(k) == k <= L => v[k] = n \div Power[L - k]
<1>5. Reads(0)
  <2>1. Power[L] \in Nat \ {0}  BY <1>1, PowerPositive
  <2>2. n \div Power[L] = 0  BY <2>1
  <2>3. L - 0 = L  BY <1>1
  <2> QED  BY <1>4, <2>2, <2>3
<1>6. ASSUME NEW k \in Nat, Reads(k)  PROVE Reads(k + 1)
  <2> SUFFICES ASSUME k + 1 <= L  PROVE v[k + 1] = n \div Power[L - (k + 1)]
    OBVIOUS
  <2> DEFINE p == Power[L - (k + 1)]
  <2>1. k \in 0 .. L - 1 /\ k <= L /\ k + 1 \in 1 .. L
        /\ L - (k + 1) \in 0 .. L - 1 /\ L - (k + 1) \in 0 .. L
        /\ L - (k + 1) + 1 = L - k
    BY <1>1
  <2>2. p \in Nat \ {0} /\ Power[L - k] = Base * p
    BY <2>1, PowerPositive, PowerStep
  <2>3. v[k + 1] = v[k] * Base + d[k + 1]  BY <1>4, <2>1
  <2>4. v[k] = n \div (Base * p)  BY <1>6, <2>1, <2>2
  <2>5. d[k + 1] = (n \div p) % Base  BY <2>1
  <2>6. n \div p = Base * (n \div (Base * p)) + ((n \div p) % Base)
    <3> HIDE DEF p
    <3> QED  BY <2>2, DivisionStep
  <2>7. v[k] * Base + d[k + 1] = Base * (n \div (Base * p)) + ((n \div p) % Base)
    <3> DEFINE x == n \div (Base * p)
    <3>1. x * Base = Base * x
      <4>1. Base \in Nat \ {0}  BY ParametersAssumption DEF ParametersAssumption
      <4>2. Base * p \in Nat \ {0}
        <5> HIDE DEF p
        <5> QED  BY <2>2, <4>1
      <4>3. x \in Nat  BY <4>2
      <4> HIDE DEF x
      <4> QED  BY <4>1, <4>3
    <3>2. v[k] = x /\ d[k + 1] = (n \div p) % Base  BY <2>4, <2>5
    <3> HIDE DEF d, p, x
    <3>3. v[k] * Base + d[k + 1] = x * Base + ((n \div p) % Base)
      BY <3>2, Zenon
    <3>4. v[k] * Base + d[k + 1] = Base * x + ((n \div p) % Base)
      BY <3>1, <3>3
    <3> QED  BY <3>4 DEF x
  <2> QED  BY <2>3, <2>6, <2>7
<1>7. Reads(L)
  <2> HIDE DEF Reads
  <2> DEFINE S == {k \in Nat : Reads(k)}
  <2>1. 0 \in S /\ \A k \in Nat : k \in S => k + 1 \in S
    BY <1>5, <1>6
  <2> HIDE DEF S
  <2>2. \A k \in Nat : k \in S  BY <2>1, Induction
  <2> QED  BY <1>1, <2>2 DEF S
<1>8. v[L] = n
  <2>1. v[L] = n \div Power[L - L]  BY <1>1, <1>7
  <2>2. L - L = 0 /\ Power[0] = 1  BY <1>1, PowerStep
  <2>3. n \div 1 = n  OBVIOUS
  <2> QED  BY <2>1, <2>2, <2>3
<1> QED  BY <1>4, <1>8

\* A number below a natural number, digit by digit.
LEMMA NumberType ==
    ASSUME NEW s \in Seq(Byte), Len(s) = lengthFieldLength
    PROVE  Number(s) \in Nat
<1>1. PICK v : /\ v[0] = 0
               /\ \A k \in 0 .. lengthFieldLength - 1 :
                    v[k + 1] = v[k] * Base + InOrder(s)[k + 1]
               /\ Number(s) = v[lengthFieldLength]
  BY NumberEquation
<1>2. \A k \in 1 .. lengthFieldLength : InOrder(s)[k] \in Nat
  <2> TAKE k \in 1 .. lengthFieldLength
  <2>1. InOrder(s) \in Seq(Byte) /\ Len(InOrder(s)) = lengthFieldLength
    BY InOrderProperties
  <2>2. InOrder(s)[k] \in Byte  BY <2>1, ElementOfSeq
  <2> QED  BY <2>2, ParametersAssumption DEF ParametersAssumption, Byte
<1> DEFINE IsNumber(k) == k <= lengthFieldLength => v[k] \in Nat
<1>3. IsNumber(0)  BY <1>1
<1>4. ASSUME NEW k \in Nat, IsNumber(k)  PROVE IsNumber(k + 1)
  <2> SUFFICES ASSUME k + 1 <= lengthFieldLength  PROVE v[k + 1] \in Nat
    OBVIOUS
  <2>1. k \in 0 .. lengthFieldLength - 1 /\ k + 1 \in 1 .. lengthFieldLength
        /\ k <= lengthFieldLength
    BY Lengths
  <2>2. v[k + 1] = v[k] * Base + InOrder(s)[k + 1]  BY <1>1, <2>1
  <2>3. v[k] \in Nat /\ Base \in Nat /\ InOrder(s)[k + 1] \in Nat
    BY <1>2, <1>4, <2>1, ParametersAssumption DEF ParametersAssumption
  <2> QED  BY <2>2, <2>3
<1> HIDE DEF IsNumber
<1>5. \A k \in Nat : IsNumber(k)
  <2> DEFINE S == {k \in Nat : IsNumber(k)}
  <2>1. 0 \in S /\ \A k \in Nat : k \in S => k + 1 \in S
    BY <1>3, <1>4
  <2> HIDE DEF S
  <2>2. \A k \in Nat : k \in S  BY <2>1, Induction
  <2> QED  BY <2>2 DEF S
<1> QED  BY <1>1, <1>5, Lengths DEF IsNumber

-----------------------------------------------------------------------------
(* Bytes, IOBufs and messages on the wire.                                 *)

\* Cutting a queue elsewhere keeps its bytes.
LEMMA QueueProperties ==
    ASSUME NEW c \in Seq(Cell)
    PROVE  /\ AsQueue(c) \in Seq(Cell)
           /\ Len(AsQueue(c)) = Len(c)
           /\ \A i \in 1 .. Len(c) : AsQueue(c)[i].byte = c[i].byte
<1>1. Len(c) \in Nat /\ DOMAIN c = 1 .. Len(c)
      /\ \A i \in 1 .. Len(c) : c[i] \in Cell
  BY LenProperties, ElementOfSeq
<1> DEFINE q == AsQueue(c)
<1>2. q = [i \in 1 .. Len(c) |-> [c[i] EXCEPT !.head = @ \/ i = 1]]
  BY <1>1 DEF AsQueue
<1>3. ASSUME NEW i \in 1 .. Len(c)
      PROVE  /\ [c[i] EXCEPT !.head = @ \/ i = 1] \in Cell
             /\ [c[i] EXCEPT !.head = @ \/ i = 1].byte = c[i].byte
  <2>1. c[i] \in Cell  BY <1>1
  <2> QED  BY <2>1 DEF Cell
<1> HIDE DEF q
<1>4. q \in [1 .. Len(c) -> Cell]  BY <1>2, <1>3
<1>5. q \in Seq(Cell) /\ Len(q) = Len(c)  BY <1>1, <1>4
<1>6. \A i \in 1 .. Len(c) : q[i].byte = c[i].byte  BY <1>2, <1>3
<1> QED  BY <1>5, <1>6 DEF q

\* The bytes of cells, in order.
LEMMA BytesProperties ==
    ASSUME NEW c \in Seq(Cell)
    PROVE  /\ Bytes(c) \in Seq(Byte)
           /\ Len(Bytes(c)) = Len(c)
           /\ \A i \in 1 .. Len(c) : Bytes(c)[i] = c[i].byte
<1>1. Len(c) \in Nat /\ DOMAIN c = 1 .. Len(c)
      /\ \A i \in 1 .. Len(c) : c[i] \in Cell
  BY LenProperties, ElementOfSeq
<1> DEFINE b == Bytes(c)
<1>2. b = [i \in 1 .. Len(c) |-> c[i].byte]  BY <1>1 DEF Bytes
<1>3. \A i \in 1 .. Len(c) : c[i].byte \in Byte  BY <1>1 DEF Cell
<1> HIDE DEF b
<1>4. b \in [1 .. Len(c) -> Byte]  BY <1>2, <1>3
<1>5. b \in Seq(Byte) /\ Len(b) = Len(c)  BY <1>1, <1>4
<1> QED  BY <1>2, <1>5 DEF b

\* A part of a queue.
LEMMA PartProperties ==
    ASSUME NEW c \in Seq(Cell), NEW p \in Nat, NEW n \in Nat,
           p <= n, n <= Len(c)
    PROVE  /\ AsQueue(SubSeq(c, p + 1, n)) \in Seq(Cell)
           /\ Len(AsQueue(SubSeq(c, p + 1, n))) = n - p
           /\ \A i \in 1 .. n - p :
                AsQueue(SubSeq(c, p + 1, n))[i].byte = c[i + p].byte
<1> DEFINE s == SubSeq(c, p + 1, n)
<1>1. Len(c) \in Nat /\ \A i \in p + 1 .. n : c[i] \in Cell
  BY LenProperties, ElementOfSeq
<1>2. p + 1 \in Int /\ n \in Int  OBVIOUS
<1>3. /\ s \in Seq(Cell)
      /\ Len(s) = IF p + 1 <= n THEN n - (p + 1) + 1 ELSE 0
      /\ \A i \in 1 .. n - (p + 1) + 1 : s[i] = c[(p + 1) + i - 1]
  BY <1>1, <1>2, SubSeqProperties
<1> HIDE DEF s
<1>4. Len(s) = n - p  BY <1>3
<1>5. ASSUME NEW i \in 1 .. n - p  PROVE s[i] = c[i + p]
  <2>1. i \in 1 .. n - (p + 1) + 1 /\ (p + 1) + i - 1 = i + p  OBVIOUS
  <2> QED  BY <1>3, <2>1
<1>6. /\ AsQueue(s) \in Seq(Cell) /\ Len(AsQueue(s)) = n - p
      /\ \A i \in 1 .. n - p : AsQueue(s)[i].byte = s[i].byte
  BY <1>3, <1>4, QueueProperties
<1> QED  BY <1>5, <1>6 DEF s

\* What is left of the queue after n bytes.
LEMMA DropProperties ==
    ASSUME TypeOK, NEW n \in Nat, n <= Len(buf)
    PROVE  /\ Drop(n) \in Seq(Cell)
           /\ Len(Drop(n)) = Len(buf) - n
           /\ \A i \in 1 .. Len(buf) - n : Drop(n)[i].byte = buf[i + n].byte
<1>1. buf \in Seq(Cell)  BY DEF TypeOK
<1>2. Len(buf) \in Nat /\ Len(buf) <= Len(buf)  BY <1>1, LenProperties
<1> QED  BY <1>1, <1>2, PartProperties DEF Drop

\* A message on the wire is its length field and its bytes.
LEMMA EncodedProperties ==
    ASSUME NEW m \in Content, FieldFits(m)
    PROVE  /\ Len(m) \in Nat
           /\ FieldValue(m) \in Nat
           /\ Number(Digits(FieldValue(m))) = FieldValue(m)
           /\ Digits(FieldValue(m)) \in Seq(Byte)
           /\ Len(Digits(FieldValue(m))) = lengthFieldLength
           /\ Encoded(m) \in Seq(Byte)
           /\ Len(Encoded(m)) = lengthFieldLength + Len(m)
           /\ \A i \in 1 .. lengthFieldLength :
                Encoded(m)[i] = Digits(FieldValue(m))[i]
           /\ \A i \in 1 .. Len(m) : Encoded(m)[lengthFieldLength + i] = m[i]
<1>1. m \in Seq(Byte) /\ Len(m) \in Nat
  BY ContentAssumption, LenProperties DEF ContentAssumption
<1>2. FieldValue(m) \in Nat /\ FieldValue(m) < Power[lengthFieldLength]
  BY <1>1, ParametersAssumption, Lengths
     DEF FieldFits, FieldValue, ParametersAssumption
<1>3. Number(Digits(FieldValue(m))) = FieldValue(m)  BY <1>2, NumberOfDigits
<1> DEFINE d == Digits(FieldValue(m))
<1>4. d \in Seq(Byte) /\ Len(d) = lengthFieldLength  BY <1>2, DigitsType
<1> HIDE DEF d
<1>5. d \o m \in Seq(Byte) /\ Len(d \o m) = lengthFieldLength + Len(m)
      /\ \A i \in 1 .. lengthFieldLength + Len(m) :
           (d \o m)[i] = IF i <= lengthFieldLength THEN d[i]
                                                   ELSE m[i - lengthFieldLength]
  BY <1>1, <1>4, ConcatProperties
<1>6. \A i \in 1 .. lengthFieldLength : (d \o m)[i] = d[i]
  BY <1>1, <1>5, Lengths
<1>7. ASSUME NEW i \in 1 .. Len(m)  PROVE (d \o m)[lengthFieldLength + i] = m[i]
  <2>1. lengthFieldLength + i \in 1 .. lengthFieldLength + Len(m)
        /\ ~(lengthFieldLength + i <= lengthFieldLength)
        /\ (lengthFieldLength + i) - lengthFieldLength = i
    BY <1>1, Lengths
  <2> QED  BY <1>5, <2>1
<1>8. Encoded(m) = d \o m  BY DEF Encoded, d
<1> QED  BY <1>1, <1>2, <1>3, <1>4, <1>5, <1>6, <1>7, <1>8 DEF d

-----------------------------------------------------------------------------
(* The types, for any parameters and any bytes.                            *)

\* Only messages whose length a length field can say have been written.
SentInv == \A k \in 1 .. Len(sent) : FieldFits(sent[k])

\* What decode takes from the header.
LEMMA HeaderType ==
    ASSUME TypeOK, HaveHeader
    PROVE  /\ getUnadjustedFrameLength \in Nat
           /\ frameLength \in Nat
           /\ lengthFieldEndOffset \in Nat /\ lengthFieldEndOffset <= Len(buf)
<1>1. buf \in Seq(Cell) /\ Len(buf) \in Nat  BY LenProperties DEF TypeOK
<1>2. lengthFieldEndOffset \in Nat /\ lengthFieldOffset \in Nat
      /\ lengthFieldEndOffset = lengthFieldOffset + lengthFieldLength
      /\ lengthFieldEndOffset <= Len(buf)
  BY <1>1, Lengths, ParametersAssumption
     DEF ParametersAssumption, lengthFieldEndOffset, HaveHeader
<1> DEFINE b == Bytes(buf)
           h == SubSeq(b, lengthFieldOffset + 1, lengthFieldEndOffset)
<1>3. b \in Seq(Byte) /\ Len(b) = Len(buf)  BY <1>1, BytesProperties
<1> HIDE DEF b
<1>4. h \in Seq(Byte) /\ Len(h) = lengthFieldLength
  <2>1. \A i \in lengthFieldOffset + 1 .. lengthFieldEndOffset : b[i] \in Byte
    BY <1>1, <1>2, <1>3, ElementOfSeq
  <2>2. lengthFieldOffset + 1 \in Int /\ lengthFieldEndOffset \in Int  BY <1>2
  <2>3. /\ h \in Seq(Byte)
        /\ Len(h) = IF lengthFieldOffset + 1 <= lengthFieldEndOffset
                      THEN lengthFieldEndOffset - (lengthFieldOffset + 1) + 1
                      ELSE 0
    BY <2>1, <2>2, SubSeqProperties
  <2> HIDE DEF h
  <2> QED  BY <1>2, <2>3, Lengths
<1>5. Number(h) \in Nat
  <2> HIDE DEF h
  <2> QED  BY <1>4, NumberType
<1>6. getUnadjustedFrameLength \in Nat
  BY <1>5 DEF getUnadjustedFrameLength, b
<1>7. frameLength \in Nat
  BY <1>2, <1>6, ParametersAssumption DEF frameLength, ParametersAssumption
<1> QED  BY <1>2, <1>6, <1>7

\* A frame that is taken off the queue.
LEMMA FrameType ==
    ASSUME TypeOK, Complete, initialBytesToStrip <= frameLength
    PROVE  LET f == AsQueue(SubSeq(buf, initialBytesToStrip + 1, frameLength))
           IN  /\ f \in Seq(Cell)
               /\ Len(f) = frameLength - initialBytesToStrip
               /\ \A i \in 1 .. frameLength - initialBytesToStrip :
                    f[i].byte = buf[i + initialBytesToStrip].byte
<1>1. frameLength \in Nat /\ frameLength <= Len(buf) /\ Len(buf) \in Nat
      /\ buf \in Seq(Cell)
  BY HeaderType, LenProperties DEF Complete, TypeOK
<1>2. initialBytesToStrip \in Nat
  BY ParametersAssumption DEF ParametersAssumption
<1> QED  BY <1>1, <1>2, PartProperties

\* A rejected frame is taken off the queue as far as it is there.
LEMMA RejectType ==
    ASSUME TypeOK, NEW n \in Nat, n <= Len(buf), Reject(n)
    PROVE  TypeOK' /\ exceptions' = 1
<1>1. Drop(n) \in Seq(Cell)  BY DropProperties
<1> QED  BY <1>1 DEF TypeOK, Reject, EndLoop

\* No step changes the types, nor writes a message whose length does not fit.
LEMMA TypeStep ==
    ASSUME TypeOK, SentInv, [Next]_vars
    PROVE  TypeOK' /\ SentInv'
<1>1. ASSUME NEW m \in Content, Write(m)  PROVE TypeOK' /\ SentInv'
  <2>1. FieldFits(m) /\ sent' = Append(sent, m) /\ wire' = wire \o Encoded(m)
        /\ UNCHANGED <<buf, reading, frames, exceptions>>
    BY <1>1 DEF Write
  <2>2. Encoded(m) \in Seq(Byte)  BY <2>1, EncodedProperties
  <2>3. sent \in Seq(Content) /\ wire \in Seq(Byte)  BY DEF TypeOK
  <2>4. wire' \in Seq(Byte)  BY <2>1, <2>2, <2>3, ConcatProperties
  <2>5. sent' \in Seq(Content) /\ Len(sent') = Len(sent) + 1
        /\ Len(sent) \in Nat /\ sent'[Len(sent) + 1] = m
        /\ \A k \in 1 .. Len(sent) : sent'[k] = sent[k]
    BY <2>1, <2>3, AppendProperties, LenProperties
  <2>6. TypeOK'  BY <2>1, <2>4, <2>5 DEF TypeOK
  <2>7. SentInv'
    <3>1. ASSUME NEW k \in 1 .. Len(sent) + 1  PROVE FieldFits(sent'[k])
      <4>1. CASE k = Len(sent) + 1  BY <2>1, <2>5, <4>1
      <4>2. CASE k \in 1 .. Len(sent)  BY <2>5, <4>2 DEF SentInv
      <4> QED  BY <2>5, <4>1, <4>2
    <3> QED  BY <2>5, <3>1 DEF SentInv, FieldFits, FieldValue
  <2> QED  BY <2>6, <2>7
<1>2. ASSUME NEW n \in 1 .. Len(wire), NEW new \in NewIOBuf, Deliver(n, new)
      PROVE  TypeOK' /\ SentInv'
  <2> DEFINE new_cells ==
               [i \in 1 .. n |->
                  [byte |-> wire[i], head |-> i = 1 /\ (new \/ buf = <<>>)]]
  <2>1. wire \in Seq(Byte) /\ buf \in Seq(Cell) /\ Len(wire) \in Nat
    BY LenProperties DEF TypeOK
  <2>2. new_cells \in Seq(Cell)
    <3>1. ASSUME NEW i \in 1 .. n  PROVE new_cells[i] \in Cell
      <4>1. wire[i] \in Byte  BY <2>1, ElementOfSeq
      <4>2. (i = 1 /\ (new \/ buf = <<>>)) \in BOOLEAN  OBVIOUS
      <4> QED  BY <4>1, <4>2 DEF Cell
    <3>2. new_cells \in [1 .. n -> Cell]  BY <3>1
    <3> HIDE DEF new_cells
    <3> QED  BY <2>1, <3>2
  <2>3. buf' = buf \o new_cells  BY <1>2 DEF Deliver
  <2> HIDE DEF new_cells
  <2>4. buf' \in Seq(Cell)  BY <2>1, <2>2, <2>3, ConcatProperties
  <2>5. wire' \in Seq(Byte)
    <3>1. wire' = SubSeq(wire, n + 1, Len(wire))  BY <1>2 DEF Deliver
    <3>2. \A i \in n + 1 .. Len(wire) : wire[i] \in Byte
      BY <2>1, ElementOfSeq
    <3>3. n + 1 \in Int /\ Len(wire) \in Int  BY <2>1
    <3> QED  BY <3>1, <3>2, <3>3, SubSeqProperties
  <2> QED  BY <1>2, <2>4, <2>5 DEF TypeOK, SentInv, Deliver
<1>3. CASE DecodeIncompleteHeader
  BY <1>3 DEF DecodeIncompleteHeader, EndLoop, TypeOK, SentInv
<1>4. CASE DecodeTooSmall
  <2>1. lengthFieldEndOffset \in Nat /\ lengthFieldEndOffset <= Len(buf)
    BY <1>4, HeaderType DEF DecodeTooSmall
  <2>2. TypeOK'  BY <1>4, <2>1, RejectType DEF DecodeTooSmall
  <2> QED  BY <1>4, <2>2 DEF DecodeTooSmall, Reject, EndLoop, SentInv
<1>5. CASE DecodeTooLarge
  <2>1. frameLength \in Nat /\ Len(buf) \in Nat
    BY <1>5, HeaderType, LenProperties DEF DecodeTooLarge, TypeOK
  <2>2. Minimum(frameLength, Len(buf)) \in Nat
        /\ Minimum(frameLength, Len(buf)) <= Len(buf)
    BY <2>1 DEF Minimum
  <2>3. TypeOK'  BY <1>5, <2>2, RejectType DEF DecodeTooLarge
  <2> QED  BY <1>5, <2>3 DEF DecodeTooLarge, Reject, EndLoop, SentInv
<1>6. CASE DecodeIncompleteFrame
  BY <1>6 DEF DecodeIncompleteFrame, EndLoop, TypeOK, SentInv
<1>7. CASE DecodeStripTooLong
  <2>1. frameLength \in Nat /\ frameLength <= Len(buf)
    BY <1>7, HeaderType, LenProperties DEF DecodeStripTooLong, Complete, TypeOK
  <2>2. TypeOK'  BY <1>7, <2>1, RejectType DEF DecodeStripTooLong
  <2> QED  BY <1>7, <2>2 DEF DecodeStripTooLong, Reject, EndLoop, SentInv
<1>8. CASE DecodeFrame
  <2> DEFINE f == AsQueue(SubSeq(buf, initialBytesToStrip + 1, frameLength))
  <2>1. f \in Seq(Cell)  BY <1>8, FrameType DEF DecodeFrame
  <2>2. frameLength \in Nat /\ frameLength <= Len(buf)
    BY <1>8, HeaderType, LenProperties DEF DecodeFrame, Complete, TypeOK
  <2>3. Drop(frameLength) \in Seq(Cell)  BY <2>2, DropProperties
  <2>4. frames' = Append(frames, f) /\ buf' = Drop(frameLength)
    BY <1>8 DEF DecodeFrame
  <2> HIDE DEF f
  <2>5. frames' \in Seq(Seq(Cell))  BY <2>1, <2>4, AppendProperties DEF TypeOK
  <2> QED  BY <1>8, <2>3, <2>4, <2>5 DEF DecodeFrame, TypeOK, SentInv
<1>9. CASE UNCHANGED vars
  BY <1>9 DEF vars, TypeOK, SentInv
<1> QED
  BY <1>1, <1>2, <1>3, <1>4, <1>5, <1>6, <1>7, <1>8, <1>9 DEF Next, Decode

-----------------------------------------------------------------------------
(* The reader stays in step with the writer, as long as no exception was   *)
(* reported: what it has not read are whole messages.                      *)

\* The parameters of the two handlers fit each other: the frame length that
\* decode computes from a length field is the length of the bytes written.
Matched ==
    /\ lengthFieldOffset = 0
    /\ prependAdjustment + (IF lengthIncludesLengthField THEN lengthFieldLength
                                                         ELSE 0)
         + lengthAdjustment = 0

\* How many messages were written and how many have come out, how many bytes
\* are in the queue and on the wire, and how many a message takes there.
Written == Len(sent)
Came == Len(frames)
Queued == Len(buf)
OnWire == Len(wire)
Size == Queued + OnWire
Width(m) == Len(Encoded(m))

\* The bytes that decode has not consumed: those in the queue, then those that
\* are still on the wire.
Unread(i) == IF i <= Queued THEN buf[i].byte ELSE wire[i - Queued]

\* Message k, which has not come out, lies between off[k - 1] and off[k] of
\* these bytes.
LiesAt(off, k) ==
    /\ off[k] = off[k - 1] + Width(sent[k])
    /\ \A i \in 1 .. Width(sent[k]) :
         Unread(off[k - 1] + i) = Encoded(sent[k])[i]

Offsets(off) ==
    /\ off[Came] = 0 /\ off[Written] = Size
    /\ \A j, k \in Came .. Written : j <= k => off[j] <= off[k]
    /\ \A k \in Came + 1 .. Written : LiesAt(off, k)

InStep == Came <= Written /\ \E off \in [Nat -> Nat] : Offsets(off)

\* What has come out is what was written, without the bytes to strip.
Stripped(m) == SubSeq(Encoded(m), initialBytesToStrip + 1, Width(m))

FramesExact == \A k \in 1 .. Came : Bytes(frames[k]) = Stripped(sent[k])

Inv == TypeOK /\ SentInv /\ (exceptions = 0 => InStep /\ FramesExact)

\* The sizes are numbers.
LEMMA Sizes ==
    ASSUME TypeOK
    PROVE  /\ Queued \in Nat /\ OnWire \in Nat /\ Size \in Nat
           /\ Written \in Nat /\ Came \in Nat
BY LenProperties DEF TypeOK, Size, Queued, OnWire, Written, Came

\* The messages written have lengths that fit.
LEMMA SentContent ==
    ASSUME TypeOK, SentInv, NEW k \in 1 .. Written
    PROVE  sent[k] \in Content /\ FieldFits(sent[k])
BY ElementOfSeq DEF TypeOK, SentInv, Written

\* A message on the wire is at least as long as its length field.
LEMMA WidthProperties ==
    ASSUME NEW m \in Content, FieldFits(m)
    PROVE  /\ Width(m) \in Nat \ {0}
           /\ lengthFieldLength <= Width(m)
           /\ Width(m) = lengthFieldLength + Len(m)
           /\ Encoded(m) \in Seq(Byte)
<1> DEFINE x == Len(m)
<1>1. x \in Nat /\ Width(m) = lengthFieldLength + x /\ Encoded(m) \in Seq(Byte)
  BY EncodedProperties DEF Width
<1> HIDE DEF x
<1>2. Width(m) \in Nat \ {0} /\ lengthFieldLength <= Width(m)  BY <1>1, Lengths
<1> QED  BY <1>1, <1>2 DEF x

\* The decoder adds to a message's length field what the prepender took from it.
LEMMA MatchedLength ==
    ASSUME Matched, NEW m \in Content, FieldFits(m)
    PROVE  FieldValue(m) + lengthAdjustment + lengthFieldLength = Width(m)
<1> DEFINE x == Len(m)
           field == IF lengthIncludesLengthField THEN lengthFieldLength ELSE 0
<1>1. x \in Nat /\ Width(m) = lengthFieldLength + x
  BY EncodedProperties DEF Width
<1>2. field \in Nat /\ lengthFieldLength \in Nat  BY Lengths
<1>3. FieldValue(m) = prependAdjustment + x + field  BY DEF FieldValue
<1>4. prependAdjustment + field + lengthAdjustment = 0  BY DEF Matched
<1>5. prependAdjustment \in Int /\ lengthAdjustment \in Int
  BY ParametersAssumption DEF ParametersAssumption
<1> HIDE DEF field, x
<1> QED  BY <1>1, <1>2, <1>3, <1>4, <1>5

\* A header in the queue is that of the first message that has not come out.
LEMMA FirstFrame ==
    ASSUME TypeOK, SentInv, Matched, HaveHeader, Came <= Written,
           NEW off \in [Nat -> Nat], Offsets(off)
    PROVE  LET k == Came + 1
               m == sent[k]
           IN  /\ k \in 1 .. Written
               /\ frameLength = Width(m)
               /\ off[k] = Width(m)
               /\ \A i \in 1 .. Width(m) :
                    i <= Queued => buf[i].byte = Encoded(m)[i]
<1> DEFINE k == Came + 1
           m == sent[k]
<1>1. lengthFieldEndOffset = lengthFieldLength /\ lengthFieldOffset = 0
  BY Lengths DEF Matched, lengthFieldEndOffset
<1>2. lengthFieldLength <= Queued  BY <1>1 DEF HaveHeader, Queued
<1>3. Size > 0  BY <1>2, Sizes, Lengths DEF Size
<1>4. off[Came] = 0 /\ off[Written] = Size  BY DEF Offsets
<1>5. Came # Written  BY <1>3, <1>4
<1>6. k \in Came + 1 .. Written /\ k \in 1 .. Written /\ k - 1 = Came
  BY <1>5, Sizes
<1>7. m \in Content /\ FieldFits(m)  BY <1>6, SentContent
<1>8. LiesAt(off, k)  BY <1>6 DEF Offsets
<1> HIDE DEF k
<1>9. off[k] = off[k - 1] + Width(m) /\ off[k - 1] = 0
      /\ \A i \in 1 .. Width(m) : Unread(off[k - 1] + i) = Encoded(m)[i]
  BY <1>4, <1>6, <1>8 DEF LiesAt
<1> HIDE DEF m
<1>10. Width(m) \in Nat \ {0} /\ lengthFieldLength <= Width(m)
  BY <1>7, WidthProperties
<1>11. off[k] = Width(m)  BY <1>9, <1>10
<1>12. ASSUME NEW i \in 1 .. Width(m), i <= Queued
       PROVE  buf[i].byte = Encoded(m)[i]
  <2>1. Unread(off[k - 1] + i) = Encoded(m)[i]  BY <1>9
  <2>2. off[k - 1] + i = i  BY <1>9, <1>10
  <2>3. Unread(i) = buf[i].byte  BY <1>12 DEF Unread
  <2> QED  BY <2>1, <2>2, <2>3
<1>13. frameLength = Width(m)
  <2> DEFINE b == Bytes(buf)
             h == SubSeq(b, lengthFieldOffset + 1, lengthFieldEndOffset)
             d == Digits(FieldValue(m))
  <2>1. b \in Seq(Byte) /\ Len(b) = Queued
        /\ \A i \in 1 .. Queued : b[i] = buf[i].byte
    BY BytesProperties DEF TypeOK, Queued
  <2>2. h \in Seq(Byte) /\ Len(h) = lengthFieldLength
        /\ \A i \in 1 .. lengthFieldLength : h[i] = b[i]
    <3> HIDE DEF b
    <3>1. \A i \in 1 .. lengthFieldLength : b[i] \in Byte
      <4> TAKE i \in 1 .. lengthFieldLength
      <4>1. i \in 1 .. Queued  BY <1>2, Sizes, Lengths
      <4> QED  BY <2>1, <4>1, ElementOfSeq
    <3>2. 1 \in Int /\ lengthFieldLength \in Int  BY Lengths
    <3>3. h = SubSeq(b, 1, lengthFieldLength)  BY <1>1
    <3> HIDE DEF h
    <3>4. /\ h \in Seq(Byte)
          /\ Len(h) = IF 1 <= lengthFieldLength
                        THEN lengthFieldLength - 1 + 1 ELSE 0
          /\ \A i \in 1 .. lengthFieldLength - 1 + 1 : h[i] = b[1 + i - 1]
      BY <3>1, <3>2, <3>3, SubSeqProperties
    <3>5. lengthFieldLength - 1 + 1 = lengthFieldLength
          /\ \A i \in 1 .. lengthFieldLength : 1 + i - 1 = i
      BY Lengths
    <3> QED  BY <3>4, <3>5, Lengths
  <2> HIDE DEF b, h, d
  <2>3. d \in Seq(Byte) /\ Len(d) = lengthFieldLength
        /\ Number(d) = FieldValue(m)
        /\ \A i \in 1 .. lengthFieldLength : Encoded(m)[i] = d[i]
    BY <1>7, EncodedProperties DEF d
  <2>4. \A i \in 1 .. lengthFieldLength : h[i] = d[i]
    <3> TAKE i \in 1 .. lengthFieldLength
    <3>1. i \in 1 .. Queued /\ i \in 1 .. Width(m) /\ i <= Queued
      BY <1>2, <1>10, Sizes, Lengths
    <3>2. h[i] = buf[i].byte  BY <2>1, <2>2, <3>1
    <3>3. buf[i].byte = Encoded(m)[i]  BY <1>12, <3>1
    <3> QED  BY <2>3, <3>2, <3>3
  <2>5. h = d  BY <2>2, <2>3, <2>4, SeqEqual
  <2>6. getUnadjustedFrameLength = FieldValue(m)
    <3>1. getUnadjustedFrameLength = Number(h)
      BY DEF getUnadjustedFrameLength, h, b
    <3> QED  BY <2>3, <2>5, <3>1
  <2>7. frameLength = FieldValue(m) + lengthAdjustment + lengthFieldLength
    BY <1>1, <2>6 DEF frameLength
  <2> QED  BY <1>7, <2>7, MatchedLength
<1> QED  BY <1>6, <1>11, <1>12, <1>13 DEF k, m

\* A message lies within the bytes that have not been consumed.
LEMMA Within ==
    ASSUME TypeOK, SentInv, Came <= Written, NEW off \in [Nat -> Nat], Offsets(off),
           NEW k \in Came + 1 .. Written
    PROVE  /\ sent[k] \in Content /\ FieldFits(sent[k])
           /\ Width(sent[k]) \in Nat
           /\ k \in Nat /\ k - 1 \in Nat
           /\ k \in Came .. Written /\ k - 1 \in Came .. Written
           /\ off[k - 1] \in Nat /\ off[k] \in Nat
           /\ off[k] = off[k - 1] + Width(sent[k])
           /\ off[k] <= Size
           /\ \A i \in 1 .. Width(sent[k]) : off[k - 1] + i \in 1 .. Size
<1>1. k \in 1 .. Written /\ k - 1 \in Nat /\ k \in Nat
      /\ k \in Came .. Written /\ k - 1 \in Came .. Written
      /\ Written \in Came .. Written /\ k <= Written
  BY Sizes
<1>2. sent[k] \in Content /\ FieldFits(sent[k])  BY <1>1, SentContent
<1>3. Width(sent[k]) \in Nat  BY <1>2, WidthProperties
<1>4. LiesAt(off, k) /\ off[k] <= off[Written] /\ off[Written] = Size
  BY <1>1 DEF Offsets
<1>5. off[k] = off[k - 1] + Width(sent[k])  BY <1>4 DEF LiesAt
<1>6. off[k - 1] \in Nat /\ off[k] \in Nat  BY <1>1
<1>7. \A i \in 1 .. Width(sent[k]) : off[k - 1] + i \in 1 .. Size
  BY <1>3, <1>4, <1>5, <1>6, Sizes
<1> QED  BY <1>1, <1>2, <1>3, <1>4, <1>5, <1>6, <1>7

\* Moving bytes from the wire to the queue loses and changes none.
LEMMA MoveBytes ==
    ASSUME TypeOK, SentInv, InStep, UNCHANGED <<sent, frames>>, Size' = Size,
           \A i \in 1 .. Size : Unread(i)' = Unread(i)
    PROVE  InStep'
<1>1. PICK off \in [Nat -> Nat] : Offsets(off)  BY DEF InStep
<1>2. Came' = Came /\ Written' = Written /\ Came <= Written
  BY DEF Came, Written, InStep
<1>3. ASSUME NEW k \in Came + 1 .. Written  PROVE LiesAt(off, k)'
  <2>1. LiesAt(off, k)  BY <1>1, <1>3 DEF Offsets
  <2>2. \A i \in 1 .. Width(sent[k]) : off[k - 1] + i \in 1 .. Size
    BY <1>1, <1>2, Within
  <2>3. sent'[k] = sent[k] /\ Width(sent[k])' = Width(sent[k])
        /\ Encoded(sent[k])' = Encoded(sent[k])
    OBVIOUS
  <2>4. \A i \in 1 .. Width(sent[k]) :
          Unread(off[k - 1] + i)' = Encoded(sent[k])[i]
    BY <2>1, <2>2 DEF LiesAt
  <2> QED  BY <2>1, <2>3, <2>4 DEF LiesAt
<1>4. Offsets(off)'  BY <1>1, <1>2, <1>3 DEF Offsets
<1> QED  BY <1>2, <1>4 DEF InStep

\* A message written lies behind all others.
LEMMA WriteInStep ==
    ASSUME TypeOK, SentInv, InStep, NEW m \in Content, Write(m)
    PROVE  InStep'
<1>1. FieldFits(m) /\ sent' = Append(sent, m) /\ wire' = wire \o Encoded(m)
      /\ UNCHANGED <<buf, reading, frames, exceptions>>
  BY DEF Write
<1> DEFINE w == Width(m)
<1>2. w \in Nat \ {0}  BY <1>1, WidthProperties
<1>3. Encoded(m) \in Seq(Byte)  BY <1>1, WidthProperties
<1>4. Written' = Written + 1 /\ sent'[Written + 1] = m
      /\ \A k \in 1 .. Written : sent'[k] = sent[k]
  BY <1>1, AppendProperties DEF Written, TypeOK
<1>5. OnWire' = OnWire + w
      /\ \A i \in 1 .. OnWire + w :
           wire'[i] = IF i <= OnWire THEN wire[i] ELSE Encoded(m)[i - OnWire]
  BY <1>1, <1>3, ConcatProperties DEF OnWire, Width, TypeOK
<1>6. Queued' = Queued /\ Came' = Came /\ buf' = buf
  BY <1>1 DEF Queued, Came
<1> HIDE DEF w
<1>7. Size' = Size + w  BY <1>2, <1>5, <1>6, Sizes DEF Size
<1>8. ASSUME NEW i \in 1 .. Size  PROVE Unread(i)' = Unread(i)
  <2>1. CASE i <= Queued
    BY <1>6, <2>1 DEF Unread
  <2>2. CASE ~(i <= Queued)
    <3>1. i - Queued \in 1 .. OnWire + w /\ i - Queued <= OnWire
      BY <1>2, <2>2, Sizes DEF Size
    <3>2. wire'[i - Queued] = wire[i - Queued]  BY <1>5, <3>1
    <3> QED  BY <1>6, <2>2, <3>2 DEF Unread
  <2> QED  BY <2>1, <2>2
<1>9. ASSUME NEW n \in Size + 1 .. Size + w
      PROVE  Unread(n)' = Encoded(m)[n - Size]
  <2>1. ~(n <= Queued) /\ n - Queued \in 1 .. OnWire + w
        /\ ~(n - Queued <= OnWire) /\ (n - Queued) - OnWire = n - Size
    BY <1>2, Sizes DEF Size
  <2>2. wire'[n - Queued] = Encoded(m)[(n - Queued) - OnWire]  BY <1>5, <2>1
  <2>3. wire'[n - Queued] = Encoded(m)[n - Size]  BY <2>1, <2>2
  <2> QED  BY <1>6, <2>1, <2>3 DEF Unread
<1>10. PICK off \in [Nat -> Nat] : Offsets(off)  BY DEF InStep
<1>11. Came <= Written  BY DEF InStep
<1>12. PICK off2 \in [Nat -> Nat] :
         /\ off2[Written + 1] = Size + w
         /\ \A j \in Nat : j # Written + 1 => off2[j] = off[j]
  <2>1. Written + 1 \in Nat /\ Size + w \in Nat  BY <1>2, Sizes
  <2> DEFINE f == [off EXCEPT ![Written + 1] = Size + w]
  <2>2. f \in [Nat -> Nat] /\ f[Written + 1] = Size + w
        /\ \A j \in Nat : j # Written + 1 => f[j] = off[j]
    BY <2>1
  <2> HIDE DEF f
  <2> QED  BY <2>2
<1>13. off2[Came] = 0 /\ off2[Written] = Size
  BY <1>10, <1>11, <1>12, Sizes DEF Offsets
<1>14. ASSUME NEW j \in Came .. Written + 1, NEW k \in Came .. Written + 1, j <= k
       PROVE  off2[j] <= off2[k]
  <2>1. CASE k = Written + 1
    <3>1. CASE j = Written + 1
      BY <1>2, <1>12, <2>1, <3>1, Sizes
    <3>2. CASE j # Written + 1
      <4>1. j \in Nat /\ j \in Came .. Written /\ Written \in Came .. Written
            /\ j <= Written
        BY <1>11, <3>2, Sizes
      <4>2. off[j] <= Size  BY <1>10, <4>1 DEF Offsets
      <4>3. off2[j] = off[j] /\ off[j] \in Nat  BY <1>12, <3>2, <4>1
      <4>4. off2[k] = Size + w  BY <1>12, <2>1
      <4> QED  BY <1>2, <4>2, <4>3, <4>4, Sizes
    <3> QED  BY <3>1, <3>2
  <2>2. CASE k # Written + 1
    <3>1. j \in Came .. Written /\ k \in Came .. Written /\ j # Written + 1
          /\ j \in Nat /\ k \in Nat
      BY <1>14, <2>2, Sizes
    <3>2. off[j] <= off[k]  BY <1>10, <1>14, <3>1 DEF Offsets
    <3> QED  BY <1>12, <2>2, <3>1, <3>2
  <2> QED  BY <2>1, <2>2
<1>15. ASSUME NEW k \in Came + 1 .. Written + 1  PROVE LiesAt(off2, k)'
  <2>1. CASE k = Written + 1
    <3>1. k - 1 \in Nat /\ k - 1 = Written  BY <2>1, Sizes
    <3>2. off2[k - 1] = Size /\ off2[k] = Size + w /\ sent'[k] = m
      BY <1>4, <1>13, <1>12, <2>1, <3>1
    <3>3. ASSUME NEW i \in 1 .. w  PROVE Unread(off2[k - 1] + i)' = Encoded(m)[i]
      <4>1. PICK n \in Nat : n = off2[k - 1] + i  BY <1>2, <3>1
      <4>2. n = Size + i  BY <3>2, <4>1
      <4>3. n \in Size + 1 .. Size + w /\ n - Size = i  BY <1>2, <4>2, Sizes
      <4>4. Unread(n)' = Encoded(m)[n - Size]  BY <1>9, <4>3
      <4> QED  BY <4>1, <4>3, <4>4
    <3> QED  BY <3>2, <3>3 DEF LiesAt, w, Width
  <2>2. CASE k # Written + 1
    <3>1. k \in Came + 1 .. Written  BY <2>2, Sizes
    <3>2. LiesAt(off, k)  BY <1>10, <3>1 DEF Offsets
    <3>3. k \in Nat /\ k - 1 \in Nat /\ k - 1 # Written + 1
          /\ k \in 1 .. Written
      BY <1>11, <3>1, Sizes
    <3>4. off2[k] = off[k] /\ off2[k - 1] = off[k - 1] /\ sent'[k] = sent[k]
      BY <1>4, <1>12, <2>2, <3>3
    <3>5. ASSUME NEW i \in 1 .. Width(sent[k])
          PROVE  Unread(off[k - 1] + i)' = Unread(off[k - 1] + i)
      <4>1. off[k - 1] + i \in 1 .. Size  BY <1>10, <1>11, <3>1, Within
      <4> QED  BY <1>8, <4>1
    <3> QED  BY <3>2, <3>4, <3>5 DEF LiesAt, Width
  <2> QED  BY <2>1, <2>2
<1>16. Offsets(off2)'
  BY <1>4, <1>6, <1>7, <1>12, <1>13, <1>14, <1>15 DEF Offsets
<1>17. Came' <= Written'  BY <1>4, <1>6, <1>11, Sizes
<1> QED  BY <1>12, <1>16, <1>17 DEF InStep

\* A read moves bytes and no more.
LEMMA DeliverInStep ==
    ASSUME TypeOK, SentInv, InStep,
           NEW n \in Nat, n <= OnWire, NEW new \in NewIOBuf, Deliver(n, new)
    PROVE  InStep'
<1> DEFINE new_cells ==
             [i \in 1 .. n |->
                [byte |-> wire[i], head |-> i = 1 /\ (new \/ buf = <<>>)]]
<1>1. buf' = buf \o new_cells /\ wire' = SubSeq(wire, n + 1, Len(wire))
      /\ UNCHANGED <<sent, frames>>
  BY DEF Deliver
<1>2. wire \in Seq(Byte) /\ buf \in Seq(Cell) /\ Len(wire) \in Nat
  BY LenProperties DEF TypeOK
<1>3. new_cells \in Seq(Cell) /\ Len(new_cells) = n
      /\ \A i \in 1 .. n : new_cells[i].byte = wire[i]
  <2>1. ASSUME NEW i \in 1 .. n
        PROVE  new_cells[i] \in Cell /\ new_cells[i].byte = wire[i]
    <3>1. wire[i] \in Byte  BY <1>2, ElementOfSeq DEF OnWire
    <3>2. (i = 1 /\ (new \/ buf = <<>>)) \in BOOLEAN  OBVIOUS
    <3> QED  BY <3>1, <3>2 DEF Cell
  <2>2. new_cells \in [1 .. n -> Cell]  BY <2>1
  <2> HIDE DEF new_cells
  <2> QED  BY <1>2, <2>1, <2>2
<1> HIDE DEF new_cells
<1>4. Queued' = Queued + n
      /\ \A i \in 1 .. Queued + n :
           buf'[i] = IF i <= Queued THEN buf[i] ELSE new_cells[i - Queued]
  BY <1>1, <1>2, <1>3, ConcatProperties DEF Queued
<1>5. n <= OnWire /\ OnWire \in Nat  BY Sizes
<1>6. OnWire' = OnWire - n
      /\ \A i \in 1 .. OnWire - n : wire'[i] = wire[i + n]
  <2>1. \A i \in n + 1 .. Len(wire) : wire[i] \in Byte
    BY <1>2, ElementOfSeq
  <2>2. n + 1 \in Int /\ Len(wire) \in Int  BY <1>2
  <2>3. /\ Len(wire') = IF n + 1 <= Len(wire) THEN Len(wire) - (n + 1) + 1 ELSE 0
        /\ \A i \in 1 .. Len(wire) - (n + 1) + 1 :
             wire'[i] = wire[(n + 1) + i - 1]
    BY <1>1, <2>1, <2>2, SubSeqProperties
  <2>4. /\ OnWire' = IF n + 1 <= OnWire THEN OnWire - (n + 1) + 1 ELSE 0
        /\ \A i \in 1 .. OnWire - (n + 1) + 1 :
             wire'[i] = wire[(n + 1) + i - 1]
    BY <2>3 DEF OnWire
  <2>5. ASSUME NEW i \in 1 .. OnWire - n  PROVE wire'[i] = wire[i + n]
    <3>1. i \in 1 .. OnWire - (n + 1) + 1 /\ (n + 1) + i - 1 = i + n
      BY <1>5
    <3> QED  BY <2>4, <3>1
  <2>6. OnWire' = OnWire - n  BY <1>5, <2>4
  <2> QED  BY <2>5, <2>6
<1>7. Size' = Size  BY <1>4, <1>5, <1>6, Sizes DEF Size
<1>8. ASSUME NEW i \in 1 .. Size  PROVE Unread(i)' = Unread(i)
  <2>1. CASE i <= Queued
    <3>1. i \in 1 .. Queued + n /\ i <= Queued + n  BY <1>5, <2>1, Sizes
    <3> QED  BY <1>4, <2>1, <3>1 DEF Unread
  <2>2. CASE ~(i <= Queued) /\ i <= Queued + n
    <3>1. i \in 1 .. Queued + n /\ i - Queued \in 1 .. n
      BY <1>5, <2>2, Sizes
    <3>2. buf'[i].byte = wire[i - Queued]  BY <1>3, <1>4, <2>2, <3>1
    <3> QED  BY <1>4, <2>2, <3>2 DEF Unread
  <2>3. CASE ~(i <= Queued) /\ ~(i <= Queued + n)
    <3>1. i - (Queued + n) \in 1 .. OnWire - n
          /\ (i - (Queued + n)) + n = i - Queued
      BY <1>5, <2>3, Sizes DEF Size
    <3>2. wire'[i - (Queued + n)] = wire[i - Queued]  BY <1>6, <3>1
    <3> QED  BY <1>4, <2>3, <3>2 DEF Unread
  <2> QED  BY <2>1, <2>2, <2>3
<1> QED  BY <1>1, <1>7, <1>8, MoveBytes

\* The queue without the first message, after DecodeFrame.
LEMMA FrameTaken ==
    ASSUME TypeOK, SentInv, Matched, DecodeFrame, Came <= Written,
           NEW off \in [Nat -> Nat], Offsets(off)
    PROVE  LET F == off[Came + 1]
           IN  /\ Came + 1 \in 1 .. Written
               /\ F \in Nat /\ F <= Queued /\ F = Width(sent[Came + 1])
               /\ Came' = Came + 1 /\ Written' = Written /\ sent' = sent
               /\ Queued' = Queued - F /\ Size' = Size - F
               /\ \A i \in 1 .. Size - F : Unread(i)' = Unread(i + F)
<1> DEFINE F == off[Came + 1]
<1>1. HaveHeader /\ Complete  BY DEF DecodeFrame, Complete
<1>2. Came + 1 \in 1 .. Written /\ frameLength = F
      /\ F = Width(sent[Came + 1])
  BY <1>1, FirstFrame
<1>3. F \in Nat  BY <1>1, <1>2, HeaderType
<1>4. F <= Queued  BY <1>1, <1>2 DEF Complete, Queued
<1>5. /\ buf' = Drop(F) /\ UNCHANGED <<sent, wire>>
      /\ frames' = Append(frames, AsQueue(
                       SubSeq(buf, initialBytesToStrip + 1, frameLength)))
  BY <1>2 DEF DecodeFrame
<1>6. Came' = Came + 1
  <2> DEFINE f == AsQueue(SubSeq(buf, initialBytesToStrip + 1, frameLength))
  <2>1. f \in Seq(Cell)  BY FrameType DEF DecodeFrame
  <2>2. frames' = Append(frames, f)  BY <1>5
  <2> HIDE DEF f
  <2> QED  BY <2>1, <2>2, AppendProperties DEF TypeOK, Came
<1>7. Written' = Written /\ sent' = sent /\ OnWire' = OnWire /\ wire' = wire
  BY <1>5 DEF Written, OnWire
<1> HIDE DEF F
<1>8. Queued' = Queued - F
      /\ \A i \in 1 .. Queued - F : buf'[i].byte = buf[i + F].byte
  BY <1>3, <1>4, <1>5, DropProperties DEF Queued
<1>9. Size' = Size - F  BY <1>3, <1>4, <1>7, <1>8, Sizes DEF Size
<1>10. ASSUME NEW i \in 1 .. Size - F  PROVE Unread(i)' = Unread(i + F)
  <2>1. CASE i <= Queued - F
    <3>1. i \in 1 .. Queued - F /\ i + F <= Queued
      BY <1>3, <1>4, <2>1, Sizes
    <3> QED  BY <1>8, <2>1, <3>1 DEF Unread
  <2>2. CASE ~(i <= Queued - F)
    <3>1. ~(i + F <= Queued) /\ i - (Queued - F) = (i + F) - Queued
      BY <1>3, <1>4, <2>2, Sizes
    <3> QED  BY <1>7, <1>8, <2>2, <3>1 DEF Unread
  <2> QED  BY <2>1, <2>2
<1> QED  BY <1>2, <1>3, <1>4, <1>6, <1>7, <1>8, <1>9, <1>10 DEF F

\* A frame taken is one message less to read.
LEMMA FrameInStep ==
    ASSUME TypeOK, SentInv, Matched, InStep, DecodeFrame
    PROVE  InStep'
<1>1. PICK off \in [Nat -> Nat] : Offsets(off)  BY DEF InStep
<1>2. Came <= Written /\ Came \in Nat /\ Written \in Nat
  BY Sizes DEF InStep
<1>3. PICK F \in Nat : F = off[Came + 1]  BY <1>2
<1>4. /\ Came + 1 \in 1 .. Written
      /\ F <= Queued
      /\ Came' = Came + 1 /\ Written' = Written /\ sent' = sent
      /\ Size' = Size - F
      /\ \A i \in 1 .. Size - F : Unread(i)' = Unread(i + F)
  BY <1>1, <1>2, <1>3, FrameTaken
<1>5. PICK off2 \in [Nat -> Nat] :
        \A j \in Nat : off2[j] = IF off[j] >= F THEN off[j] - F ELSE 0
  <2> DEFINE f == [j \in Nat |-> IF off[j] >= F THEN off[j] - F ELSE 0]
  <2>1. f \in [Nat -> Nat]  OBVIOUS
  <2>2. \A j \in Nat : f[j] = IF off[j] >= F THEN off[j] - F ELSE 0  OBVIOUS
  <2> HIDE DEF f
  <2> QED  BY <2>1, <2>2
<1>6. ASSUME NEW j \in Came + 1 .. Written
      PROVE  /\ j \in Nat /\ j \in Came .. Written
             /\ off[j] \in Nat /\ off[j] >= F /\ off2[j] = off[j] - F
  <2>1. j \in Nat /\ j \in Came .. Written /\ Came + 1 \in Came .. Written
        /\ Came + 1 <= j
    BY <1>2, <1>4
  <2>2. off[Came + 1] <= off[j]  BY <1>1, <2>1 DEF Offsets
  <2>3. off[j] \in Nat  BY <2>1
  <2> QED  BY <1>3, <1>5, <2>1, <2>2, <2>3
<1>7. off2[Came + 1] = 0 /\ off2[Written] = Size - F
  <2>1. Came + 1 \in Came + 1 .. Written /\ Written \in Came + 1 .. Written
    BY <1>2, <1>4
  <2>2. off[Written] = Size  BY <1>1 DEF Offsets
  <2> QED  BY <1>3, <1>6, <2>1, <2>2
<1>8. ASSUME NEW j \in Came + 1 .. Written, NEW k \in Came + 1 .. Written, j <= k
      PROVE  off2[j] <= off2[k]
  <2>1. off[j] <= off[k]  BY <1>1, <1>6, <1>8 DEF Offsets
  <2> QED  BY <1>6, <2>1
<1>9. ASSUME NEW k \in Came + 2 .. Written  PROVE LiesAt(off2, k)'
  <2>1. k \in Came + 1 .. Written /\ k - 1 \in Came + 1 .. Written /\ k \in Nat
    BY <1>2
  <2>2. LiesAt(off, k)  BY <1>1, <2>1 DEF Offsets
  <2>3. off2[k] = off[k] - F /\ off2[k - 1] = off[k - 1] - F
        /\ off[k - 1] >= F /\ off[k] \in Nat /\ off[k - 1] \in Nat
    BY <1>6, <2>1
  <2> DEFINE w == Width(sent[k])
  <2>4. w \in Nat /\ \A i \in 1 .. w : off[k - 1] + i \in 1 .. Size
    BY <1>1, <1>2, <2>1, Within
  <2>5. off[k] = off[k - 1] + w
        /\ \A i \in 1 .. w : Unread(off[k - 1] + i) = Encoded(sent[k])[i]
    BY <2>2 DEF LiesAt
  <2> HIDE DEF w
  <2>6. off2[k] = off2[k - 1] + w  BY <2>3, <2>4, <2>5
  <2>7. ASSUME NEW i \in 1 .. w
        PROVE  Unread(off2[k - 1] + i)' = Encoded(sent[k])[i]
    <3>1. PICK n \in Nat : n = off2[k - 1] + i  BY <2>3, <2>4
    <3>2. n + F = off[k - 1] + i  BY <2>3, <2>4, <3>1
    <3>3. n + F \in 1 .. Size  BY <2>4, <3>2
    <3>4. n \in 1 .. Size - F  BY <2>3, <2>4, <3>1, <3>3, Sizes
    <3>5. Unread(n)' = Unread(n + F)  BY <1>4, <3>4
    <3> QED  BY <2>5, <3>1, <3>2, <3>5
  <2> QED  BY <1>4, <2>6, <2>7 DEF LiesAt, w, Width
<1>10. (Came + 1) + 1 = Came + 2  BY <1>2
<1>11. Offsets(off2)'
  BY <1>4, <1>7, <1>8, <1>9, <1>10 DEF Offsets
<1>12. Came' <= Written'  BY <1>2, <1>4
<1> QED  BY <1>11, <1>12 DEF InStep

\* The frame that DecodeFrame takes off the queue is the message written.
LEMMA FrameIsMessage ==
    ASSUME TypeOK, SentInv, Matched, InStep, Complete,
           initialBytesToStrip <= frameLength
    PROVE  LET f == AsQueue(SubSeq(buf, initialBytesToStrip + 1, frameLength))
           IN  /\ Came + 1 \in 1 .. Written
               /\ frameLength = Width(sent[Came + 1])
               /\ f \in Seq(Cell)
               /\ Bytes(f) = Stripped(sent[Came + 1])
<1> DEFINE m == sent[Came + 1]
           f == AsQueue(SubSeq(buf, initialBytesToStrip + 1, frameLength))
           x == initialBytesToStrip
           F == frameLength
           e == Encoded(m)
<1>1. PICK off \in [Nat -> Nat] : Offsets(off)  BY DEF InStep
<1>2. /\ Came + 1 \in 1 .. Written /\ F = Width(m)
      /\ \A i \in 1 .. F : i <= Queued => buf[i].byte = e[i]
  BY <1>1, FirstFrame DEF Complete, InStep
<1>3. F <= Queued /\ F \in Nat /\ x \in Nat /\ x <= F
  BY HeaderType, ParametersAssumption DEF Complete, Queued, ParametersAssumption
<1>4. m \in Content /\ FieldFits(m)  BY <1>2, SentContent
<1>5. e \in Seq(Byte) /\ Len(e) = F  BY <1>2, <1>4, WidthProperties DEF Width
<1>6. f \in Seq(Cell) /\ Len(f) = F - x
      /\ \A i \in 1 .. F - x : f[i].byte = buf[i + x].byte
  BY FrameType
<1>7. Stripped(m) = SubSeq(e, x + 1, F)  BY <1>2 DEF Stripped
<1> HIDE DEF m, f, x, F, e
<1>8. Bytes(f) \in Seq(Byte) /\ Len(Bytes(f)) = F - x
      /\ \A i \in 1 .. F - x : Bytes(f)[i] = f[i].byte
  BY <1>6, BytesProperties
<1> DEFINE r == SubSeq(e, x + 1, F)
<1>9. /\ r \in Seq(Byte)
      /\ Len(r) = F - x
      /\ \A i \in 1 .. F - x : r[i] = e[i + x]
  <2>1. \A i \in x + 1 .. F : e[i] \in Byte  BY <1>3, <1>5, ElementOfSeq
  <2>2. x + 1 \in Int /\ F \in Int  BY <1>3
  <2>3. /\ r \in Seq(Byte)
        /\ Len(r) = IF x + 1 <= F THEN F - (x + 1) + 1 ELSE 0
        /\ \A i \in 1 .. F - (x + 1) + 1 : r[i] = e[(x + 1) + i - 1]
    BY <2>1, <2>2, SubSeqProperties
  <2> HIDE DEF r
  <2>4. Len(r) = F - x  BY <1>3, <2>3
  <2>5. ASSUME NEW i \in 1 .. F - x  PROVE r[i] = e[i + x]
    <3>1. i \in 1 .. F - (x + 1) + 1 /\ (x + 1) + i - 1 = i + x  BY <1>3
    <3> QED  BY <2>3, <3>1
  <2> QED  BY <2>3, <2>4, <2>5
<1> HIDE DEF r
<1>10. ASSUME NEW i \in 1 .. F - x  PROVE Bytes(f)[i] = r[i]
  <2>1. i + x \in 1 .. F /\ i + x <= Queued  BY <1>3, Sizes
  <2>2. buf[i + x].byte = e[i + x]  BY <1>2, <2>1
  <2> QED  BY <1>6, <1>8, <1>9, <2>2
<1>11. Bytes(f) = r  BY <1>8, <1>9, <1>10, SeqEqual
<1> QED  BY <1>2, <1>6, <1>7, <1>11 DEF m, f, x, F, r

\* Frames that came out stay exact, and new ones are.
LEMMA ExactStep ==
    ASSUME TypeOK, SentInv, Matched, InStep, FramesExact, [Next]_vars,
           exceptions' = 0
    PROVE  InStep' /\ FramesExact'
<1>1. ASSUME NEW m \in Content, Write(m)  PROVE InStep' /\ FramesExact'
  <2>1. InStep'  BY <1>1, WriteInStep
  <2>2. Came' = Came /\ frames' = frames  BY <1>1 DEF Write, Came
  <2>3. \A k \in 1 .. Written : sent'[k] = sent[k]
    BY <1>1, AppendProperties DEF Write, Written, TypeOK
  <2>4. ASSUME NEW k \in 1 .. Came
        PROVE  Bytes(frames'[k]) = Stripped(sent'[k])
    <3>1. k \in 1 .. Written  BY Sizes DEF InStep
    <3> QED  BY <2>2, <2>3, <3>1 DEF FramesExact
  <2> QED  BY <2>1, <2>2, <2>4 DEF FramesExact
<1>2. ASSUME NEW n \in 1 .. Len(wire), NEW new \in NewIOBuf, Deliver(n, new)
      PROVE  InStep' /\ FramesExact'
  <2>1. n \in Nat /\ n <= OnWire  BY Sizes DEF OnWire
  <2>2. InStep'  BY <1>2, <2>1, DeliverInStep
  <2>3. UNCHANGED <<sent, frames>>  BY <1>2 DEF Deliver
  <2> QED  BY <2>2, <2>3 DEF FramesExact, Came
<1>3. CASE UNCHANGED <<sent, wire, buf, frames>>
  <2>1. Size' = Size /\ \A i \in 1 .. Size : Unread(i)' = Unread(i)
    BY <1>3 DEF Size, Queued, OnWire, Unread
  <2>2. InStep'  BY <1>3, <2>1, MoveBytes
  <2> QED  BY <1>3, <2>2 DEF FramesExact, Came
<1>4. CASE DecodeIncompleteHeader
  BY <1>3, <1>4 DEF DecodeIncompleteHeader, EndLoop
<1>5. CASE DecodeTooSmall
  BY <1>5 DEF DecodeTooSmall, Reject
<1>6. CASE DecodeTooLarge
  BY <1>6 DEF DecodeTooLarge, Reject
<1>7. CASE DecodeIncompleteFrame
  BY <1>3, <1>7 DEF DecodeIncompleteFrame, EndLoop
<1>8. CASE DecodeStripTooLong
  BY <1>8 DEF DecodeStripTooLong, Reject
<1>9. CASE DecodeFrame
  <2>1. InStep'  BY <1>9, FrameInStep
  <2> DEFINE f == AsQueue(SubSeq(buf, initialBytesToStrip + 1, frameLength))
  <2>2. /\ Came + 1 \in 1 .. Written
        /\ f \in Seq(Cell) /\ Bytes(f) = Stripped(sent[Came + 1])
    BY <1>9, FrameIsMessage DEF DecodeFrame
  <2>3. sent' = sent /\ frames' = Append(frames, f)  BY <1>9 DEF DecodeFrame
  <2> HIDE DEF f
  <2>4. /\ Came' = Came + 1 /\ frames'[Came + 1] = f
        /\ \A k \in 1 .. Came : frames'[k] = frames[k]
    BY <2>2, <2>3, AppendProperties DEF TypeOK, Came
  <2>5. ASSUME NEW k \in 1 .. Came + 1
        PROVE  Bytes(frames'[k]) = Stripped(sent[k])
    <3>1. CASE k = Came + 1
      BY <2>2, <2>4, <3>1
    <3>2. CASE k # Came + 1
      <4>1. k \in 1 .. Came  BY <3>2, Sizes
      <4> QED  BY <2>4, <4>1 DEF FramesExact
    <3> QED  BY <3>1, <3>2
  <2> QED  BY <2>1, <2>3, <2>4, <2>5 DEF FramesExact
<1>10. CASE UNCHANGED vars
  BY <1>3, <1>10 DEF vars
<1> QED
  BY <1>1, <1>2, <1>4, <1>5, <1>6, <1>7, <1>8, <1>9, <1>10 DEF Next, Decode

-----------------------------------------------------------------------------
(* The invariant.                                                          *)

\* At the start nothing was written and nothing has come.
LEMMA InitInv == Init => Inv
<1> SUFFICES ASSUME Init PROVE Inv
  OBVIOUS
<1>1. TypeOK /\ SentInv
  <2>1. TypeOK
    <3>1. <<>> \in Seq(Content) /\ <<>> \in Seq(Byte) /\ <<>> \in Seq(Cell)
          /\ <<>> \in Seq(Seq(Cell))
      BY EmptySeq
    <3> QED  BY <3>1 DEF Init, TypeOK
  <2>2. Len(sent) = 0  BY EmptySeq DEF Init
  <2> QED  BY <2>1, <2>2 DEF SentInv
<1>2. Came = 0 /\ Written = 0 /\ Queued = 0 /\ OnWire = 0
  BY EmptySeq DEF Init, Came, Written, Queued, OnWire
<1>3. PICK off \in [Nat -> Nat] : off[0] = 0
  <2>1. [j \in Nat |-> 0] \in [Nat -> Nat]  OBVIOUS
  <2> QED  BY <2>1
<1>4. Offsets(off)
  BY <1>2, <1>3 DEF Offsets, Size
<1>5. InStep /\ FramesExact
  BY <1>2, <1>4 DEF InStep, FramesExact
<1> QED  BY <1>1, <1>5 DEF Inv

\* An exception, once reported, stays reported.
LEMMA ExceptionsStay ==
    ASSUME TypeOK, [Next]_vars, exceptions' = 0
    PROVE  exceptions = 0
BY DEF TypeOK, Next, vars, Write, Deliver, Decode, DecodeIncompleteHeader,
   DecodeTooSmall, DecodeTooLarge, DecodeIncompleteFrame, DecodeStripTooLong,
   DecodeFrame, Reject

\* Every step keeps the invariant.
LEMMA StepInv ==
    ASSUME Matched, Inv, [Next]_vars
    PROVE  Inv'
<1>1. TypeOK' /\ SentInv'  BY TypeStep DEF Inv
<1>2. ASSUME exceptions' = 0  PROVE InStep' /\ FramesExact'
  BY <1>2, ExceptionsStay, ExactStep DEF Inv
<1> QED  BY <1>1, <1>2 DEF Inv

\* The types in every state, for any parameters.
LEMMA TypesAlways == Spec => [](TypeOK /\ SentInv)
<1>1. Init => TypeOK /\ SentInv  BY InitInv DEF Inv
<1>2. TypeOK /\ SentInv /\ [Next]_vars => (TypeOK /\ SentInv)'  BY TypeStep
<1> QED  BY <1>1, <1>2, PTL DEF Spec

\* The invariant holds in every state.
LEMMA InvAlways == ASSUME Matched PROVE Spec => []Inv
<1>1. Inv /\ [Next]_vars => Inv'  BY StepInv
<1> QED  BY <1>1, InitInv, PTL DEF Spec

-----------------------------------------------------------------------------
(* Theorems for handlers whose parameters match.                           *)

\* What has come out, of any frames.
Contents(fs) == [i \in DOMAIN fs |-> Bytes(fs[i])]

\* It has one entry per frame.
LEMMA ContentsProperties ==
    ASSUME NEW fs \in Seq(Seq(Cell))
    PROVE  /\ DOMAIN fs = 1 .. Len(fs)
           /\ Contents(fs) \in Seq(Seq(Byte))
           /\ Len(Contents(fs)) = Len(fs)
           /\ DOMAIN Contents(fs) = 1 .. Len(fs)
           /\ \A i \in 1 .. Len(fs) : Contents(fs)[i] = Bytes(fs[i])
<1>1. Len(fs) \in Nat /\ DOMAIN fs = 1 .. Len(fs)
      /\ \A i \in 1 .. Len(fs) : fs[i] \in Seq(Cell)
  BY LenProperties, ElementOfSeq
<1> DEFINE c == Contents(fs)
           n == Len(fs)
           S == Seq(Byte)
<1>2. n \in Nat /\ c = [i \in 1 .. n |-> Bytes(fs[i])]  BY <1>1 DEF Contents
<1>3. \A i \in 1 .. n : Bytes(fs[i]) \in S  BY <1>1, BytesProperties
<1> HIDE DEF c, n, S
<1>4. c \in [1 .. n -> S]  BY <1>2, <1>3
<1>5. c \in Seq(S) /\ Len(c) = n  BY <1>2, <1>4
<1>6. DOMAIN c = 1 .. n /\ \A i \in 1 .. n : c[i] = Bytes(fs[i])  BY <1>2
<1> QED  BY <1>1, <1>5, <1>6 DEF c, n, S

\* One more frame is one more entry.
LEMMA OneMore ==
    ASSUME NEW fs \in Seq(Seq(Cell)), NEW f \in Seq(Cell)
    PROVE  Contents(Append(fs, f)) = Append(Contents(fs), Bytes(f))
<1> DEFINE gs == Append(fs, f)
           a == Append(Contents(fs), Bytes(f))
           n == Len(fs)
<1>1. gs \in Seq(Seq(Cell)) /\ Len(gs) = n + 1 /\ gs[n + 1] = f
      /\ \A i \in 1 .. n : gs[i] = fs[i]
  BY AppendProperties
<1>2. Bytes(f) \in Seq(Byte) /\ Contents(fs) \in Seq(Seq(Byte))
      /\ Len(Contents(fs)) = n
      /\ \A i \in 1 .. n : Contents(fs)[i] = Bytes(fs[i])
  BY BytesProperties, ContentsProperties
<1>3. a \in Seq(Seq(Byte)) /\ Len(a) = n + 1 /\ a[n + 1] = Bytes(f)
      /\ \A i \in 1 .. n : a[i] = Contents(fs)[i]
  BY <1>2, AppendProperties
<1>4. n \in Nat  BY LenProperties
<1> HIDE DEF gs, a, n
<1>5. Contents(gs) \in Seq(Seq(Byte)) /\ Len(Contents(gs)) = n + 1
      /\ \A i \in 1 .. n + 1 : Contents(gs)[i] = Bytes(gs[i])
  BY <1>1, ContentsProperties
<1>6. ASSUME NEW i \in 1 .. n + 1  PROVE Contents(gs)[i] = a[i]
  <2>1. CASE i = n + 1
    BY <1>1, <1>3, <1>5, <2>1
  <2>2. CASE i # n + 1
    <3>1. i \in 1 .. n  BY <1>4, <2>2
    <3> QED  BY <1>1, <1>2, <1>3, <1>5, <3>1
  <2> QED  BY <2>1, <2>2
<1>7. Contents(gs) = a  BY <1>3, <1>5, <1>6, SeqEqual
<1> QED  BY <1>7 DEF gs, a

\* As long as no exception was reported, what came out is what was written,
\* in order and without the bytes to strip.
THEOREM ExactFrames ==
    ASSUME Matched
    PROVE  Spec => []ExactUntilException
<1>1. Inv => ExactUntilException
  <2> SUFFICES ASSUME Inv, exceptions = 0 PROVE ExactUntilException
    BY DEF ExactUntilException
  <2>1. received = Contents(frames)  BY DEF received, Contents
  <2>2. DOMAIN received = 1 .. Came /\ Len(received) = Came
        /\ \A i \in 1 .. Came : received[i] = Bytes(frames[i])
    BY <2>1, ContentsProperties DEF Inv, TypeOK, Came
  <2>3. Came <= Written /\ FramesExact  BY DEF Inv, InStep
  <2>4. \A i \in DOMAIN received :
          received[i] = LET e == Encoded(sent[i])
                        IN  SubSeq(e, initialBytesToStrip + 1, Len(e))
    BY <2>2, <2>3 DEF FramesExact, Stripped, Width
  <2> QED  BY <2>2, <2>3, <2>4 DEF ExactUntilException, Written
<1> QED  BY <1>1, InvAlways, PTL

-----------------------------------------------------------------------------
(* Theorems for the parameters of both pipelines: the length field is      *)
(* stripped, and no message exceeds the maximum.                           *)

Pipeline ==
    /\ Matched
    /\ initialBytesToStrip = lengthFieldLength
    /\ \A m \in Content : lengthFieldLength + Len(m) <= maxFrameLength

\* No exception is reported, and the loop ends with no complete frame left.
Undisturbed == exceptions = 0 /\ (~reading => ~Complete)

\* Stripping the length field leaves the message.
LEMMA StrippedMessage ==
    ASSUME Pipeline, NEW m \in Content, FieldFits(m)
    PROVE  Stripped(m) = m
<1> DEFINE e == Encoded(m)
           x == initialBytesToStrip
           n == Len(m)
           y == x + n
           r == SubSeq(e, x + 1, y)
<1>1. m \in Seq(Byte)  BY ContentAssumption DEF ContentAssumption
<1>2. /\ x = lengthFieldLength /\ n \in Nat /\ x \in Nat
      /\ e \in Seq(Byte) /\ Len(e) = x + n
      /\ \A i \in 1 .. n : e[x + i] = m[i]
  BY EncodedProperties, Lengths DEF Pipeline
<1>3. Stripped(m) = r  BY <1>2 DEF Stripped, Width
<1> HIDE DEF e, x, n
<1>4. \A i \in x + 1 .. y : e[i] \in Byte  BY <1>2, ElementOfSeq
<1>5. x + 1 \in Int /\ y \in Int /\ y = x + n  BY <1>2
<1> HIDE DEF y
<1>6. /\ r \in Seq(Byte)
      /\ Len(r) = IF x + 1 <= y THEN y - (x + 1) + 1 ELSE 0
      /\ \A i \in 1 .. y - (x + 1) + 1 : r[i] = e[(x + 1) + i - 1]
  BY <1>4, <1>5, SubSeqProperties
<1> HIDE DEF r
<1>7. Len(r) = n  BY <1>2, <1>5, <1>6
<1>8. ASSUME NEW i \in 1 .. n  PROVE r[i] = m[i]
  <2>1. i \in 1 .. y - (x + 1) + 1 /\ (x + 1) + i - 1 = x + i
    BY <1>2, <1>5
  <2> QED  BY <1>2, <1>6, <2>1
<1>9. Len(r) = Len(m)  BY <1>7 DEF n
<1>10. r = m  BY <1>1, <1>6, <1>7, <1>8, <1>9, SeqEqual
<1> QED  BY <1>3, <1>10

\* A header says the length of a message, which is in the range.
LEMMA HeaderInRange ==
    ASSUME Pipeline, TypeOK, SentInv, InStep, HaveHeader
    PROVE  /\ frameLength \in lengthFieldEndOffset .. maxFrameLength
           /\ initialBytesToStrip <= frameLength
<1>1. PICK off \in [Nat -> Nat] : Offsets(off)  BY DEF InStep
<1> DEFINE m == sent[Came + 1]
           n == Len(m)
<1>2. Came + 1 \in 1 .. Written /\ frameLength = Width(m)
  BY <1>1, FirstFrame DEF InStep, Pipeline
<1>3. m \in Content /\ FieldFits(m)  BY <1>2, SentContent
<1> HIDE DEF m
<1>4. n \in Nat /\ Width(m) = lengthFieldLength + n
      /\ lengthFieldLength + n <= maxFrameLength
  BY <1>3, EncodedProperties DEF Width, Pipeline
<1>5. lengthFieldEndOffset = lengthFieldLength
      /\ initialBytesToStrip = lengthFieldLength
  BY Lengths DEF lengthFieldEndOffset, Pipeline, Matched
<1>6. maxFrameLength \in Nat  BY ParametersAssumption DEF ParametersAssumption
<1> HIDE DEF n
<1> QED  BY <1>2, <1>4, <1>5, <1>6, Lengths

\* Whether the queue begins with a complete frame is up to the queue.
LEMMA SameQueue ==
    ASSUME UNCHANGED buf
    PROVE  HaveHeader' = HaveHeader /\ Complete' = Complete
BY DEF HaveHeader, Complete, frameLength, getUnadjustedFrameLength

\* decode rejects nothing, and goes on until no complete frame is left.
LEMMA UndisturbedStep ==
    ASSUME Pipeline, Inv, Undisturbed, [Next]_vars
    PROVE  Undisturbed'
<1>0. TypeOK /\ SentInv /\ InStep /\ exceptions = 0
  BY DEF Inv, Undisturbed
<1>1. ASSUME NEW m \in Content, Write(m)  PROVE Undisturbed'
  <2>1. UNCHANGED <<buf, reading, exceptions>>  BY <1>1 DEF Write
  <2> QED  BY <2>1, SameQueue DEF Undisturbed
<1>2. ASSUME NEW n \in 1 .. Len(wire), NEW new \in NewIOBuf, Deliver(n, new)
      PROVE  Undisturbed'
  <2>1. reading' = TRUE /\ exceptions' = exceptions  BY <1>2 DEF Deliver
  <2> QED  BY <1>0, <2>1 DEF Undisturbed
<1>3. CASE DecodeIncompleteHeader
  <2>1. ~HaveHeader /\ UNCHANGED <<buf, exceptions>>
    BY <1>3 DEF DecodeIncompleteHeader
  <2>2. ~Complete  BY <2>1 DEF Complete
  <2> QED  BY <1>0, <2>1, <2>2, SameQueue DEF Undisturbed
<1>4. CASE DecodeTooSmall
  <2>1. HaveHeader /\ frameLength < lengthFieldEndOffset
    BY <1>4 DEF DecodeTooSmall
  <2>2. frameLength \in lengthFieldEndOffset .. maxFrameLength
    BY <1>0, <2>1, HeaderInRange
  <2>3. lengthFieldEndOffset \in Nat /\ frameLength \in Nat
    BY <1>0, <2>1, HeaderType
  <2> QED  BY <2>1, <2>2, <2>3
<1>5. CASE DecodeTooLarge
  <2>1. HaveHeader /\ frameLength > maxFrameLength
    BY <1>5 DEF DecodeTooLarge
  <2>2. frameLength \in lengthFieldEndOffset .. maxFrameLength
    BY <1>0, <2>1, HeaderInRange
  <2>3. maxFrameLength \in Nat  BY ParametersAssumption DEF ParametersAssumption
  <2> QED  BY <2>1, <2>2, <2>3
<1>6. CASE DecodeIncompleteFrame
  <2>1. Len(buf) < frameLength /\ HaveHeader /\ UNCHANGED <<buf, exceptions>>
    BY <1>6 DEF DecodeIncompleteFrame
  <2>2. Len(buf) \in Nat /\ frameLength \in Nat
    BY <1>0, <2>1, HeaderType, LenProperties DEF TypeOK
  <2>3. ~Complete  BY <2>1, <2>2 DEF Complete
  <2> QED  BY <1>0, <2>1, <2>3, SameQueue DEF Undisturbed
<1>7. CASE DecodeStripTooLong
  <2>1. HaveHeader /\ initialBytesToStrip > frameLength
    BY <1>7 DEF DecodeStripTooLong, Complete
  <2>2. initialBytesToStrip <= frameLength  BY <1>0, <2>1, HeaderInRange
  <2>3. initialBytesToStrip \in Nat /\ frameLength \in Nat
    BY <1>0, <2>1, HeaderType, ParametersAssumption DEF ParametersAssumption
  <2> QED  BY <2>1, <2>2, <2>3
<1>8. CASE DecodeFrame
  <2>1. reading' = TRUE /\ exceptions' = exceptions
    BY <1>0, <1>8 DEF DecodeFrame, TypeOK
  <2> QED  BY <1>0, <2>1 DEF Undisturbed
<1>9. CASE UNCHANGED vars
  <2>1. UNCHANGED <<buf, reading, exceptions>>  BY <1>9 DEF vars
  <2> QED  BY <2>1, SameQueue DEF Undisturbed
<1> QED
  BY <1>1, <1>2, <1>3, <1>4, <1>5, <1>6, <1>7, <1>8, <1>9 DEF Next, Decode

\* At the start there is nothing to decode.
LEMMA UndisturbedInit == Init => Undisturbed
<1> SUFFICES ASSUME Init PROVE Undisturbed
  OBVIOUS
<1>1. exceptions = 0 /\ Len(buf) = 0  BY EmptySeq DEF Init
<1>2. lengthFieldEndOffset \in Nat \ {0}
  BY Lengths, ParametersAssumption DEF lengthFieldEndOffset, ParametersAssumption
<1>3. ~HaveHeader  BY <1>1, <1>2 DEF HaveHeader
<1> QED  BY <1>1, <1>3 DEF Undisturbed, Complete

\* The invariant and an undisturbed reader, in every state.
LEMMA PipelineAlways == ASSUME Pipeline PROVE Spec => [](Inv /\ Undisturbed)
<1>1. Init => Inv /\ Undisturbed  BY InitInv, UndisturbedInit
<1>2. Inv /\ Undisturbed /\ [Next]_vars => (Inv /\ Undisturbed)'
  BY StepInv, UndisturbedStep DEF Pipeline
<1> QED  BY <1>1, <1>2, PTL DEF Spec

\* A message that has arrived goes up: the loop does not end before it.
THEOREM NothingIsHeldBack == ASSUME Pipeline PROVE Spec => []NothingHeldBack
<1>1. Inv /\ Undisturbed => NothingHeldBack
  BY DEF Inv, Undisturbed, NothingHeldBack
<1> QED  BY <1>1, PipelineAlways, PTL

\* Each step is a step of the message channel: a write sends a message,
\* decode receives the next one, and no other step is visible.
LEMMA ChannelStep ==
    ASSUME Pipeline, Inv, Undisturbed, [Next]_vars
    PROVE  [Channel!Next]_(Channel!vars)
<1>0. TypeOK /\ SentInv /\ InStep  BY DEF Inv, Undisturbed
<1>1. ASSUME NEW m \in Content, Write(m)  PROVE Channel!Next
  <2>1. sent' = Append(sent, m) /\ frames' = frames  BY <1>1 DEF Write
  <2>2. received' = received  BY <2>1 DEF received
  <2> QED  BY <2>1, <2>2 DEF Channel!Next, Channel!Send
<1>2. CASE UNCHANGED <<sent, frames>>
  BY <1>2 DEF Channel!vars, received
<1>3. ASSUME NEW n \in 1 .. Len(wire), NEW new \in NewIOBuf, Deliver(n, new)
      PROVE  UNCHANGED <<sent, frames>>
  BY <1>3 DEF Deliver
<1>4. CASE \/ DecodeIncompleteHeader \/ DecodeTooSmall \/ DecodeTooLarge
           \/ DecodeIncompleteFrame \/ DecodeStripTooLong
  BY <1>2, <1>4 DEF DecodeIncompleteHeader, DecodeTooSmall, DecodeTooLarge,
     DecodeIncompleteFrame, DecodeStripTooLong, Reject, EndLoop
<1>5. CASE DecodeFrame
  <2> DEFINE f == AsQueue(SubSeq(buf, initialBytesToStrip + 1, frameLength))
             m == sent[Came + 1]
  <2>1. /\ Came + 1 \in 1 .. Written
        /\ f \in Seq(Cell) /\ Bytes(f) = Stripped(m)
    BY <1>0, <1>5, FrameIsMessage DEF DecodeFrame, Pipeline
  <2>2. m \in Content /\ FieldFits(m)  BY <1>0, <2>1, SentContent
  <2>3. sent' = sent /\ frames' = Append(frames, f)  BY <1>5 DEF DecodeFrame
  <2> HIDE DEF f
  <2>4. Stripped(m) = m
    <3> HIDE DEF m
    <3> QED  BY <2>2, StrippedMessage
  <2>5. frames \in Seq(Seq(Cell))  BY <1>0 DEF TypeOK
  <2>6. received = Contents(frames) /\ received' = Contents(frames')
    BY DEF received, Contents
  <2>7. Contents(frames') = Append(Contents(frames), m)
    BY <2>1, <2>3, <2>4, <2>5, OneMore
  <2>8. Len(received) = Came  BY <2>5, <2>6, ContentsProperties DEF Came
  <2>9. Len(received) < Len(sent)  BY <1>0, <2>1, <2>8, Sizes DEF Written
  <2> QED  BY <2>3, <2>6, <2>7, <2>8, <2>9 DEF Channel!Next, Channel!Receive
<1>6. CASE UNCHANGED vars
  BY <1>2, <1>6 DEF vars
<1> QED  BY <1>1, <1>2, <1>3, <1>4, <1>5, <1>6 DEF Next, Decode

\* However the stream is cut into reads, what comes out is what was written,
\* whole and in order: the codec implements the message channel.
THEOREM CodecIsChannel == ASSUME Pipeline PROVE Spec => ImplementsMessageChannel
<1>1. Init => Channel!Init
  <2> SUFFICES ASSUME Init PROVE Channel!Init
    OBVIOUS
  <2>1. frames = <<>> /\ sent = <<>>  BY DEF Init
  <2>2. frames \in Seq(Seq(Cell)) /\ Len(frames) = 0  BY <2>1, EmptySeq
  <2>3. received = Contents(frames)  BY DEF received, Contents
  <2>4. received \in Seq(Seq(Byte)) /\ Len(received) = 0
    BY <2>2, <2>3, ContentsProperties
  <2>5. received = <<>>  BY <2>4, EmptySeq
  <2> QED  BY <2>1, <2>5 DEF Channel!Init
<1>2. Inv /\ Undisturbed /\ [Next]_vars => [Channel!Next]_(Channel!vars)
  BY ChannelStep
<1> QED
  BY <1>1, <1>2, PipelineAlways, PTL
     DEF Spec, ImplementsMessageChannel, Channel!Spec

\* What protobuf is given of a frame, which may lie in more than one IOBuf,
\* is the beginning of its message, all of it if it lies in one.
LEMMA ParsedBeginning ==
    ASSUME NEW f \in Seq(Cell), NEW m \in Seq(Byte), m # <<>>, Bytes(f) = m
    PROVE  /\ Parsed(f) # <<>> /\ IsPrefix(Parsed(f), m)
           /\ (\A k \in 2 .. Len(f) : ~f[k].head) => Parsed(f) = m
<1> DEFINE second == {i \in 2 .. Len(f) : f[i].head}
           n == Len(m)
           k == IF second = {} THEN n ELSE Min(second) - 1
           b == SubSeq(m, 1, k)
<1>1. n \in Nat \ {0} /\ Len(f) = n /\ \A i \in 1 .. n : m[i] = f[i].byte
  BY BytesProperties, EmptySeq
<1>2. k \in 1 .. n
  <2>1. CASE second = {}
    BY <1>1, <2>1
  <2>2. CASE second # {}
    <3>1. second \subseteq Nat  BY <1>1
    <3>2. Min(second) \in second
      <4> HIDE DEF second
      <4> QED  BY <2>2, <3>1, LeastElement
    <3>3. Min(second) \in 2 .. n  BY <1>1, <3>2
    <3> HIDE DEF second
    <3> QED  BY <1>1, <2>2, <3>3
  <2> QED  BY <2>1, <2>2
<1>3. b \in Seq(Byte) /\ Len(b) = k /\ \A i \in 1 .. k : b[i] = m[i]
  <2> HIDE DEF k, n, b
  <2>1. \A i \in 1 .. k : m[i] \in Byte  BY <1>1, <1>2, ElementOfSeq DEF n
  <2>2. 1 \in Int /\ k \in Int  BY <1>1, <1>2
  <2>3. /\ b \in Seq(Byte)
        /\ Len(b) = IF 1 <= k THEN k - 1 + 1 ELSE 0
        /\ \A i \in 1 .. k - 1 + 1 : b[i] = m[1 + i - 1]
    BY <2>1, <2>2, SubSeqProperties DEF b
  <2>4. k - 1 + 1 = k /\ \A i \in 1 .. k : 1 + i - 1 = i  BY <1>1, <1>2
  <2> QED  BY <1>1, <1>2, <2>3, <2>4
<1>4. Parsed(f) = b
  <2>1. CASE second = {}
    <3>1. Parsed(f) = m  BY <2>1 DEF Parsed
    <3>2. k = n  BY <2>1
    <3> HIDE DEF k, b, n
    <3>3. Len(b) = Len(m) /\ \A i \in 1 .. Len(b) : b[i] = m[i]
      BY <1>3, <3>2 DEF n
    <3>4. b = m  BY <1>3, <3>3, SeqEqual
    <3> QED  BY <3>1, <3>4
  <2>2. CASE second # {}
    <3> DEFINE c == SubSeq(f, 1, Min(second) - 1)
    <3>1. Parsed(f) = Bytes(c)  BY <2>2 DEF Parsed
    <3>2. c = SubSeq(f, 1, k)  BY <2>2
    <3> HIDE DEF k, b, n, second, c
    <3>3. \A i \in 1 .. k : f[i] \in Cell
      BY <1>1, <1>2, ElementOfSeq
    <3>4. 1 \in Int /\ k \in Int  BY <1>1, <1>2
    <3>5. /\ c \in Seq(Cell)
          /\ Len(c) = IF 1 <= k THEN k - 1 + 1 ELSE 0
          /\ \A i \in 1 .. k - 1 + 1 : c[i] = f[1 + i - 1]
      BY <3>2, <3>3, <3>4, SubSeqProperties
    <3>6. k - 1 + 1 = k /\ \A i \in 1 .. k : 1 + i - 1 = i  BY <1>1, <1>2
    <3>7. Len(c) = k /\ \A i \in 1 .. k : c[i] = f[i]
      BY <1>1, <1>2, <3>5, <3>6
    <3>8. Bytes(c) \in Seq(Byte) /\ Len(Bytes(c)) = k
          /\ \A i \in 1 .. k : Bytes(c)[i] = c[i].byte
      BY <3>5, <3>7, BytesProperties
    <3>9. ASSUME NEW i \in 1 .. k  PROVE Bytes(c)[i] = b[i]
      <4>1. i \in 1 .. n  BY <1>1, <1>2
      <4> QED  BY <1>1, <1>3, <3>7, <3>8, <4>1
    <3>10. Bytes(c) = b  BY <1>3, <3>8, <3>9, SeqEqual
    <3> QED  BY <3>1, <3>10
  <2> QED  BY <2>1, <2>2
<1>5. b # <<>>
  <2> HIDE DEF b, k
  <2> QED  BY <1>2, <1>3, EmptySeq
<1>6. IsPrefix(b, m)
  <2> HIDE DEF k, n
  <2>1. SubSeq(b, 1, k) = b
    <3> DEFINE c == SubSeq(b, 1, k)
    <3> HIDE DEF b
    <3>1. \A i \in 1 .. k : b[i] \in Byte  BY <1>3, ElementOfSeq
    <3>2. 1 \in Int /\ k \in Int  BY <1>1, <1>2
    <3>3. /\ c \in Seq(Byte)
          /\ Len(c) = IF 1 <= k THEN k - 1 + 1 ELSE 0
          /\ \A i \in 1 .. k - 1 + 1 : c[i] = b[1 + i - 1]
      BY <3>1, <3>2, SubSeqProperties
    <3> HIDE DEF c
    <3>4. k - 1 + 1 = k /\ \A i \in 1 .. k : 1 + i - 1 = i  BY <1>1, <1>2
    <3>5. Len(c) = k /\ \A i \in 1 .. k : c[i] = b[i]
      BY <1>1, <1>2, <3>3, <3>4
    <3>6. c = b  BY <1>3, <3>3, <3>5, SeqEqual
    <3> QED  BY <3>6 DEF c
  <2>2. k <= Len(m)  BY <1>1, <1>2 DEF n
  <2>3. Len(b) = k  BY <1>3
  <2> QED  BY <2>1, <2>2, <2>3 DEF IsPrefix
<1>7. ASSUME \A i \in 2 .. Len(f) : ~f[i].head  PROVE Parsed(f) = m
  <2>1. second = {}  BY <1>7
  <2> QED  BY <2>1 DEF Parsed
<1> QED  BY <1>4, <1>5, <1>6, <1>7

\* RpcMsgSerializeHandler gives protobuf the beginning of the message that
\* was written, never bytes of another, if no message is empty.
THEOREM ParsedIsBeginning ==
    ASSUME Pipeline, <<>> \notin Content
    PROVE  Spec => []ParsedIsPrefix
<1>1. Inv /\ Undisturbed => ParsedIsPrefix
  <2> SUFFICES ASSUME Inv, Undisturbed, NEW i \in DOMAIN frames
               PROVE  /\ Parsed(frames[i]) # <<>>
                      /\ IsPrefix(Parsed(frames[i]), sent[i])
                      /\ (\A k \in 2 .. Len(frames[i]) : ~frames[i][k].head)
                           => Parsed(frames[i]) = sent[i]
    BY DEF ParsedIsPrefix
  <2>1. TypeOK /\ SentInv /\ Came <= Written /\ FramesExact
    BY DEF Inv, Undisturbed, InStep
  <2>2. i \in 1 .. Came /\ frames[i] \in Seq(Cell)
    BY <2>1, ElementOfSeq, ContentsProperties DEF TypeOK, Came
  <2>3. i \in 1 .. Written  BY <2>1, <2>2, Sizes
  <2>4. sent[i] \in Content /\ FieldFits(sent[i])  BY <2>1, <2>3, SentContent
  <2>5. Bytes(frames[i]) = sent[i]
    BY <2>1, <2>2, <2>4, StrippedMessage DEF FramesExact
  <2>6. sent[i] # <<>> /\ sent[i] \in Seq(Byte)
    BY <2>4, ContentAssumption DEF ContentAssumption
  <2> QED  BY <2>2, <2>5, <2>6, ParsedBeginning
<1> QED  BY <1>1, PipelineAlways, PTL
=============================================================================
