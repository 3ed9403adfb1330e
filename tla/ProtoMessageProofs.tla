------------------------- MODULE ProtoMessageProofs -------------------------
(***************************************************************************)
(* Proofs about ProtoMessage, for any message classes whose methods go     *)
(* through all their fields (Complete), any number of objects and          *)
(* operations, and any records of later versions.                          *)
(***************************************************************************)
EXTENDS ProtoMessage, SequenceTheorems, WellFoundedInduction, TLAPS

-----------------------------------------------------------------------------
(* Natural numbers.                                                        *)

\* A set of natural numbers has a least element.
LEMMA LeastElement ==
    ASSUME NEW S, S \subseteq Nat, S # {}
    PROVE  \E x \in S : \A y \in S : x <= y
<1> DEFINE R == OpToRel(<, Nat)
<1>1. IsWellFoundedOn(R, Nat)  BY NatLessThanWellFounded
<1>2. \A x, y \in Nat : y < x => <<y, x>> \in R  BY DEF OpToRel
<1> HIDE DEF R
<1>3. PICK x \in S : \A y \in S : ~(<<y, x>> \in R)  BY <1>1, WFMin
<1>4. ASSUME NEW y \in S  PROVE x <= y
  <2>1. x \in Nat /\ y \in Nat /\ ~(y < x)  BY <1>2, <1>3
  <2> QED  BY <2>1
<1> QED  BY <1>4

\* Induction, for a property that is given as a set.
LEMMA Induction ==
    ASSUME NEW S, 0 \in S, \A n \in Nat : n \in S => n + 1 \in S
    PROVE  \A n \in Nat : n \in S
<1> DEFINE T == {n \in Nat : n \notin S}
<1> SUFFICES ASSUME T # {} PROVE FALSE
  OBVIOUS
<1>1. PICK n \in T : \A y \in T : n <= y  BY LeastElement
<1>2. n \in Nat /\ n # 0 /\ n \notin S /\ n - 1 \in Nat  OBVIOUS
<1>3. n - 1 \in S
  <2>1. ~(n <= n - 1)  BY <1>2
  <2> QED  BY <1>1, <1>2, <2>1
<1>4. (n - 1) + 1 = n  BY <1>2
<1> QED  BY <1>2, <1>3, <1>4

-----------------------------------------------------------------------------
(* Sums.                                                                   *)

\* The sums of f up to n.
HasTotals(f, n) ==
    \E t : t = [k \in 0 .. n |-> IF k = 0 THEN 0 ELSE t[k - 1] + f[k]]

\* One more sum.
LEMMA NextTotals ==
    ASSUME NEW f, NEW n \in Nat, HasTotals(f, n)
    PROVE  HasTotals(f, n + 1)
<1>1. PICK t : t = [k \in 0 .. n |-> IF k = 0 THEN 0 ELSE t[k - 1] + f[k]]
  BY DEF HasTotals
<1> DEFINE g == [k \in 0 .. n + 1 |-> IF k = n + 1 THEN t[n] + f[n + 1] ELSE t[k]]
<1>2. ASSUME NEW k \in 0 .. n + 1
      PROVE  g[k] = IF k = 0 THEN 0 ELSE g[k - 1] + f[k]
  <2>1. CASE k = 0
    BY <1>1, <2>1
  <2>2. CASE k = n + 1
    BY <2>2
  <2>3. CASE k # 0 /\ k # n + 1
    <3>1. t[k] = t[k - 1] + f[k]  BY <1>1, <2>3
    <3>2. g[k] = t[k] /\ g[k - 1] = t[k - 1]  BY <2>3
    <3> QED  BY <2>3, <3>1, <3>2
  <2> QED  BY <2>1, <2>2, <2>3
<1>3. g = [k \in 0 .. n + 1 |-> IF k = 0 THEN 0 ELSE g[k - 1] + f[k]]
  <2> HIDE DEF g
  <2> QED  BY <1>2 DEF g
<1> QED  BY <1>3 DEF HasTotals

\* Totals is what its definition says.
LEMMA TotalsEquation ==
    ASSUME NEW f, NEW n \in Nat
    PROVE  /\ Totals(f, n)[0] = 0
           /\ \A k \in 0 .. n - 1 :
                Totals(f, n)[k + 1] = Totals(f, n)[k] + f[k + 1]
<1>0. HasTotals(f, 0)
  <2> DEFINE t == [k \in 0 .. 0 |-> 0]
  <2>1. t = [k \in 0 .. 0 |-> IF k = 0 THEN 0 ELSE t[k - 1] + f[k]]  OBVIOUS
  <2> QED  BY <2>1 DEF HasTotals
<1>1. HasTotals(f, n)
  <2> DEFINE S == {k \in Nat : HasTotals(f, k)}
  <2>1. 0 \in S /\ \A k \in Nat : k \in S => k + 1 \in S
    BY <1>0, NextTotals
  <2> HIDE DEF S
  <2>2. \A k \in Nat : k \in S  BY <2>1, Induction
  <2> QED  BY <2>2 DEF S
<1> DEFINE T == Totals(f, n)
<1>2. T = [k \in 0 .. n |-> IF k = 0 THEN 0 ELSE T[k - 1] + f[k]]
  BY <1>1 DEF HasTotals, Totals
<1> HIDE DEF T
<1>3. T[0] = 0  BY <1>2
<1>4. ASSUME NEW k \in 0 .. n - 1  PROVE T[k + 1] = T[k] + f[k + 1]
  <2>1. k + 1 \in 0 .. n /\ k + 1 # 0 /\ (k + 1) - 1 = k  OBVIOUS
  <2> QED  BY <1>2, <2>1
<1> QED  BY <1>3, <1>4 DEF T

\* Sums of natural numbers are natural numbers, and grow.
LEMMA TotalsGrow ==
    ASSUME NEW n \in Nat, NEW f, \A k \in 1 .. n : f[k] \in Nat
    PROVE  /\ \A k \in 0 .. n : Totals(f, n)[k] \in Nat
           /\ \A j, k \in 0 .. n : j <= k => Totals(f, n)[j] <= Totals(f, n)[k]
<1> DEFINE T == Totals(f, n)
<1>0. T[0] = 0 /\ \A k \in 0 .. n - 1 : T[k + 1] = T[k] + f[k + 1]
  BY TotalsEquation
<1> HIDE DEF T
<1> DEFINE S == {k \in Nat : k <= n => \A j \in 0 .. k : /\ T[j] \in Nat
                                                         /\ T[j] <= T[k]}
<1>1. 0 \in S
  <2>1. \A j \in 0 .. 0 : j = 0  OBVIOUS
  <2> QED  BY <1>0, <2>1
<1>2. ASSUME NEW k \in Nat, k \in S  PROVE k + 1 \in S
  <2> SUFFICES ASSUME k + 1 <= n, NEW j \in 0 .. k + 1
               PROVE  T[j] \in Nat /\ T[j] <= T[k + 1]
    OBVIOUS
  <2>1. k <= n /\ k \in 0 .. n - 1 /\ k + 1 \in 1 .. n  OBVIOUS
  <2>2. \A i \in 0 .. k : T[i] \in Nat /\ T[i] <= T[k]  BY <1>2, <2>1
  <2>3. f[k + 1] \in Nat /\ T[k + 1] = T[k] + f[k + 1]  BY <1>0, <2>1
  <2>4. T[k] \in Nat /\ T[k + 1] \in Nat /\ T[k] <= T[k + 1]  BY <2>2, <2>3
  <2>5. CASE j = k + 1  BY <2>4, <2>5
  <2>6. CASE j \in 0 .. k
    <3> DEFINE a == T[j]
    <3> DEFINE b == T[k]
    <3> DEFINE d == T[k + 1]
    <3>1. a \in Nat /\ a <= b /\ b \in Nat /\ b <= d /\ d \in Nat
      BY <2>2, <2>4, <2>6
    <3> QED  BY <3>1
  <2> QED  BY <2>5, <2>6
<1> HIDE DEF S
<1>3. \A k \in Nat : k \in S  BY <1>1, <1>2, Induction
<1>4. \A k \in 0 .. n : \A j \in 0 .. k : T[j] \in Nat /\ T[j] <= T[k]
  BY <1>3 DEF S
<1> QED  BY <1>4 DEF T

\* The sum of a stretch of f is the sum of any function that agrees there.
LEMMA TotalsShift ==
    ASSUME NEW n \in Nat, NEW f, \A k \in 1 .. n : f[k] \in Nat,
           NEW m \in Nat, NEW g, NEW a \in Nat, NEW b \in Nat,
           a + b <= n, b <= m, \A k \in 1 .. b : f[a + k] = g[k]
    PROVE  Totals(f, n)[a + b] = Totals(f, n)[a] + Totals(g, m)[b]
<1> DEFINE T == Totals(f, n)
<1> DEFINE U == Totals(g, m)
<1>0. T[0] = 0 /\ \A k \in 0 .. n - 1 : T[k + 1] = T[k] + f[k + 1]
  BY TotalsEquation
<1>1. U[0] = 0 /\ \A k \in 0 .. m - 1 : U[k + 1] = U[k] + g[k + 1]
  BY TotalsEquation
<1>2. \A k \in 0 .. n : T[k] \in Nat  BY TotalsGrow
<1> HIDE DEF T, U
<1> DEFINE S == {k \in Nat : k <= b => T[a + k] = T[a] + U[k] /\ U[k] \in Nat}
<1>3. 0 \in S
  <2>1. a + 0 = a /\ a \in 0 .. n  OBVIOUS
  <2> QED  BY <1>1, <1>2, <2>1
<1>4. ASSUME NEW k \in Nat, k \in S  PROVE k + 1 \in S
  <2> SUFFICES ASSUME k + 1 <= b
               PROVE  T[a + (k + 1)] = T[a] + U[k + 1] /\ U[k + 1] \in Nat
    OBVIOUS
  <2>1. /\ k <= b /\ a + k \in 0 .. n - 1 /\ k \in 0 .. m - 1
        /\ (a + k) + 1 = a + (k + 1) /\ k + 1 \in 1 .. b /\ a + (k + 1) \in 1 .. n
        /\ a \in 0 .. n
    OBVIOUS
  <2>2. T[a + k] = T[a] + U[k] /\ U[k] \in Nat /\ T[a] \in Nat  BY <1>2, <1>4, <2>1
  <2>3. T[a + (k + 1)] = T[a + k] + f[a + (k + 1)]  BY <1>0, <2>1
  <2>4. U[k + 1] = U[k] + g[k + 1]  BY <1>1, <2>1
  <2>5. f[a + (k + 1)] = g[k + 1] /\ g[k + 1] \in Nat  BY <2>1
  <2> QED  BY <2>2, <2>3, <2>4, <2>5
<1> HIDE DEF S
<1>5. b \in S  BY <1>3, <1>4, Induction
<1> QED  BY <1>5 DEF S, T, U

\* A sum depends on what it adds up only.
LEMMA TotalsAgree ==
    ASSUME NEW n \in Nat, NEW f, \A k \in 1 .. n : f[k] \in Nat,
           NEW m \in Nat, NEW g, \A k \in 1 .. m : g[k] \in Nat,
           NEW b \in Nat, b <= n, b <= m, \A k \in 1 .. b : f[k] = g[k]
    PROVE  Totals(f, n)[b] = Totals(g, m)[b]
<1>1. PICK z \in Nat : z = 0  OBVIOUS
<1>2. z + b <= n /\ z + b = b /\ \A k \in 1 .. b : z + k = k  BY <1>1
<1>3. \A k \in 1 .. b : f[z + k] = g[k]  BY <1>2
<1>4. Totals(f, n)[z + b] = Totals(f, n)[z] + Totals(g, m)[b]
  BY <1>2, <1>3, TotalsShift
<1>5. Totals(g, m)[b] \in Nat
  <2>1. b \in 0 .. m  OBVIOUS
  <2> QED  BY <2>1, TotalsGrow
<1>6. Totals(f, n)[z] = 0  BY <1>1, TotalsEquation
<1> QED  BY <1>2, <1>4, <1>5, <1>6

\* Functions that add up pointwise have sums that add up.
LEMMA TotalsAdd ==
    ASSUME NEW n \in Nat, NEW f, NEW g, NEW h,
           \A k \in 1 .. n : f[k] \in Nat /\ g[k] \in Nat /\ h[k] = f[k] + g[k]
    PROVE  Totals(h, n)[n] = Totals(f, n)[n] + Totals(g, n)[n]
<1> DEFINE T == Totals(f, n)
<1> DEFINE U == Totals(g, n)
<1> DEFINE V == Totals(h, n)
<1>0. /\ T[0] = 0 /\ U[0] = 0 /\ V[0] = 0
      /\ \A k \in 0 .. n - 1 : /\ T[k + 1] = T[k] + f[k + 1]
                               /\ U[k + 1] = U[k] + g[k + 1]
                               /\ V[k + 1] = V[k] + h[k + 1]
  BY TotalsEquation
<1>1. \A k \in 0 .. n : T[k] \in Nat /\ U[k] \in Nat  BY TotalsGrow
<1> HIDE DEF T, U, V
<1> DEFINE S == {k \in Nat : k <= n => V[k] = T[k] + U[k]}
<1>2. 0 \in S  BY <1>0
<1>3. ASSUME NEW k \in Nat, k \in S  PROVE k + 1 \in S
  <2> SUFFICES ASSUME k + 1 <= n  PROVE V[k + 1] = T[k + 1] + U[k + 1]
    OBVIOUS
  <2>1. k <= n /\ k \in 0 .. n - 1 /\ k \in 0 .. n /\ k + 1 \in 1 .. n  OBVIOUS
  <2>2. V[k] = T[k] + U[k] /\ T[k] \in Nat /\ U[k] \in Nat  BY <1>1, <1>3, <2>1
  <2>3. /\ T[k + 1] = T[k] + f[k + 1]
        /\ U[k + 1] = U[k] + g[k + 1]
        /\ V[k + 1] = V[k] + h[k + 1]
    BY <1>0, <2>1
  <2>4. f[k + 1] \in Nat /\ g[k + 1] \in Nat /\ h[k + 1] = f[k + 1] + g[k + 1]
    BY <2>1
  <2> QED  BY <2>2, <2>3, <2>4
<1> HIDE DEF S
<1>4. n \in S  BY <1>2, <1>3, Induction
<1> QED  BY <1>4 DEF S, T, U, V

-----------------------------------------------------------------------------
(* Recursive definitions.                                                  *)

\* The records of the fields in S up to number n.
HasWritten(c, m, S, n) ==
    \E f : f = [i \in 0 .. n |-> IF i = 0 THEN <<>>
                                 ELSE IF i \in S THEN Append(f[i - 1], Record(c, m, i))
                                 ELSE f[i - 1]]

\* One more field.
LEMMA NextWritten ==
    ASSUME NEW c, NEW m, NEW S, NEW n \in Nat, HasWritten(c, m, S, n)
    PROVE  HasWritten(c, m, S, n + 1)
<1> DEFINE Rest(f, i) == IF i \in S THEN Append(f[i - 1], Record(c, m, i)) ELSE f[i - 1]
<1>1. PICK f : f = [i \in 0 .. n |-> IF i = 0 THEN <<>> ELSE Rest(f, i)]
  BY DEF HasWritten
<1> DEFINE g == [i \in 0 .. n + 1 |-> IF i = n + 1 THEN Rest(f, n + 1) ELSE f[i]]
<1>2. ASSUME NEW i \in 0 .. n + 1
      PROVE  g[i] = IF i = 0 THEN <<>> ELSE Rest(g, i)
  <2>1. i # 0 => g[i - 1] = f[i - 1]  OBVIOUS
  <2>2. i # 0 => Rest(g, i) = Rest(f, i)  BY <2>1
  <2> HIDE DEF Rest
  <2>3. CASE i = 0
    BY <1>1, <2>3
  <2>4. CASE i = n + 1
    BY <2>2, <2>4
  <2>5. CASE i # 0 /\ i # n + 1
    <3>1. f[i] = Rest(f, i)  BY <1>1, <2>5
    <3>2. g[i] = f[i]  BY <2>5
    <3> QED  BY <2>2, <2>5, <3>1, <3>2
  <2> QED  BY <2>3, <2>4, <2>5
<1>3. g = [i \in 0 .. n + 1 |-> IF i = 0 THEN <<>> ELSE Rest(g, i)]
  <2> HIDE DEF g
  <2>1. \A i \in 0 .. n + 1 : g[i] = IF i = 0 THEN <<>> ELSE Rest(g, i)  BY <1>2
  <2>2. g = [i \in 0 .. n + 1 |-> g[i]]  BY DEF g
  <2> HIDE DEF Rest
  <2> QED  BY <2>1, <2>2
<1> HIDE DEF g
<1> QED  BY <1>3 DEF HasWritten

\* FieldRecords is what its definition says: the last of a chain of sequences.
LEMMA FieldRecordsEquation ==
    ASSUME NEW c, NEW m, NEW S, NEW n \in Nat, n = Len(FieldsOf[c])
    PROVE  \E f : /\ f[0] = <<>>
                  /\ \A i \in 0 .. n - 1 :
                       f[i + 1] = IF i + 1 \in S THEN Append(f[i], Record(c, m, i + 1))
                                                 ELSE f[i]
                  /\ FieldRecords(c, m, S) = f[n]
<1>0. HasWritten(c, m, S, 0)
  <2> DEFINE f == [i \in 0 .. 0 |-> <<>>]
  <2>1. f = [i \in 0 .. 0 |-> IF i = 0 THEN <<>>
                              ELSE IF i \in S THEN Append(f[i - 1], Record(c, m, i))
                              ELSE f[i - 1]]
    OBVIOUS
  <2> QED  BY <2>1 DEF HasWritten
<1>1. HasWritten(c, m, S, n)
  <2> DEFINE T == {k \in Nat : HasWritten(c, m, S, k)}
  <2>1. 0 \in T /\ \A k \in Nat : k \in T => k + 1 \in T
    BY <1>0, NextWritten
  <2> HIDE DEF T
  <2>2. \A k \in Nat : k \in T  BY <2>1, Induction
  <2> QED  BY <2>2 DEF T
<1> DEFINE Chain(f) == f = [i \in 0 .. n |->
                             IF i = 0 THEN <<>>
                             ELSE IF i \in S THEN Append(f[i - 1], Record(c, m, i))
                             ELSE f[i - 1]]
<1> DEFINE F == CHOOSE f : Chain(f)
<1>2. Chain(F)
  <2>1. \E f : Chain(f)  BY <1>1 DEF HasWritten
  <2> HIDE DEF Chain
  <2> QED  BY <2>1
<1>3. FieldRecords(c, m, S) = F[n]  BY DEF FieldRecords
<1> HIDE DEF F
<1>4. F[0] = <<>>  BY <1>2
<1>5. ASSUME NEW i \in 0 .. n - 1
      PROVE  F[i + 1] = IF i + 1 \in S THEN Append(F[i], Record(c, m, i + 1)) ELSE F[i]
  <2>1. i + 1 \in 0 .. n /\ i + 1 # 0 /\ (i + 1) - 1 = i  OBVIOUS
  <2>2. F[i + 1] = IF i + 1 \in S THEN Append(F[(i + 1) - 1], Record(c, m, i + 1))
                                  ELSE F[(i + 1) - 1]
    BY <1>2, <2>1
  <2> QED  BY <2>1, <2>2
<1> QED  BY <1>3, <1>4, <1>5

\* Reading w up to its record n.
HasRead(c, m, w, n) ==
    \E f : f = [k \in 0 .. n |-> IF k = 0 THEN m ELSE ReadRecord(c, f[k - 1], w[k])]

\* One more record.
LEMMA NextRead ==
    ASSUME NEW c, NEW m, NEW w, NEW n \in Nat, HasRead(c, m, w, n)
    PROVE  HasRead(c, m, w, n + 1)
<1> DEFINE Rest(f, k) == ReadRecord(c, f[k - 1], w[k])
<1>1. PICK f : f = [k \in 0 .. n |-> IF k = 0 THEN m ELSE Rest(f, k)]
  BY DEF HasRead
<1> DEFINE g == [k \in 0 .. n + 1 |-> IF k = n + 1 THEN Rest(f, n + 1) ELSE f[k]]
<1>2. ASSUME NEW k \in 0 .. n + 1
      PROVE  g[k] = IF k = 0 THEN m ELSE Rest(g, k)
  <2>1. k # 0 => g[k - 1] = f[k - 1]  OBVIOUS
  <2>2. k # 0 => Rest(g, k) = Rest(f, k)  BY <2>1
  <2> HIDE DEF Rest
  <2>3. CASE k = 0
    BY <1>1, <2>3
  <2>4. CASE k = n + 1
    BY <2>2, <2>4
  <2>5. CASE k # 0 /\ k # n + 1
    <3>1. f[k] = Rest(f, k)  BY <1>1, <2>5
    <3>2. g[k] = f[k]  BY <2>5
    <3> QED  BY <2>2, <2>5, <3>1, <3>2
  <2> QED  BY <2>3, <2>4, <2>5
<1>3. g = [k \in 0 .. n + 1 |-> IF k = 0 THEN m ELSE Rest(g, k)]
  <2> HIDE DEF g
  <2>1. \A k \in 0 .. n + 1 : g[k] = IF k = 0 THEN m ELSE Rest(g, k)  BY <1>2
  <2>2. g = [k \in 0 .. n + 1 |-> g[k]]  BY DEF g
  <2> HIDE DEF Rest
  <2> QED  BY <2>1, <2>2
<1> HIDE DEF g
<1> QED  BY <1>3 DEF HasRead

\* The objects f that reading w goes through.
ReadChain(c, m, w, n, f) ==
    /\ f[0] = m
    /\ \A k \in 0 .. n - 1 : f[k + 1] = ReadRecord(c, f[k], w[k + 1])
    /\ ReadRecords(c, m, w) = f[n]

\* ReadRecords is what its definition says: the last of a chain of objects.
LEMMA ReadRecordsEquation ==
    ASSUME NEW c, NEW m, NEW w, NEW n \in Nat, n = Len(w)
    PROVE  \E f : ReadChain(c, m, w, n, f)
<1>0. HasRead(c, m, w, 0)
  <2> DEFINE f == [k \in 0 .. 0 |-> m]
  <2>1. f = [k \in 0 .. 0 |-> IF k = 0 THEN m ELSE ReadRecord(c, f[k - 1], w[k])]
    OBVIOUS
  <2> QED  BY <2>1 DEF HasRead
<1>1. HasRead(c, m, w, n)
  <2> DEFINE T == {k \in Nat : HasRead(c, m, w, k)}
  <2>1. 0 \in T /\ \A k \in Nat : k \in T => k + 1 \in T
    BY <1>0, NextRead
  <2> HIDE DEF T
  <2>2. \A k \in Nat : k \in T  BY <2>1, Induction
  <2> QED  BY <2>2 DEF T
<1> DEFINE Chain(f) == f = [k \in 0 .. n |->
                             IF k = 0 THEN m ELSE ReadRecord(c, f[k - 1], w[k])]
<1> DEFINE F == CHOOSE f : Chain(f)
<1>2. Chain(F)
  <2>1. \E f : Chain(f)  BY <1>1 DEF HasRead
  <2> HIDE DEF Chain
  <2> QED  BY <2>1
<1>3. ReadRecords(c, m, w) = F[n]  BY DEF ReadRecords
<1> HIDE DEF F
<1>4. F[0] = m  BY <1>2
<1>5. ASSUME NEW k \in 0 .. n - 1  PROVE F[k + 1] = ReadRecord(c, F[k], w[k + 1])
  <2>1. k + 1 \in 0 .. n /\ k + 1 # 0 /\ (k + 1) - 1 = k  OBVIOUS
  <2>2. F[k + 1] = ReadRecord(c, F[(k + 1) - 1], w[k + 1])
    BY <1>2, <2>1
  <2> QED  BY <2>1, <2>2
<1> QED  BY <1>3, <1>4, <1>5 DEF ReadChain

-----------------------------------------------------------------------------
(* Sizes.                                                                  *)

\* The records of R hold values of their kind.
Values(R) == \A r \in R : IsValue(r.kind, r.v)

\* A varint has a number of bytes.
LEMMA VarintSizeType ==
    ASSUME NEW v \in Int
    PROVE  VarintSize(v) \in Nat
BY DEF VarintSize

\* A record has bytes.
LEMMA RecordSizePositive ==
    ASSUME NEW r, IsValue(r.kind, r.v)
    PROVE  RecordSize(r) \in Nat \ {0}
<1>1. \A v \in Int : VarintSize(v) \in Nat  BY VarintSizeType
<1>2. CASE r.kind = "bytes"
  <2>1. Len(r.v) \in Nat  BY <1>2, LenProperties DEF IsValue
  <2> DEFINE n == Len(r.v)
  <2>2. n \in Nat  BY <2>1
  <2>3. RecordSize(r) = 1 + (VarintSize(n) + n)
    BY <1>2 DEF RecordSize, ValueSize
  <2> HIDE DEF n
  <2>4. VarintSize(n) \in Nat  BY <1>1, <2>2
  <2> QED  BY <2>2, <2>3, <2>4
<1>3. CASE r.kind = "float"
  BY <1>3 DEF RecordSize, ValueSize
<1>4. CASE r.kind # "bytes" /\ r.kind # "float"
  <2>1. r.v \in Int  BY <1>4 DEF IsValue
  <2>2. RecordSize(r) = 1 + VarintSize(r.v)
    BY <1>4 DEF RecordSize, ValueSize
  <2> QED  BY <1>1, <2>1, <2>2
<1> QED  BY <1>2, <1>3, <1>4

\* The sizes of the beginnings of w.
LEMMA SizesProperties ==
    ASSUME NEW R, Values(R), NEW w \in Seq(R), NEW n \in Nat, n = Len(w)
    PROVE  /\ SizesOf(w)[0] = 0
           /\ WireSize(w) = SizesOf(w)[n]
           /\ \A k \in 1 .. n : w[k] \in R /\ RecordSize(w[k]) \in Nat \ {0}
           /\ \A k \in 0 .. n - 1 :
                SizesOf(w)[k + 1] = SizesOf(w)[k] + RecordSize(w[k + 1])
           /\ \A k \in 0 .. n : SizesOf(w)[k] \in Nat
           /\ \A j, k \in 0 .. n : j <= k => SizesOf(w)[j] <= SizesOf(w)[k]
<1> DEFINE f == [k \in 1 .. n |-> RecordSize(w[k])]
<1>1. SizesOf(w) = Totals(f, n)  BY DEF SizesOf
<1>2. \A k \in 1 .. n : w[k] \in R  BY ElementOfSeq
<1>3. \A k \in 1 .. n : RecordSize(w[k]) \in Nat \ {0}
  BY <1>2, RecordSizePositive DEF Values
<1>4. \A k \in 1 .. n : f[k] = RecordSize(w[k]) /\ f[k] \in Nat  BY <1>3
<1> HIDE DEF f
<1>5. /\ \A k \in 0 .. n : Totals(f, n)[k] \in Nat
      /\ \A j, k \in 0 .. n : j <= k => Totals(f, n)[j] <= Totals(f, n)[k]
  BY <1>4, TotalsGrow
<1>6. /\ Totals(f, n)[0] = 0
      /\ \A k \in 0 .. n - 1 : Totals(f, n)[k + 1] = Totals(f, n)[k] + f[k + 1]
  BY TotalsEquation
<1>7. \A k \in 0 .. n - 1 : k + 1 \in 1 .. n  OBVIOUS
<1>8. \A k \in 0 .. n - 1 :
        SizesOf(w)[k + 1] = SizesOf(w)[k] + RecordSize(w[k + 1])
  BY <1>1, <1>4, <1>6, <1>7
<1> QED  BY <1>1, <1>2, <1>3, <1>5, <1>6, <1>8 DEF WireSize

\* One more record of w.
LEMMA SizesStep ==
    ASSUME NEW w, NEW n \in Nat, n = Len(w), NEW k \in 0 .. n - 1
    PROVE  SizesOf(w)[k + 1] = SizesOf(w)[k] + RecordSize(w[k + 1])
<1> DEFINE f == [j \in 1 .. n |-> RecordSize(w[j])]
<1>1. SizesOf(w) = Totals(f, n)  BY DEF SizesOf
<1>2. k + 1 \in 1 .. n  OBVIOUS
<1>3. f[k + 1] = RecordSize(w[k + 1])  BY <1>2
<1> HIDE DEF f
<1>4. Totals(f, n)[k + 1] = Totals(f, n)[k] + f[k + 1]  BY TotalsEquation
<1> QED  BY <1>1, <1>3, <1>4

\* What is written one after the other takes the bytes of both.
LEMMA WireSizeConcat ==
    ASSUME NEW R, Values(R), NEW s \in Seq(R), NEW t \in Seq(R)
    PROVE  /\ WireSize(s \o t) = WireSize(s) + WireSize(t)
           /\ WireSize(s) \in Nat /\ WireSize(t) \in Nat
<1> DEFINE a == Len(s)
<1> DEFINE b == Len(t)
<1> DEFINE n == a + b
<1> DEFINE w == s \o t
<1> DEFINE f == [k \in 1 .. n |-> RecordSize(w[k])]
<1> DEFINE g == [k \in 1 .. a |-> RecordSize(s[k])]
<1> DEFINE h == [k \in 1 .. b |-> RecordSize(t[k])]
<1>1. a \in Nat /\ b \in Nat /\ n \in Nat  BY LenProperties
<1>2. w \in Seq(R) /\ Len(w) = n  BY ConcatProperties
<1>3. \A k \in 1 .. n : w[k] = IF k <= a THEN s[k] ELSE t[k - a]
  BY ConcatProperties
<1>4. /\ \A k \in 1 .. n : w[k] \in R /\ RecordSize(w[k]) \in Nat
      /\ WireSize(w) = Totals(f, n)[n]
  BY <1>1, <1>2, SizesProperties DEF WireSize, SizesOf
<1>5. /\ WireSize(s) = Totals(g, a)[a] /\ WireSize(s) \in Nat
      /\ \A k \in 1 .. a : RecordSize(s[k]) \in Nat
  <2>1. SizesOf(s) = Totals(g, a)  BY DEF SizesOf
  <2>2. a \in 0 .. a  BY <1>1
  <2> QED  BY <1>1, <2>1, <2>2, SizesProperties
<1>6. /\ WireSize(t) = Totals(h, b)[b] /\ WireSize(t) \in Nat
      /\ \A k \in 1 .. b : RecordSize(t[k]) \in Nat
  <2>1. SizesOf(t) = Totals(h, b)  BY DEF SizesOf
  <2>2. b \in 0 .. b  BY <1>1
  <2> QED  BY <1>1, <2>1, <2>2, SizesProperties
<1> HIDE DEF a, b, w
<1>7. \A k \in 1 .. a : f[k] = g[k]
  <2> TAKE k \in 1 .. a
  <2>1. k \in 1 .. n /\ k <= a  BY <1>1
  <2>2. w[k] = s[k]  BY <1>3, <2>1
  <2> QED  BY <2>1, <2>2
<1>8. \A k \in 1 .. b : f[a + k] = h[k]
  <2> TAKE k \in 1 .. b
  <2>1. a + k \in 1 .. n /\ ~(a + k <= a) /\ (a + k) - a = k  BY <1>1
  <2>2. w[a + k] = t[k]  BY <1>3, <2>1
  <2> QED  BY <2>1, <2>2
<1>9. \A k \in 1 .. n : f[k] \in Nat  BY <1>4
<1> HIDE DEF f, g, h
<1> HIDE DEF n
<1>10. n = a + b /\ a + b <= n /\ a <= n /\ a <= a /\ b <= b
  BY <1>1 DEF n
<1>11. Totals(f, n)[a] = Totals(g, a)[a]
  <2>1. \A k \in 1 .. a : g[k] \in Nat  BY <1>5 DEF g
  <2> QED  BY <2>1, <1>1, <1>7, <1>9, <1>10, TotalsAgree
<1>12. Totals(f, n)[a + b] = Totals(f, n)[a] + Totals(h, b)[b]
  BY <1>1, <1>8, <1>9, <1>10, TotalsShift
<1>13. Totals(f, n)[n] = Totals(g, a)[a] + Totals(h, b)[b]
  BY <1>10, <1>11, <1>12
<1> QED  BY <1>4, <1>5, <1>6, <1>13 DEF w

\* One more record.
LEMMA WireSizeAppend ==
    ASSUME NEW R, Values(R), NEW s \in Seq(R), NEW r \in R
    PROVE  WireSize(Append(s, r)) = WireSize(s) + RecordSize(r)
<1> DEFINE t == <<r>>
<1>1. t \in Seq(R) /\ Len(t) = 1 /\ t[1] = r  OBVIOUS
<1>2. Append(s, r) = s \o t  BY AppendProperties
<1> HIDE DEF t
<1>3. WireSize(s \o t) = WireSize(s) + WireSize(t)  BY <1>1, WireSizeConcat
<1>4. WireSize(t) = SizesOf(t)[1] /\ SizesOf(t)[0] = 0
      /\ SizesOf(t)[0 + 1] = SizesOf(t)[0] + RecordSize(t[0 + 1])
      /\ RecordSize(t[1]) \in Nat
  <2> DEFINE n == 1
  <2>1. n \in Nat /\ n = Len(t) /\ 0 \in 0 .. n - 1 /\ 1 \in 1 .. n  BY <1>1
  <2> HIDE DEF n
  <2>2. /\ WireSize(t) = SizesOf(t)[n] /\ SizesOf(t)[0] = 0
        /\ SizesOf(t)[0 + 1] = SizesOf(t)[0] + RecordSize(t[0 + 1])
        /\ RecordSize(t[1]) \in Nat
    BY <1>1, <2>1, SizesProperties
  <2> QED  BY <2>2 DEF n
<1>5. 0 + 1 = 1  OBVIOUS
<1>6. WireSize(t) = RecordSize(r)  BY <1>1, <1>4, <1>5
<1> QED  BY <1>2, <1>3, <1>6

\* Nothing takes no bytes.
LEMMA WireSizeEmpty == WireSize(<<>>) = 0
<1> DEFINE f == [k \in 1 .. Len(<<>>) |-> RecordSize(<<>>[k])]
<1>1. WireSize(<<>>) = Totals(f, Len(<<>>))[Len(<<>>)]  BY DEF WireSize, SizesOf
<1>2. Len(<<>>) = 0  OBVIOUS
<1> HIDE DEF f
<1>3. WireSize(<<>>) = Totals(f, 0)[0]  BY <1>1, <1>2
<1> QED  BY <1>3, TotalsEquation

\* The records of the fields in S: the record of each, once, and of no other,
\* and they take the bytes that FieldsSize counts.
LEMMA FieldRecordsProperties ==
    ASSUME NEW c, NEW m, NEW n \in Nat, n = Len(FieldsOf[c]),
           NEW S \in SUBSET (1 .. n), NEW R, Values(R),
           \A i \in S : Record(c, m, i) \in R
    PROVE  /\ FieldRecords(c, m, S) \in Seq(R)
           /\ \A k \in 1 .. Len(FieldRecords(c, m, S)) :
                \E i \in S : FieldRecords(c, m, S)[k] = Record(c, m, i)
           /\ \A i \in S : \E k \in 1 .. Len(FieldRecords(c, m, S)) :
                FieldRecords(c, m, S)[k] = Record(c, m, i)
           /\ WireSize(FieldRecords(c, m, S)) = FieldsSize(c, m, S)
<1>1. PICK W : /\ W[0] = <<>>
               /\ \A i \in 0 .. n - 1 :
                    W[i + 1] = IF i + 1 \in S THEN Append(W[i], Record(c, m, i + 1))
                                              ELSE W[i]
               /\ FieldRecords(c, m, S) = W[n]
  BY FieldRecordsEquation
<1> DEFINE f == [i \in 1 .. n |-> IF i \in S THEN FieldSize(c, m, i) ELSE 0]
<1> DEFINE T == Totals(f, n)
<1>2. /\ T[0] = 0
      /\ \A k \in 0 .. n - 1 : T[k + 1] = T[k] + f[k + 1]
  BY TotalsEquation
<1>3. FieldsSize(c, m, S) = T[n]  BY DEF FieldsSize, Number
<1>4. \A i \in 1 .. n : f[i] = IF i \in S THEN RecordSize(Record(c, m, i)) ELSE 0
  BY DEF FieldSize
<1> HIDE DEF f, T
<1> DEFINE Good(j) ==
      /\ W[j] \in Seq(R)
      /\ \A k \in 1 .. Len(W[j]) :
           \E i \in S : W[j][k] = Record(c, m, i)
      /\ \A i \in S : i <= j =>
           \E k \in 1 .. Len(W[j]) : W[j][k] = Record(c, m, i)
      /\ WireSize(W[j]) = T[j] /\ T[j] \in Nat
<1> DEFINE J == {j \in Nat : j <= n => Good(j)}
<1>5. 0 \in J
  <2>1. W[0] \in Seq(R) /\ Len(W[0]) = 0  BY <1>1
  <2>2. WireSize(W[0]) = T[0] /\ T[0] \in Nat  BY <1>1, <1>2, WireSizeEmpty
  <2>3. \A i \in S : ~(i <= 0)  OBVIOUS
  <2>4. \A k \in 1 .. Len(W[0]) : FALSE  BY <2>1
  <2>5. Good(0)  BY <2>1, <2>2, <2>3, <2>4
  <2> HIDE DEF Good
  <2> QED  BY <2>5
<1>6. ASSUME NEW j \in Nat, j \in J  PROVE j + 1 \in J
  <2> SUFFICES ASSUME j + 1 <= n  PROVE Good(j + 1)
    <3> HIDE DEF Good
    <3> QED  OBVIOUS
  <2>1. j <= n /\ j \in 0 .. n - 1 /\ j + 1 \in 1 .. n  OBVIOUS
  <2>2. Good(j)
    <3> HIDE DEF Good
    <3> QED  BY <1>6, <2>1
  <2>3. T[j + 1] = T[j] + f[j + 1]  BY <1>2, <2>1
  <2>4. CASE j + 1 \notin S
    <3>1. W[j + 1] = W[j]  BY <1>1, <2>1, <2>4
    <3>2. T[j + 1] = T[j]
      <4>1. f[j + 1] = 0 /\ T[j] \in Nat  BY <1>4, <2>1, <2>2, <2>4
      <4> QED  BY <2>3, <4>1
    <3>3. \A i \in S : i <= j + 1 => i <= j  BY <2>4
    <3>4. Good(j + 1)
      <4>1. /\ W[j + 1] \in Seq(R)
            /\ WireSize(W[j + 1]) = T[j + 1] /\ T[j + 1] \in Nat
        BY <2>2, <3>1, <3>2
      <4>2. \A k \in 1 .. Len(W[j + 1]) :
              \E i \in S : W[j + 1][k] = Record(c, m, i)
        BY <2>2, <3>1
      <4>3. \A i \in S : i <= j + 1 =>
              \E k \in 1 .. Len(W[j + 1]) : W[j + 1][k] = Record(c, m, i)
        BY <2>2, <3>1, <3>3
      <4> QED  BY <4>1, <4>2, <4>3
    <3> QED  BY <3>4
  <2>5. CASE j + 1 \in S
    <3> DEFINE r == Record(c, m, j + 1)
    <3> DEFINE u == W[j]
    <3> DEFINE v == W[j + 1]
    <3> DEFINE l == Len(u)
    <3>1. v = Append(u, r) /\ r \in R /\ u \in Seq(R)  BY <1>1, <2>1, <2>2, <2>5
    <3>2. /\ v \in Seq(R) /\ Len(v) = l + 1 /\ l \in Nat
          /\ \A k \in 1 .. l : v[k] = u[k]
          /\ v[l + 1] = r
      <4> HIDE DEF r, u, v
      <4> QED  BY <3>1, AppendProperties, LenProperties
    <3>3. WireSize(v) = T[j + 1] /\ T[j + 1] \in Nat
      <4>1. WireSize(v) = WireSize(u) + RecordSize(r)  BY <3>1, WireSizeAppend
      <4>2. RecordSize(r) \in Nat  BY <3>1, RecordSizePositive DEF Values
      <4>3. f[j + 1] = RecordSize(r)  BY <1>4, <2>1, <2>5
      <4>4. WireSize(u) = T[j] /\ T[j] \in Nat  BY <2>2
      <4> HIDE DEF r, u, v
      <4> QED  BY <2>3, <4>1, <4>2, <4>3, <4>4
    <3>4. \A k \in 1 .. l : \E i \in S : u[k] = Record(c, m, i)  BY <2>2
    <3>5. \A i \in S : i <= j => \E k \in 1 .. l : u[k] = Record(c, m, i)  BY <2>2
    <3> HIDE DEF u, v, l
    <3>6. \A k \in 1 .. l + 1 : \E i \in S : v[k] = Record(c, m, i)
      <4> TAKE k \in 1 .. l + 1
      <4>1. CASE k = l + 1
        <5>1. v[k] = Record(c, m, j + 1)  BY <3>2, <4>1
        <5> QED  BY <2>5, <5>1
      <4>2. CASE k \in 1 .. l  BY <3>2, <3>4, <4>2
      <4>3. k = l + 1 \/ k \in 1 .. l
        <5>1. l \in Nat  BY <3>2
        <5> QED  BY <5>1
      <4> QED  BY <4>1, <4>2, <4>3
    <3>7. ASSUME NEW i \in S, i <= j + 1
          PROVE  \E k \in 1 .. l + 1 : v[k] = Record(c, m, i)
      <4>1. CASE i = j + 1
        <5>1. l + 1 \in 1 .. l + 1  BY <3>2
        <5> QED  BY <3>2, <4>1, <5>1
      <4>2. CASE i <= j
        <5>1. PICK k \in 1 .. l : u[k] = Record(c, m, i)  BY <3>5, <4>2
        <5>2. k \in 1 .. l + 1 /\ v[k] = u[k]  BY <3>2
        <5> QED  BY <5>1, <5>2
      <4>3. i \in Int  OBVIOUS
      <4> QED  BY <3>7, <4>1, <4>2, <4>3
    <3>8. Len(v) = l + 1  BY <3>2
    <3> QED  BY <3>2, <3>3, <3>6, <3>7, <3>8 DEF v
  <2> QED  BY <2>4, <2>5
<1> HIDE DEF J, Good
<1>7. n \in J  BY <1>5, <1>6, Induction
<1>8. Good(n)  BY <1>7 DEF J
<1>9. \A i \in S : i <= n  OBVIOUS
<1> QED  BY <1>1, <1>3, <1>8, <1>9 DEF Good

\* The bytes of two sets of fields are the bytes of all of them.
LEMMA FieldsSizeAdd ==
    ASSUME NEW c, NEW m, NEW n \in Nat, n = Len(FieldsOf[c]),
           NEW A \in SUBSET (1 .. n), NEW B \in SUBSET (1 .. n), A \cap B = {},
           \A i \in A \cup B : FieldSize(c, m, i) \in Nat
    PROVE  FieldsSize(c, m, A \cup B) = FieldsSize(c, m, A) + FieldsSize(c, m, B)
<1> DEFINE f == [i \in 1 .. n |-> IF i \in A THEN FieldSize(c, m, i) ELSE 0]
<1> DEFINE g == [i \in 1 .. n |-> IF i \in B THEN FieldSize(c, m, i) ELSE 0]
<1> DEFINE h == [i \in 1 .. n |-> IF i \in A \cup B THEN FieldSize(c, m, i) ELSE 0]
<1>1. /\ FieldsSize(c, m, A) = Totals(f, n)[n]
      /\ FieldsSize(c, m, B) = Totals(g, n)[n]
      /\ FieldsSize(c, m, A \cup B) = Totals(h, n)[n]
  BY DEF FieldsSize, Number
<1>2. ASSUME NEW i \in 1 .. n
      PROVE  f[i] \in Nat /\ g[i] \in Nat /\ h[i] = f[i] + g[i]
  <2>1. CASE i \in A  BY <2>1
  <2>2. CASE i \in B  BY <2>2
  <2>3. CASE i \notin A \cup B  BY <2>3
  <2> QED  BY <2>1, <2>2, <2>3
<1> HIDE DEF f, g, h
<1> QED  BY <1>1, <1>2, TotalsAdd

-----------------------------------------------------------------------------
(* Objects.                                                                *)

\* The records of later versions that c keeps as unknown fields.
Strange(c) == {r \in Foreign : ~Understood(c, r)}

\* An object of class c, none of whose methods forgets a field: every field
\* holds one of its values, the default if it has no has-bit, and what is
\* unknown is so.
WellFormed(c, m) ==
    /\ Complete(c)
    /\ m = [has |-> m.has, val |-> m.val, unknown |-> m.unknown]
    /\ m.has \subseteq Number(c)
    /\ m.val = [i \in Number(c) |-> m.val[i]]
    /\ \A i \in Number(c) :
         /\ Holds(c, i, m.val[i])
         /\ i \notin m.has => m.val[i] = FieldsOf[c][i].default
    /\ m.unknown \in Seq(Strange(c))

\* All objects of f are of class c.
AllWellFormed(c, f) ==
    /\ f = [o \in Object |-> f[o]]
    /\ \A o \in Object : WellFormed(c, f[o])

\* The objects of the program are of its class.
IInv ==
    /\ cls \in Class /\ Complete(cls)
    /\ ops \in 0 .. MaxOps[cls]
    /\ AllWellFormed(cls, obj)

\* What the assumptions say of a class and of its fields.
LEMMA ClassFacts ==
    ASSUME NEW c \in Class
    PROVE  /\ Len(FieldsOf[c]) \in Nat /\ MaxOps[c] \in Nat
           /\ Number(c) = 1 .. Len(FieldsOf[c])
           /\ \A i \in Number(c) :
                /\ Holds(c, i, FieldsOf[c][i].default)
                /\ IsBytes(c, i) => FieldsOf[c][i].default = <<>>
                /\ \A v \in SetValue[c][i] : Holds(c, i, v)
           /\ \A b \in Built[c] :
                /\ DOMAIN b \subseteq Number(c)
                /\ \A i \in DOMAIN b : Holds(c, i, b[i])
BY ClassAssumption DEF Number

\* A new object is well-formed.
LEMMA FreshWellFormed ==
    ASSUME NEW c \in Class, Complete(c)
    PROVE  WellFormed(c, Fresh(c))
<1>0. PICK m : m = Fresh(c)  OBVIOUS
<1>1. /\ m.has = {} /\ m.unknown = <<>>
      /\ m.val = [i \in Number(c) |-> FieldsOf[c][i].default]
      /\ m = [has |-> m.has, val |-> m.val, unknown |-> m.unknown]
  BY <1>0 DEF Fresh
<1>2. \A i \in Number(c) : m.val[i] = FieldsOf[c][i].default  BY <1>1
<1>3. \A i \in Number(c) : Holds(c, i, m.val[i])  BY <1>2, ClassFacts
<1>4. m.val = [i \in Number(c) |-> m.val[i]]  BY <1>1
<1>5. m.unknown \in Seq(Strange(c))  BY <1>1
<1>6. WellFormed(c, m)  BY <1>1, <1>2, <1>3, <1>4, <1>5 DEF WellFormed
<1> QED  BY <1>0, <1>6

\* So is one with a field set to one of its values.
LEMMA SetFieldWellFormed ==
    ASSUME NEW c \in Class, NEW m, WellFormed(c, m), NEW i \in Number(c), NEW v,
           Holds(c, i, v)
    PROVE  WellFormed(c, SetField(m, i, v))
<1>0. PICK r : r = SetField(m, i, v)  OBVIOUS
<1>1. /\ m = [has |-> m.has, val |-> m.val, unknown |-> m.unknown]
      /\ m.has \subseteq Number(c)
      /\ m.val = [j \in Number(c) |-> m.val[j]]
      /\ \A j \in Number(c) :
           /\ Holds(c, j, m.val[j])
           /\ j \notin m.has => m.val[j] = FieldsOf[c][j].default
      /\ m.unknown \in Seq(Strange(c))
  BY DEF WellFormed
<1>2. /\ r.has = m.has \cup {i} /\ r.unknown = m.unknown
      /\ r.val = [m.val EXCEPT ![i] = v]
      /\ r = [has |-> r.has, val |-> r.val, unknown |-> r.unknown]
  BY <1>0, <1>1 DEF SetField
<1>3. \A j \in Number(c) : r.val[j] = IF j = i THEN v ELSE m.val[j]  BY <1>1, <1>2
<1>4. r.val = [j \in Number(c) |-> r.val[j]]  BY <1>1, <1>2
<1>5. r.has \subseteq Number(c)  BY <1>1, <1>2
<1>6. \A j \in Number(c) :
        /\ Holds(c, j, r.val[j])
        /\ j \notin r.has => r.val[j] = FieldsOf[c][j].default
  BY <1>1, <1>2, <1>3
<1>7. WellFormed(c, r)  BY <1>1, <1>2, <1>4, <1>5, <1>6 DEF WellFormed
<1> QED  BY <1>0, <1>7

\* So is one with a field cleared.
LEMMA ClearFieldWellFormed ==
    ASSUME NEW c \in Class, NEW m, WellFormed(c, m), NEW i \in Number(c)
    PROVE  WellFormed(c, ClearField(c, m, i))
<1>0. PICK r : r = ClearField(c, m, i)  OBVIOUS
<1>1. /\ m = [has |-> m.has, val |-> m.val, unknown |-> m.unknown]
      /\ m.has \subseteq Number(c)
      /\ m.val = [j \in Number(c) |-> m.val[j]]
      /\ \A j \in Number(c) :
           /\ Holds(c, j, m.val[j])
           /\ j \notin m.has => m.val[j] = FieldsOf[c][j].default
      /\ m.unknown \in Seq(Strange(c))
  BY DEF WellFormed
<1>2. /\ r.has = m.has \ {i} /\ r.unknown = m.unknown
      /\ r.val = [m.val EXCEPT ![i] = FieldsOf[c][i].default]
      /\ r = [has |-> r.has, val |-> r.val, unknown |-> r.unknown]
  BY <1>0, <1>1 DEF ClearField
<1>3. \A j \in Number(c) :
        r.val[j] = IF j = i THEN FieldsOf[c][i].default ELSE m.val[j]
  BY <1>1, <1>2
<1>4. r.val = [j \in Number(c) |-> r.val[j]]  BY <1>1, <1>2
<1>5. r.has \subseteq Number(c)  BY <1>1, <1>2
<1>6. \A j \in Number(c) :
        /\ Holds(c, j, r.val[j])
        /\ j \notin r.has => r.val[j] = FieldsOf[c][j].default
  BY <1>1, <1>2, <1>3, ClassFacts
<1>7. WellFormed(c, r)  BY <1>1, <1>2, <1>4, <1>5, <1>6 DEF WellFormed
<1> QED  BY <1>0, <1>7

\* Clear, which resets only what the has-bits point to, leaves a new object.
LEMMA ClearIsFresh ==
    ASSUME NEW c \in Class, NEW m, WellFormed(c, m)
    PROVE  Clear(c, m) = Fresh(c)
<1> DEFINE r == Clear(c, m)
<1>1. /\ r.has = {} /\ r.unknown = <<>>
      /\ r = [has |-> r.has, val |-> r.val, unknown |-> r.unknown]
  BY DEF Clear
<1>2. r.val = [i \in Number(c) |-> FieldsOf[c][i].default]
  <2> DEFINE clears == CodeOf[c].clears
  <2> DEFINE reset == clears.always \cup (clears.present \cap m.has)
                      \cup (IF clears.together \cap m.has = {} THEN {}
                            ELSE clears.together)
  <2>1. r.val = [i \in Number(c) |->
                   IF i \in reset THEN FieldsOf[c][i].default ELSE m.val[i]]
    BY DEF Clear
  <2>2. ASSUME NEW i \in Number(c), i \notin reset
        PROVE  m.val[i] = FieldsOf[c][i].default
    <3>1. i \in clears.present \/ i \in clears.together \/ i \in clears.always
      BY DEF WellFormed, Complete
    <3> HIDE DEF clears
    <3>2. i \notin m.has
      <4>1. CASE i \in clears.present  BY <2>2, <4>1
      <4>2. CASE i \in clears.together  BY <2>2, <4>2
      <4>3. CASE i \in clears.always  BY <2>2, <4>3
      <4> QED  BY <3>1, <4>1, <4>2, <4>3
    <3> QED  BY <3>2 DEF WellFormed
  <2> HIDE DEF reset, r
  <2> QED  BY <2>1, <2>2
<1> HIDE DEF r
<1>3. r = Fresh(c)  BY <1>1, <1>2 DEF Fresh
<1> QED  BY <1>3 DEF r

\* An object merged from another is well-formed.
LEMMA MergeFromWellFormed ==
    ASSUME NEW c \in Class, NEW m, WellFormed(c, m), NEW from, WellFormed(c, from)
    PROVE  WellFormed(c, MergeFrom(c, m, from))
<1>0. PICK r : r = MergeFrom(c, m, from)  OBVIOUS
<1>1. /\ r.has = m.has \cup from.has
      /\ r.unknown = m.unknown \o from.unknown
      /\ r.val = [i \in Number(c) |->
                    IF i \in from.has THEN from.val[i] ELSE m.val[i]]
      /\ r = [has |-> r.has, val |-> r.val, unknown |-> r.unknown]
  <2>1. PICK S : S = from.has \cap CodeOf[c].merges /\ S = from.has
    BY DEF WellFormed, Complete
  <2> QED  BY <1>0, <2>1 DEF MergeFrom
<1>2. r.unknown \in Seq(Strange(c))
  <2>1. m.unknown \in Seq(Strange(c)) /\ from.unknown \in Seq(Strange(c))
    BY DEF WellFormed
  <2> QED  BY <1>1, <2>1, ConcatProperties
<1>3. r.has \subseteq Number(c)  BY <1>1 DEF WellFormed
<1>4. r.val = [i \in Number(c) |-> r.val[i]]  BY <1>1
<1>5. \A i \in Number(c) :
        /\ Holds(c, i, r.val[i])
        /\ i \notin r.has => r.val[i] = FieldsOf[c][i].default
  BY <1>1 DEF WellFormed
<1>6. WellFormed(c, r)  BY <1>1, <1>2, <1>3, <1>4, <1>5 DEF WellFormed
<1> QED  BY <1>0, <1>6

\* A message built with the setters is well-formed.
LEMMA BuiltWellFormed ==
    ASSUME NEW c \in Class, Complete(c), NEW b \in Built[c]
    PROVE  WellFormed(c, BuiltFrom(c, b))
<1>0. PICK m : m = BuiltFrom(c, b)  OBVIOUS
<1>1. /\ m.has = DOMAIN b /\ m.unknown = <<>>
      /\ m.val = [i \in Number(c) |->
                    IF i \in DOMAIN b THEN b[i] ELSE FieldsOf[c][i].default]
      /\ m = [has |-> m.has, val |-> m.val, unknown |-> m.unknown]
  BY <1>0 DEF BuiltFrom
<1>2. m.has \subseteq Number(c)  BY <1>1, ClassFacts
<1>3. m.val = [i \in Number(c) |-> m.val[i]]  BY <1>1
<1>4. \A i \in Number(c) :
        /\ Holds(c, i, m.val[i])
        /\ i \notin m.has => m.val[i] = FieldsOf[c][i].default
  BY <1>1, ClassFacts
<1>5. m.unknown \in Seq(Strange(c))  BY <1>1
<1>6. WellFormed(c, m)  BY <1>1, <1>2, <1>3, <1>4, <1>5 DEF WellFormed
<1> QED  BY <1>0, <1>6

\* Merging into a new object copies.
LEMMA MergeIntoFresh ==
    ASSUME NEW c \in Class, NEW m, WellFormed(c, m)
    PROVE  MergeFrom(c, Fresh(c), m) = m
<1>0. PICK n, r : n = Fresh(c) /\ r = MergeFrom(c, n, m)  OBVIOUS
<1>1. /\ r.has = n.has \cup m.has
      /\ r.unknown = n.unknown \o m.unknown
      /\ r.val = [i \in Number(c) |-> IF i \in m.has THEN m.val[i] ELSE n.val[i]]
      /\ r = [has |-> r.has, val |-> r.val, unknown |-> r.unknown]
  <2>1. PICK S : S = m.has \cap CodeOf[c].merges /\ S = m.has
    BY DEF WellFormed, Complete
  <2> QED  BY <1>0, <2>1 DEF MergeFrom
<1>2. n.has = {} /\ n.unknown = <<>>
      /\ n.val = [i \in Number(c) |-> FieldsOf[c][i].default]
  BY <1>0 DEF Fresh
<1>3. /\ m = [has |-> m.has, val |-> m.val, unknown |-> m.unknown]
      /\ m.val = [i \in Number(c) |-> m.val[i]]
      /\ \A i \in Number(c) : i \notin m.has => m.val[i] = FieldsOf[c][i].default
      /\ m.unknown \in Seq(Strange(c))
  BY DEF WellFormed
<1>4. r.has = m.has  BY <1>1, <1>2
<1>5. r.unknown = m.unknown  BY <1>1, <1>2, <1>3, ConcatEmptySeq
<1>6. r.val = m.val
  <2>1. \A i \in Number(c) :
          (IF i \in m.has THEN m.val[i] ELSE n.val[i]) = m.val[i]
    BY <1>2, <1>3
  <2> QED  BY <1>1, <1>3, <2>1
<1>7. r = m  BY <1>1, <1>3, <1>4, <1>5, <1>6
<1> QED  BY <1>0, <1>7

\* The copy constructor, which copies scalars whatever their has-bits, and
\* strings by theirs, copies.
LEMMA CopyConstructCopies ==
    ASSUME NEW c \in Class, NEW m, WellFormed(c, m)
    PROVE  CopyConstruct(c, m) = m
<1>1. /\ m = [has |-> m.has, val |-> m.val, unknown |-> m.unknown]
      /\ m.val = [i \in Number(c) |-> m.val[i]]
      /\ \A i \in Number(c) : i \notin m.has => m.val[i] = FieldsOf[c][i].default
  BY DEF WellFormed
<1> DEFINE v == [i \in Number(c) |->
                   IF i \notin CodeOf[c].copies \/ (IsBytes(c, i) /\ i \notin m.has)
                   THEN FieldsOf[c][i].default ELSE m.val[i]]
<1>2. v = m.val
  <2>1. CodeOf[c].copies = Number(c)  BY DEF WellFormed, Complete
  <2>2. \A i \in Number(c) : v[i] = m.val[i]  BY <1>1, <2>1
  <2> QED  BY <1>1, <2>2
<1>3. CopyConstruct(c, m) = [m EXCEPT !.val = v]  BY DEF CopyConstruct
<1> HIDE DEF v
<1> QED  BY <1>1, <1>2, <1>3

\* InternalSwap gives an object all of what the other was.
LEMMA SwappedIsOther ==
    ASSUME NEW c \in Class, NEW m, NEW p, WellFormed(c, p)
    PROVE  Swapped(c, m, p) = p
<1>1. /\ p = [has |-> p.has, val |-> p.val, unknown |-> p.unknown]
      /\ p.val = [i \in Number(c) |-> p.val[i]]
      /\ CodeOf[c].swaps = Number(c)
  BY DEF WellFormed, Complete
<1> DEFINE v == [i \in Number(c) |->
                   IF i \in CodeOf[c].swaps THEN p.val[i] ELSE m.val[i]]
<1>2. v = p.val  BY <1>1
<1>3. Swapped(c, m, p) = [p EXCEPT !.val = v]  BY DEF Swapped
<1> HIDE DEF v
<1> QED  BY <1>1, <1>2, <1>3

-----------------------------------------------------------------------------
(* The serialiser.                                                         *)

\* The records of the fields of m.
Records(c, m) == {Record(c, m, i) : i \in m.has}

\* They hold values of their kind, and so do those of later versions.
LEMMA RecordsHoldValues ==
    ASSUME NEW c \in Class, NEW m, WellFormed(c, m)
    PROVE  Values(Records(c, m) \cup Foreign)
<1> SUFFICES ASSUME NEW r \in Records(c, m) \cup Foreign
             PROVE  IsValue(r.kind, r.v)
  BY DEF Values
<1>1. CASE r \in Foreign  BY <1>1, ForeignAssumption
<1>2. CASE r \in Records(c, m)
  <2>1. PICK i \in m.has : r = Record(c, m, i)  BY <1>2 DEF Records
  <2>2. r.kind = FieldsOf[c][i].kind /\ r.v = m.val[i]  BY <2>1 DEF Record
  <2>3. i \in Number(c) /\ Holds(c, i, m.val[i])  BY DEF WellFormed
  <2> QED  BY <2>2, <2>3 DEF Holds
<1> QED  BY <1>1, <1>2

\* The first F records of w are those of the fields of m that have a has-bit,
\* each there, and the other U those that are unknown to m.
Written(c, m, w, F, U) ==
    /\ U = Len(m.unknown) /\ Len(w) = F + U
    /\ \A k \in 1 .. F : \E i \in m.has : w[k] = Record(c, m, i)
    /\ \A i \in m.has : \E k \in 1 .. F : w[k] = Record(c, m, i)
    /\ \A k \in 1 .. U : w[F + k] = m.unknown[k]

\* What the serialiser writes: the record of each field that has a has-bit,
\* then the unknown ones.
LEMMA SerializeProperties ==
    ASSUME NEW c \in Class, NEW m, WellFormed(c, m),
           NEW w, w = SerializeWithCachedSizes(c, m)
    PROVE  /\ w \in Seq(Records(c, m) \cup Foreign)
           /\ WireSize(w) = FieldsSize(c, m, m.has) + WireSize(m.unknown)
           /\ WireSize(m.unknown) \in Nat
           /\ \E F \in Nat, U \in Nat : Written(c, m, w, F, U)
<1> DEFINE R == Records(c, m) \cup Foreign
<1> DEFINE n == Len(FieldsOf[c])
<1>1. n \in Nat /\ m.has \in SUBSET (1 .. n)
  BY ClassFacts DEF WellFormed
<1>2. Values(R)  BY RecordsHoldValues
<1>3. \A i \in m.has : Record(c, m, i) \in R  BY DEF Records
<1>4. PICK s : s = FieldRecords(c, m, m.has)  OBVIOUS
<1>5. PICK u : u = m.unknown  OBVIOUS
<1>6. u \in Seq(R)
  <2>1. u \in Seq(Strange(c)) /\ Strange(c) \subseteq R
    BY <1>5 DEF WellFormed, Strange
  <2> QED  BY <2>1, SeqMonotonic
<1> HIDE DEF n, R
<1>7. /\ s \in Seq(R)
      /\ \A k \in 1 .. Len(s) : \E i \in m.has : s[k] = Record(c, m, i)
      /\ \A i \in m.has : \E k \in 1 .. Len(s) : s[k] = Record(c, m, i)
      /\ WireSize(s) = FieldsSize(c, m, m.has)
  <2>1. n = Len(FieldsOf[c])  BY DEF n
  <2> QED  BY <1>1, <1>2, <1>3, <1>4, <2>1, FieldRecordsProperties
<1>8. w = s \o u
  <2>1. m.has \cap CodeOf[c].writes = m.has  BY DEF WellFormed, Complete
  <2> QED  BY <1>4, <1>5, <2>1 DEF SerializeWithCachedSizes
<1>9. PICK F \in Nat, U \in Nat : F = Len(s) /\ U = Len(u)
  BY <1>6, <1>7, LenProperties
<1>10. /\ w \in Seq(R) /\ Len(w) = F + U
       /\ \A k \in 1 .. F + U : w[k] = IF k <= F THEN s[k] ELSE u[k - F]
  BY <1>6, <1>7, <1>8, <1>9, ConcatProperties
<1>11. \A k \in 1 .. F : k \in 1 .. F + U /\ k <= F  OBVIOUS
<1>12. \A k \in 1 .. F : w[k] = s[k]  BY <1>10, <1>11
<1>13. \A k \in 1 .. U : w[F + k] = u[k]
  <2> TAKE k \in 1 .. U
  <2>1. F + k \in 1 .. F + U /\ ~(F + k <= F) /\ (F + k) - F = k  OBVIOUS
  <2> QED  BY <1>10, <2>1
<1>14. /\ \A k \in 1 .. F : \E i \in m.has : w[k] = Record(c, m, i)
       /\ \A i \in m.has : \E k \in 1 .. F : w[k] = Record(c, m, i)
  BY <1>7, <1>9, <1>12
<1>15. WireSize(w) = WireSize(s) + WireSize(u) /\ WireSize(u) \in Nat
  BY <1>2, <1>6, <1>7, <1>8, WireSizeConcat
<1>16. Written(c, m, w, F, U)  BY <1>5, <1>9, <1>10, <1>13, <1>14 DEF Written
<1> QED  BY <1>5, <1>7, <1>10, <1>15, <1>16 DEF R

\* ByteSizeLong, in one way or the other, gives the bytes that are written.
LEMMA ByteSizeIsWireSize ==
    ASSUME NEW c \in Class, NEW m, WellFormed(c, m)
    PROVE  ByteSizeLong(c, m) = WireSize(SerializeWithCachedSizes(c, m))
<1> DEFINE Q == CodeOf[c].sizes.together
<1> DEFINE E == CodeOf[c].sizes.each
<1> DEFINE A == Q \cap m.has
<1> DEFINE B == E \cap m.has
<1> DEFINE X == FieldsSize(c, m, A)
<1> DEFINE Y == FieldsSize(c, m, B)
<1> DEFINE Z == WireSize(m.unknown)
<1>0. /\ CodeOf[c].sizes.fallback = Q
      /\ Q \cup E = Number(c) /\ Q \cap E = {}
  BY DEF WellFormed, Complete
<1>1. ByteSizeLong(c, m) = (Z + X) + Y
  <2>1. CASE Q \subseteq m.has
    <3>1. Q = A  BY <2>1
    <3>2. ByteSizeLong(c, m) = (Z + FieldsSize(c, m, Q)) + Y
      BY <2>1 DEF ByteSizeLong
    <3> QED  BY <3>1, <3>2
  <2>2. CASE ~(Q \subseteq m.has)
    BY <1>0, <2>2 DEF ByteSizeLong, RequiredFieldsByteSizeFallback
  <2> QED  BY <2>1, <2>2
<1>2. m.has \subseteq Number(c)  BY DEF WellFormed
<1>3. \A i \in m.has : FieldSize(c, m, i) \in Nat
  <2> TAKE i \in m.has
  <2>1. Record(c, m, i) \in Records(c, m) \cup Foreign  BY DEF Records
  <2>2. RecordSize(Record(c, m, i)) \in Nat
    BY <2>1, RecordsHoldValues, RecordSizePositive DEF Values
  <2> QED  BY <2>2 DEF FieldSize
<1>4. PICK n \in Nat : n = Len(FieldsOf[c]) /\ Number(c) = 1 .. n
  BY ClassFacts
<1>5. A \in SUBSET (1 .. n) /\ B \in SUBSET (1 .. n) /\ A \cap B = {}
      /\ A \cup B = m.has
  <2> HIDE DEF Q, E
  <2> QED  BY <1>0, <1>2, <1>4
<1>6. FieldsSize(c, m, m.has) = X + Y
  <2> HIDE DEF A, B
  <2>1. \A i \in A \cup B : FieldSize(c, m, i) \in Nat  BY <1>3, <1>5
  <2>2. FieldsSize(c, m, A \cup B) = X + Y
    BY <1>4, <1>5, <2>1, FieldsSizeAdd
  <2> QED  BY <1>5, <2>2
<1>7. WireSize(SerializeWithCachedSizes(c, m)) = FieldsSize(c, m, m.has) + Z
      /\ Z \in Nat
  BY SerializeProperties
<1>8. X \in Nat /\ Y \in Nat
  <2>1. ASSUME NEW S \in SUBSET m.has  PROVE FieldsSize(c, m, S) \in Nat
    <3> DEFINE f == [i \in 1 .. n |-> IF i \in S THEN FieldSize(c, m, i) ELSE 0]
    <3>1. FieldsSize(c, m, S) = Totals(f, n)[n]  BY <1>4 DEF FieldsSize
    <3>2. \A i \in 1 .. n : f[i] \in Nat  BY <1>3
    <3> HIDE DEF f
    <3>3. n \in 0 .. n  OBVIOUS
    <3> QED  BY <3>1, <3>2, <3>3, TotalsGrow
  <2>2. A \in SUBSET m.has /\ B \in SUBSET m.has  OBVIOUS
  <2> QED  BY <2>1, <2>2
<1> HIDE DEF X, Y, Z
<1> QED  BY <1>1, <1>6, <1>7, <1>8

-----------------------------------------------------------------------------
(* The first k bytes.                                                      *)

\* A cut gives whole records and at most a part of the next one: a byte of it
\* at least, and not all.  All bytes are all records.
LEMMA CutProperties ==
    ASSUME NEW R, Values(R), NEW w \in Seq(R), NEW n \in Nat, n = Len(w),
           NEW k \in 0 .. WireSize(w)
    PROVE  \E j \in 0 .. n :
             /\ Cut(w, k).records = SubSeq(w, 1, j)
             /\ \/ Cut(w, k).partial = <<>>
                \/ /\ j < n
                   /\ \E g \in 1 .. RecordSize(w[j + 1]) - 1 :
                        Cut(w, k).partial = <<[r |-> w[j + 1], got |-> g]>>
             /\ k = WireSize(w) => j = n /\ Cut(w, k).partial = <<>>
<1>1. PICK S : S = SizesOf(w)  OBVIOUS
<1>2. /\ S[0] = 0 /\ WireSize(w) = S[n]
      /\ \A j \in 1 .. n : RecordSize(w[j]) \in Nat \ {0}
      /\ \A j \in 0 .. n - 1 : S[j + 1] = S[j] + RecordSize(w[j + 1])
      /\ \A j \in 0 .. n : S[j] \in Nat
      /\ \A i, j \in 0 .. n : i <= j => S[i] <= S[j]
  <2>1. SizesOf(w)[0] = 0 /\ WireSize(w) = SizesOf(w)[n]
    BY SizesProperties
  <2>2. \A j \in 1 .. n : RecordSize(w[j]) \in Nat \ {0}
    BY SizesProperties
  <2>3. \A j \in 0 .. n - 1 :
          SizesOf(w)[j + 1] = SizesOf(w)[j] + RecordSize(w[j + 1])
    BY SizesStep
  <2>4. \A j \in 0 .. n : SizesOf(w)[j] \in Nat
    BY SizesProperties
  <2>5. \A i, j \in 0 .. n : i <= j => SizesOf(w)[i] <= SizesOf(w)[j]
    BY SizesProperties
  <2> QED  BY <1>1, <2>1, <2>2, <2>3, <2>4, <2>5
<1>3. k \in Nat /\ k <= S[n] /\ S[n] \in Nat
  <2>1. S[n] \in Nat  BY <1>2
  <2> QED  BY <1>2, <2>1
<1> DEFINE Split(j) == S[j] <= k /\ (j = n \/ S[j + 1] > k)
<1>4. \E j \in 0 .. n : Split(j)
  <2> DEFINE T == {j \in 0 .. n : j = n \/ S[j + 1] > k}
  <2>1. T \subseteq Nat /\ n \in T  OBVIOUS
  <2>2. PICK j \in T : \A i \in T : j <= i  BY <2>1, LeastElement
  <2>3. j \in 0 .. n /\ (j = n \/ S[j + 1] > k)  OBVIOUS
  <2>4. S[j] <= k
    <3>1. CASE j = 0  BY <1>2, <1>3, <3>1
    <3>2. CASE j # 0
      <4>1. j - 1 \in 0 .. n /\ j - 1 # n /\ ~(j <= j - 1) /\ (j - 1) + 1 = j
        BY <2>3, <3>2
      <4>2. j - 1 \notin T  BY <2>2, <4>1
      <4>3. ~(S[(j - 1) + 1] > k)  BY <4>1, <4>2
      <4>4. S[j] \in Nat  BY <1>2, <2>3
      <4> QED  BY <1>3, <4>1, <4>3, <4>4
    <3> QED  BY <3>1, <3>2
  <2> QED  BY <2>3, <2>4
<1> DEFINE SplitOf(j) == SizesOf(w)[j] <= k /\ (j = Len(w) \/ SizesOf(w)[j + 1] > k)
<1> DEFINE l == CHOOSE j \in 0 .. Len(w) : SplitOf(j)
<1> DEFINE rest == k - S[l]
<1>5. l \in 0 .. n /\ Split(l)
  <2>1. \E j \in 0 .. Len(w) : SplitOf(j)  BY <1>1, <1>4
  <2> HIDE DEF SplitOf
  <2>2. l \in 0 .. Len(w) /\ SplitOf(l)  BY <2>1
  <2> HIDE DEF l
  <2> QED  BY <1>1, <2>2 DEF SplitOf
<1>6. /\ Cut(w, k).records = SubSeq(w, 1, l)
      /\ Cut(w, k).partial = IF rest = 0 THEN <<>>
                             ELSE <<[r |-> w[l + 1], got |-> rest]>>
  <2> DEFINE left == k - SizesOf(w)[l]
  <2>1. /\ Cut(w, k).records = SubSeq(w, 1, l)
        /\ Cut(w, k).partial = IF left = 0 THEN <<>>
                               ELSE <<[r |-> w[l + 1], got |-> left]>>
    BY DEF Cut
  <2>2. left = rest  BY <1>1
  <2> HIDE DEF left, rest, l
  <2> QED  BY <2>1, <2>2
<1> HIDE DEF l
<1>7. S[l] \in Nat /\ S[l] <= k  BY <1>2, <1>5
<1>8. CASE rest = 0
  <2>1. Cut(w, k).partial = <<>>  BY <1>6, <1>8
  <2>2. k = WireSize(w) => l = n
    <3> SUFFICES ASSUME k = S[n], l # n  PROVE FALSE
      BY <1>2
    <3>1. l + 1 \in 0 .. n /\ n \in 0 .. n /\ l + 1 <= n  BY <1>5
    <3>2. S[l + 1] <= S[n] /\ S[l + 1] \in Nat  BY <1>2, <3>1
    <3>3. S[l + 1] > k  BY <1>5
    <3> QED  BY <1>3, <3>2, <3>3
  <2> QED  BY <1>5, <1>6, <2>1, <2>2
<1>9. CASE rest # 0
  <2>1. l # n
    <3> SUFFICES ASSUME l = n  PROVE FALSE
      OBVIOUS
    <3> QED  BY <1>3, <1>7, <1>9
  <2>2. l \in 0 .. n - 1 /\ l + 1 \in 1 .. n /\ l < n /\ l + 1 \in 0 .. n
    BY <1>5, <2>1
  <2>3. /\ S[l + 1] > k /\ S[l + 1] \in Nat
        /\ S[l + 1] = S[l] + RecordSize(w[l + 1]) /\ RecordSize(w[l + 1]) \in Nat
    BY <1>2, <1>5, <2>1, <2>2
  <2>4. rest \in 1 .. RecordSize(w[l + 1]) - 1
    BY <1>3, <1>7, <1>9, <2>3
  <2>5. k # S[n]
    <3>1. n \in 0 .. n /\ l + 1 <= n  BY <2>2
    <3>2. S[l + 1] <= S[n]  BY <1>2, <2>2, <3>1
    <3> QED  BY <1>3, <2>3, <3>2
  <2> HIDE DEF rest
  <2>6. Cut(w, k).partial = <<[r |-> w[l + 1], got |-> rest]>>  BY <1>6, <1>9
  <2>7. \E g \in 1 .. RecordSize(w[l + 1]) - 1 :
          Cut(w, k).partial = <<[r |-> w[l + 1], got |-> g]>>
    BY <2>4, <2>6
  <2> QED  BY <1>2, <1>5, <1>6, <2>2, <2>5, <2>7
<1> QED  BY <1>8, <1>9

-----------------------------------------------------------------------------
(* The parser.                                                             *)

\* The parser has a case for every field, with the tag of its type.
LEMMA KnownIsField ==
    ASSUME NEW c, Complete(c), NEW r
    PROVE  Known(c, r) <=> /\ r.n \in Number(c)
                           /\ WireType(FieldsOf[c][r.n].kind) = WireType(r.kind)
<1>1. CodeOf[c].parses = [i \in Number(c) |-> WireType(FieldsOf[c][i].kind)]
  BY DEF Complete
<1>2. PICK f : f = CodeOf[c].parses  OBVIOUS
<1>3. DOMAIN f = Number(c) /\ \A i \in Number(c) : f[i] = WireType(FieldsOf[c][i].kind)
  BY <1>1, <1>2
<1>4. Known(c, r) <=> r.n \in DOMAIN f /\ f[r.n] = WireType(r.kind)
  BY <1>2 DEF Known
<1> QED  BY <1>3, <1>4

\* The record of a field of o is understood, and is read as a set.
LEMMA RecordIsUnderstood ==
    ASSUME NEW c \in Class, NEW o, WellFormed(c, o), NEW i \in o.has,
           NEW r, r = Record(c, o, i)
    PROVE  /\ Understood(c, r) /\ i \in Number(c)
           /\ r.n = i /\ r.v = o.val[i] /\ r.kind = FieldsOf[c][i].kind
<1>1. r.n = i /\ r.v = o.val[i] /\ r.kind = FieldsOf[c][i].kind  BY DEF Record
<1>2. i \in Number(c) /\ Holds(c, i, o.val[i])  BY DEF WellFormed
<1>3. Known(c, r)  BY <1>1, <1>2, KnownIsField DEF WellFormed
<1>4. Understood(c, r)  BY <1>1, <1>2, <1>3 DEF Understood, Holds
<1> QED  BY <1>1, <1>2, <1>4

\* A record that is understood holds a value of the field it is for.
LEMMA UnderstoodHolds ==
    ASSUME NEW c, Complete(c), NEW r, Understood(c, r), IsValue(r.kind, r.v)
    PROVE  r.n \in Number(c) /\ Holds(c, r.n, r.v)
<1>1. /\ r.n \in Number(c)
      /\ WireType(FieldsOf[c][r.n].kind) = WireType(r.kind)
      /\ FieldsOf[c][r.n].kind = "enum" => r.v \in FieldsOf[c][r.n].valid
  BY KnownIsField DEF Understood
<1>2. FieldsOf[c][r.n].kind = "bytes" <=> r.kind = "bytes"  BY <1>1 DEF WireType
<1>3. IsValue(FieldsOf[c][r.n].kind, r.v)  BY <1>2 DEF IsValue
<1> QED  BY <1>1, <1>3 DEF Holds

\* Reading one record leaves an object well-formed.
LEMMA ReadRecordWellFormed ==
    ASSUME NEW c \in Class, NEW o, WellFormed(c, o), NEW m, WellFormed(c, m),
           NEW r \in Records(c, o) \cup Foreign
    PROVE  WellFormed(c, ReadRecord(c, m, r))
<1>0. IsValue(r.kind, r.v)  BY RecordsHoldValues DEF Values
<1>1. CASE Understood(c, r)
  <2>1. ReadRecord(c, m, r) = SetField(m, r.n, r.v)  BY <1>1 DEF ReadRecord
  <2>2. r.n \in Number(c) /\ Holds(c, r.n, r.v)
    BY <1>0, <1>1, UnderstoodHolds DEF WellFormed
  <2> QED  BY <2>1, <2>2, SetFieldWellFormed
<1>2. CASE ~Understood(c, r)
  <2>1. r \in Strange(c)
    <3>1. r \notin Records(c, o)
      <4> SUFFICES ASSUME NEW i \in o.has, r = Record(c, o, i)  PROVE FALSE
        BY DEF Records
      <4> QED  BY <1>2, RecordIsUnderstood
    <3> QED  BY <1>2, <3>1 DEF Strange
  <2>2. PICK q : q = ReadRecord(c, m, r)  OBVIOUS
  <2>3. q = [m EXCEPT !.unknown = Append(m.unknown, r)]  BY <1>2, <2>2 DEF ReadRecord
  <2>4. /\ m = [has |-> m.has, val |-> m.val, unknown |-> m.unknown]
        /\ m.has \subseteq Number(c)
        /\ m.val = [j \in Number(c) |-> m.val[j]]
        /\ \A j \in Number(c) :
             /\ Holds(c, j, m.val[j])
             /\ j \notin m.has => m.val[j] = FieldsOf[c][j].default
        /\ m.unknown \in Seq(Strange(c))
    BY DEF WellFormed
  <2>5. /\ q.has = m.has /\ q.val = m.val /\ q.unknown = Append(m.unknown, r)
        /\ q = [has |-> q.has, val |-> q.val, unknown |-> q.unknown]
    BY <2>3, <2>4
  <2>6. q.unknown \in Seq(Strange(c))  BY <2>1, <2>4, <2>5, AppendProperties
  <2>7. WellFormed(c, q)  BY <2>4, <2>5, <2>6 DEF WellFormed
  <2> QED  BY <2>2, <2>7
<1> QED  BY <1>1, <1>2

\* So does reading many.
LEMMA ReadRecordsWellFormed ==
    ASSUME NEW c \in Class, NEW o, WellFormed(c, o), NEW m, WellFormed(c, m),
           NEW w \in Seq(Records(c, o) \cup Foreign)
    PROVE  WellFormed(c, ReadRecords(c, m, w))
<1>1. PICK n \in Nat : n = Len(w)  BY LenProperties
<1>2. \A k \in 1 .. n : w[k] \in Records(c, o) \cup Foreign  BY <1>1, ElementOfSeq
<1>3. PICK f : ReadChain(c, m, w, n, f)  BY <1>1, ReadRecordsEquation
<1> DEFINE J == {k \in Nat : k <= n => WellFormed(c, f[k])}
<1>4. 0 \in J  BY <1>3 DEF ReadChain
<1>5. ASSUME NEW k \in Nat, k \in J  PROVE k + 1 \in J
  <2> SUFFICES ASSUME k + 1 <= n  PROVE WellFormed(c, f[k + 1])
    OBVIOUS
  <2>1. k <= n /\ k \in 0 .. n - 1 /\ k + 1 \in 1 .. n  OBVIOUS
  <2>2. WellFormed(c, f[k])  BY <1>5, <2>1
  <2>3. f[k + 1] = ReadRecord(c, f[k], w[k + 1])  BY <1>3, <2>1 DEF ReadChain
  <2>4. w[k + 1] \in Records(c, o) \cup Foreign  BY <1>2, <2>1
  <2> QED  BY <2>2, <2>3, <2>4, ReadRecordWellFormed
<1> HIDE DEF J
<1>6. n \in J  BY <1>4, <1>5, Induction
<1> QED  BY <1>3, <1>6 DEF J, ReadChain

\* What came of a string is a beginning of it, and not all.
LEMMA PartOfString ==
    ASSUME NEW c, NEW r, IsValue(r.kind, r.v), IsBytes(c, r.n),
           WireType(FieldsOf[c][r.n].kind) = WireType(r.kind),
           NEW g \in 1 .. RecordSize(r) - 1,
           NEW h, h = 1 + VarintSize(Len(r.v)), g >= h
    PROVE  /\ SubSeq(r.v, 1, g - h) \in Seq(Nat)
           /\ IsPrefix(SubSeq(r.v, 1, g - h), r.v)
<1>1. r.kind = "bytes"  BY DEF IsBytes, WireType
<1>2. r.v \in Seq(Nat)  BY <1>1 DEF IsValue
<1>3. PICK l \in Nat : l = Len(r.v)  BY <1>2, LenProperties
<1>4. VarintSize(l) \in Nat
  <2>1. l \in Int  OBVIOUS
  <2> QED  BY <2>1, VarintSizeType
<1>5. RecordSize(r) = 1 + (VarintSize(l) + l)
  BY <1>1, <1>3 DEF RecordSize, ValueSize
<1>6. h \in Nat /\ RecordSize(r) = h + l  BY <1>3, <1>4, <1>5
<1>7. PICK d \in Nat : d = g - h /\ d <= l
  <2>1. g - h \in Nat /\ g - h <= l  BY <1>6
  <2> QED  BY <2>1
<1>8. \A j \in 1 .. d : r.v[j] \in Nat
  <2> TAKE j \in 1 .. d
  <2>1. j \in 1 .. Len(r.v)  BY <1>3, <1>7
  <2> QED  BY <1>2, <2>1, ElementOfSeq
<1>9. PICK t : t = SubSeq(r.v, 1, d)  OBVIOUS
<1>10. t \in Seq(Nat) /\ Len(t) = IF 1 <= d THEN (d - 1) + 1 ELSE 0
  BY <1>8, <1>9, SubSeqProperties
<1>11. Len(t) = d  BY <1>10
<1>12. IsPrefix(t, r.v)
  <2>1. SubSeq(t, 1, d) = t  BY <1>10, <1>11, SubSeqFull
  <2> QED  BY <1>3, <1>7, <1>9, <1>11, <2>1 DEF IsPrefix
<1> QED  BY <1>7, <1>9, <1>10, <1>12

\* So does a record that is cut: a string keeps what came of it.
LEMMA ReadPartialWellFormed ==
    ASSUME NEW c \in Class, NEW o, WellFormed(c, o), NEW m, WellFormed(c, m),
           NEW r \in Records(c, o) \cup Foreign, NEW g \in 1 .. RecordSize(r) - 1,
           NEW p, p = [r |-> r, got |-> g]
    PROVE  WellFormed(c, ReadPartial(c, m, p))
<1>1. p.r = r /\ p.got = g  OBVIOUS
<1>2. IsValue(r.kind, r.v)  BY RecordsHoldValues DEF Values
<1> DEFINE i == r.n
<1> DEFINE header == 1 + VarintSize(Len(r.v))
<1>3. CASE ~Known(c, r) \/ FieldsOf[c][i].kind = "enum"
  <2>1. ~Known(c, p.r) \/ FieldsOf[c][p.r.n].kind = "enum"  BY <1>1, <1>3
  <2>2. ReadPartial(c, m, p) = m  BY <2>1 DEF ReadPartial
  <2> QED  BY <2>2
<1>4. CASE Known(c, r) /\ FieldsOf[c][i].kind # "enum"
  <2>1. Understood(c, r)  BY <1>4 DEF Understood
  <2>0. Complete(c)  BY DEF WellFormed
  <2>2. i \in Number(c) /\ Holds(c, i, r.v)  BY <1>2, <2>0, <2>1, UnderstoodHolds
  <2>3. CASE IsBytes(c, i) /\ g >= header
    <3>1. ReadPartial(c, m, p) = SetField(m, i, SubSeq(r.v, 1, g - header))
      BY <1>1, <1>4, <2>3 DEF ReadPartial
    <3>2. SubSeq(r.v, 1, g - header) \in Seq(Nat)
      BY <1>2, <1>4, <2>0, <2>3, KnownIsField, PartOfString
    <3>3. Holds(c, i, SubSeq(r.v, 1, g - header))
      BY <2>3, <3>2 DEF Holds, IsValue, IsBytes
    <3> QED  BY <2>2, <3>1, <3>3, SetFieldWellFormed
  <2>4. CASE ~(IsBytes(c, i) /\ g >= header)
    <3>1. PICK q : q = ReadPartial(c, m, p)  OBVIOUS
    <3>2. q = [m EXCEPT !.has = m.has \cup {i}]
      BY <1>1, <1>4, <2>4, <3>1 DEF ReadPartial
    <3>3. /\ m = [has |-> m.has, val |-> m.val, unknown |-> m.unknown]
          /\ m.has \subseteq Number(c)
          /\ m.val = [j \in Number(c) |-> m.val[j]]
          /\ \A j \in Number(c) :
               /\ Holds(c, j, m.val[j])
               /\ j \notin m.has => m.val[j] = FieldsOf[c][j].default
          /\ m.unknown \in Seq(Strange(c))
      BY DEF WellFormed
    <3>4. /\ q.has = m.has \cup {i} /\ q.val = m.val /\ q.unknown = m.unknown
          /\ q = [has |-> q.has, val |-> q.val, unknown |-> q.unknown]
      BY <3>2, <3>3
    <3>5. q.has \subseteq Number(c)  BY <2>2, <3>3, <3>4
    <3>6. WellFormed(c, q)  BY <3>3, <3>4, <3>5 DEF WellFormed
    <3> QED  BY <3>1, <3>6
  <2> QED  BY <2>3, <2>4
<1> QED  BY <1>3, <1>4

\* The fields of o whose record is among the first j of v.
Got(c, o, v, j) == {i \in o.has : \E k \in 1 .. j : v[k] = Record(c, o, i)}

\* Object q is m after reading v up to j: the fields that came are those of o.
Merged(c, o, m, v, j, q) ==
    /\ q = [has |-> q.has, val |-> q.val, unknown |-> q.unknown]
    /\ q.has = m.has \cup Got(c, o, v, j)
    /\ q.val = [i \in Number(c) |->
                  IF i \in Got(c, o, v, j) THEN o.val[i] ELSE m.val[i]]

\* The record of field i brings field i.
LEMMA MergedField ==
    ASSUME NEW c \in Class, NEW o, WellFormed(c, o), NEW m, NEW v, NEW j \in Nat,
           NEW q, Merged(c, o, m, v, j, q), NEW i \in o.has,
           v[j + 1] = Record(c, o, i), NEW s, s = ReadRecord(c, q, v[j + 1])
    PROVE  /\ Merged(c, o, m, v, j + 1, s)
           /\ s.unknown = q.unknown
<1>1. /\ Understood(c, v[j + 1]) /\ i \in Number(c)
      /\ v[j + 1].n = i /\ v[j + 1].v = o.val[i]
  BY RecordIsUnderstood
<1>2. s = [q EXCEPT !.has = q.has \cup {i}, !.val[i] = o.val[i]]
  BY <1>1 DEF ReadRecord, SetField
<1>3. /\ q = [has |-> q.has, val |-> q.val, unknown |-> q.unknown]
      /\ q.has = m.has \cup Got(c, o, v, j)
      /\ q.val = [l \in Number(c) |->
                    IF l \in Got(c, o, v, j) THEN o.val[l] ELSE m.val[l]]
  BY DEF Merged
<1>4. /\ s.has = q.has \cup {i} /\ s.unknown = q.unknown
      /\ s.val = [q.val EXCEPT ![i] = o.val[i]]
      /\ s = [has |-> s.has, val |-> s.val, unknown |-> s.unknown]
  BY <1>2, <1>3
<1>5. PICK A, B : A = Got(c, o, v, j) /\ B = Got(c, o, v, j + 1)  OBVIOUS
<1>6. B = A \cup {i}
  <2>1. ASSUME NEW l \in B  PROVE l \in A \cup {i}
    <3>1. PICK k \in 1 .. j + 1 : v[k] = Record(c, o, l)  BY <1>5 DEF Got
    <3>2. l \in o.has  BY <1>5 DEF Got
    <3>3. CASE k = j + 1
      <4>1. Record(c, o, l).n = l  BY DEF Record
      <4> QED  BY <1>1, <3>1, <3>3, <4>1
    <3>4. CASE k # j + 1
      <4>1. k \in 1 .. j  BY <3>4
      <4> QED  BY <1>5, <3>1, <3>2, <4>1 DEF Got
    <3> QED  BY <3>3, <3>4
  <2>2. ASSUME NEW l \in A  PROVE l \in B
    <3>1. PICK k \in 1 .. j : v[k] = Record(c, o, l)  BY <1>5 DEF Got
    <3>2. l \in o.has /\ k \in 1 .. j + 1  BY <1>5 DEF Got
    <3> QED  BY <1>5, <3>1, <3>2 DEF Got
  <2>3. i \in B
    <3>1. j + 1 \in 1 .. j + 1  OBVIOUS
    <3> QED  BY <1>5, <3>1 DEF Got
  <2> QED  BY <2>1, <2>2, <2>3
<1>7. s.has = m.has \cup B  BY <1>3, <1>4, <1>5, <1>6
<1>8. s.val = [l \in Number(c) |-> IF l \in B THEN o.val[l] ELSE m.val[l]]
  <2>1. q.val = [l \in Number(c) |-> IF l \in A THEN o.val[l] ELSE m.val[l]]
    BY <1>3, <1>5
  <2>2. s.val = [l \in Number(c) |-> IF l = i THEN o.val[i] ELSE q.val[l]]
    BY <1>4, <2>1
  <2> QED  BY <1>6, <2>1, <2>2
<1>9. Merged(c, o, m, v, j + 1, s)  BY <1>4, <1>5, <1>7, <1>8 DEF Merged
<1> QED  BY <1>4, <1>9

\* An unknown record brings no field.
LEMMA MergedUnknown ==
    ASSUME NEW c \in Class, NEW o, WellFormed(c, o), NEW m, NEW v, NEW j \in Nat,
           NEW q, Merged(c, o, m, v, j, q), ~Understood(c, v[j + 1]),
           NEW s, s = ReadRecord(c, q, v[j + 1])
    PROVE  Merged(c, o, m, v, j + 1, s)
<1>1. s = [q EXCEPT !.unknown = Append(q.unknown, v[j + 1])]
  BY DEF ReadRecord
<1>2. /\ q = [has |-> q.has, val |-> q.val, unknown |-> q.unknown]
      /\ q.has = m.has \cup Got(c, o, v, j)
      /\ q.val = [l \in Number(c) |->
                    IF l \in Got(c, o, v, j) THEN o.val[l] ELSE m.val[l]]
  BY DEF Merged
<1>3. /\ s.has = q.has /\ s.val = q.val /\ s.unknown = Append(q.unknown, v[j + 1])
      /\ s = [has |-> s.has, val |-> s.val, unknown |-> s.unknown]
  BY <1>1, <1>2
<1>4. Got(c, o, v, j + 1) = Got(c, o, v, j)
  <2>1. ASSUME NEW i \in o.has  PROVE v[j + 1] # Record(c, o, i)
    BY RecordIsUnderstood
  <2>2. ASSUME NEW i \in o.has
        PROVE  (\E k \in 1 .. j + 1 : v[k] = Record(c, o, i))
                 <=> (\E k \in 1 .. j : v[k] = Record(c, o, i))
    <3>1. ASSUME NEW k \in 1 .. j + 1, v[k] = Record(c, o, i)  PROVE k \in 1 .. j
      <4>1. k # j + 1  BY <2>1, <3>1
      <4> QED  BY <4>1
    <3>2. \A k \in 1 .. j : k \in 1 .. j + 1  OBVIOUS
    <3> QED  BY <3>1, <3>2
  <2> QED  BY <2>2 DEF Got
<1> QED  BY <1>2, <1>3, <1>4 DEF Merged

\* What is unknown to r is what was to m, then what was to o.
UnknownOfBoth(m, o, r) == r.unknown = m.unknown \o o.unknown

\* The n records of v begin what o was written as, with F fields.
Begins(c, o, v, n, F) ==
    /\ \A k \in 1 .. n : k <= F => \E i \in o.has : v[k] = Record(c, o, i)
    /\ \A k \in 1 .. n : F < k => v[k] = o.unknown[k - F]

\* Reading a beginning of what o was written as: some of the fields of o, and
\* when all of it was read, what was unknown to o after what was to m.
LEMMA ReadSerialized ==
    ASSUME NEW c \in Class, NEW o, WellFormed(c, o), NEW m, WellFormed(c, m),
           NEW v, NEW n \in Nat, n = Len(v), NEW F \in Nat, NEW U \in Nat,
           U = Len(o.unknown), n <= F + U, Begins(c, o, v, n, F),
           NEW r, r = ReadRecords(c, m, v)
    PROVE  /\ Merged(c, o, m, v, n, r)
           /\ n = F + U => UnknownOfBoth(m, o, r)
<1>0. PICK f : ReadChain(c, m, v, n, f)  BY ReadRecordsEquation
<1>1. /\ f[0] = m
      /\ \A k \in 0 .. n - 1 : f[k + 1] = ReadRecord(c, f[k], v[k + 1])
      /\ r = f[n]
  BY <1>0 DEF ReadChain
<1>2. m.unknown \in Seq(Strange(c)) /\ o.unknown \in Seq(Strange(c))
  BY DEF WellFormed
<1>3. PICK M \in Nat : M = Len(m.unknown)  BY <1>2, LenProperties
<1>4. \A k \in 1 .. U : o.unknown[k] \in Strange(c)  BY <1>2, ElementOfSeq
<1> DEFINE D(j) == IF j <= F THEN 0 ELSE j - F
<1> DEFINE Kept(j) ==
      /\ f[j].unknown \in Seq(Strange(c))
      /\ Len(f[j].unknown) = M + D(j)
      /\ \A k \in 1 .. M : f[j].unknown[k] = m.unknown[k]
      /\ \A k \in 1 .. D(j) : f[j].unknown[M + k] = o.unknown[k]
<1> DEFINE J == {j \in Nat : j <= n => Merged(c, o, m, v, j, f[j]) /\ Kept(j)}
<1>5. 0 \in J
  <2>1. Merged(c, o, m, v, 0, m)
    <3>1. Got(c, o, v, 0) = {}
      <4>1. \A k \in 1 .. 0 : FALSE  OBVIOUS
      <4> QED  BY <4>1 DEF Got
    <3>2. /\ m = [has |-> m.has, val |-> m.val, unknown |-> m.unknown]
          /\ m.val = [i \in Number(c) |-> m.val[i]]
      BY DEF WellFormed
    <3> QED  BY <3>1, <3>2 DEF Merged
  <2>2. Kept(0)  BY <1>1, <1>2, <1>3
  <2> HIDE DEF Kept
  <2> QED  BY <1>1, <2>1, <2>2
<1>6. ASSUME NEW j \in Nat, j \in J  PROVE j + 1 \in J
  <2> SUFFICES ASSUME j + 1 <= n
               PROVE  Merged(c, o, m, v, j + 1, f[j + 1]) /\ Kept(j + 1)
    <3> HIDE DEF Kept
    <3> QED  OBVIOUS
  <2>1. j <= n /\ j \in 0 .. n - 1 /\ j + 1 \in 1 .. n  OBVIOUS
  <2>2. Merged(c, o, m, v, j, f[j]) /\ Kept(j)
    <3> HIDE DEF Kept
    <3> QED  BY <1>6, <2>1
  <2>3. f[j + 1] = ReadRecord(c, f[j], v[j + 1])  BY <1>1, <2>1
  <2>4. CASE j + 1 <= F
    <3>1. PICK i \in o.has : v[j + 1] = Record(c, o, i)  BY <2>1, <2>4 DEF Begins
    <3>2. /\ Merged(c, o, m, v, j + 1, f[j + 1])
          /\ f[j + 1].unknown = f[j].unknown
      BY <2>2, <2>3, <3>1, MergedField
    <3>3. D(j + 1) = 0 /\ D(j) = 0  BY <2>4
    <3> HIDE DEF D
    <3>4. Kept(j + 1)  BY <2>2, <3>2, <3>3
    <3> QED  BY <3>2, <3>4
  <2>5. CASE ~(j + 1 <= F)
    <3>1. PICK d \in Nat : /\ d = D(j) /\ D(j + 1) = d + 1
                           /\ (j + 1) - F = d + 1 /\ d + 1 \in 1 .. U
      <4>1. D(j) \in Nat /\ D(j + 1) = D(j) + 1 /\ (j + 1) - F = D(j) + 1
        BY <2>5
      <4>2. D(j) + 1 \in 1 .. U  BY <2>1, <2>5
      <4> HIDE DEF D
      <4> QED  BY <4>1, <4>2
    <3>2. v[j + 1] = o.unknown[d + 1]
      <4>1. F < j + 1  BY <2>5
      <4> QED  BY <2>1, <3>1, <4>1 DEF Begins
    <3>3. v[j + 1] \in Strange(c)  BY <1>4, <3>1, <3>2
    <3>4. ~Understood(c, v[j + 1])  BY <3>3 DEF Strange
    <3>5. /\ Merged(c, o, m, v, j + 1, f[j + 1])
          /\ f[j + 1].unknown = Append(f[j].unknown, v[j + 1])
      <4>1. PICK q, s : q = f[j] /\ s = f[j + 1]  OBVIOUS
      <4>2. Merged(c, o, m, v, j, q) /\ s = ReadRecord(c, q, v[j + 1])
        BY <2>2, <2>3, <4>1
      <4>3. Merged(c, o, m, v, j + 1, s)  BY <3>4, <4>2, MergedUnknown
      <4>4. s.unknown = Append(q.unknown, v[j + 1])
        <5>1. q = [has |-> q.has, val |-> q.val, unknown |-> q.unknown]
          BY <4>2 DEF Merged
        <5>2. s = [q EXCEPT !.unknown = Append(q.unknown, v[j + 1])]
          BY <3>4, <4>2 DEF ReadRecord
        <5> QED  BY <5>1, <5>2
      <4> QED  BY <4>1, <4>3, <4>4
    <3>6. PICK a, b, x : a = f[j].unknown /\ b = f[j + 1].unknown /\ x = v[j + 1]
      OBVIOUS
    <3> HIDE DEF D
    <3>7. /\ a \in Seq(Strange(c)) /\ Len(a) = M + d
          /\ \A k \in 1 .. M : a[k] = m.unknown[k]
          /\ \A k \in 1 .. d : a[M + k] = o.unknown[k]
      BY <2>2, <3>1, <3>6
    <3>8. b = Append(a, x) /\ x \in Strange(c)  BY <3>3, <3>5, <3>6
    <3>9. /\ b \in Seq(Strange(c)) /\ Len(b) = (M + d) + 1
          /\ \A k \in 1 .. M + d : b[k] = a[k]
          /\ b[(M + d) + 1] = x
      BY <3>7, <3>8, AppendProperties
    <3>10. \A k \in 1 .. M : b[k] = m.unknown[k]
      <4> TAKE k \in 1 .. M
      <4>1. k \in 1 .. M + d  OBVIOUS
      <4> QED  BY <3>7, <3>9, <4>1
    <3>11. \A k \in 1 .. d + 1 : b[M + k] = o.unknown[k]
      <4> TAKE k \in 1 .. d + 1
      <4>1. CASE k = d + 1
        <5>1. M + k = (M + d) + 1  BY <4>1
        <5> QED  BY <3>2, <3>6, <3>9, <4>1, <5>1
      <4>2. CASE k # d + 1
        <5>1. k \in 1 .. d /\ M + k \in 1 .. M + d  BY <4>2
        <5> QED  BY <3>7, <3>9, <5>1
      <4> QED  BY <4>1, <4>2
    <3>12. (M + d) + 1 = M + (d + 1)  OBVIOUS
    <3>13. Kept(j + 1)  BY <3>1, <3>6, <3>9, <3>10, <3>11, <3>12
    <3> QED  BY <3>5, <3>13
  <2> QED  BY <2>4, <2>5
<1> HIDE DEF J
<1>7. n \in J  BY <1>5, <1>6, Induction
<1>8. Merged(c, o, m, v, n, r) /\ Kept(n)
  <2>1. n <= n  OBVIOUS
  <2> HIDE DEF Kept
  <2> QED  BY <1>1, <1>7, <2>1 DEF J
<1>9. ASSUME n = F + U  PROVE UnknownOfBoth(m, o, r)
  <2>1. D(n) = U  BY <1>9
  <2> HIDE DEF D
  <2>2. PICK a, b : a = r.unknown /\ b = m.unknown \o o.unknown  OBVIOUS
  <2>3. /\ a \in Seq(Strange(c)) /\ Len(a) = M + U
        /\ \A k \in 1 .. M : a[k] = m.unknown[k]
        /\ \A k \in 1 .. U : a[M + k] = o.unknown[k]
    BY <1>1, <1>8, <2>1, <2>2
  <2>4. /\ b \in Seq(Strange(c)) /\ Len(b) = M + U
        /\ \A k \in 1 .. M + U :
             b[k] = IF k <= M THEN m.unknown[k] ELSE o.unknown[k - M]
    <3>1. PICK p, q : p = m.unknown /\ q = o.unknown  OBVIOUS
    <3>2. p \in Seq(Strange(c)) /\ q \in Seq(Strange(c)) /\ Len(p) = M /\ Len(q) = U
      BY <1>2, <1>3, <3>1
    <3>3. b = p \o q  BY <2>2, <3>1
    <3>4. b \in Seq(Strange(c)) /\ Len(b) = M + U
      BY ONLY <3>2, <3>3, ConcatProperties
    <3>5. \A k \in 1 .. M + U : b[k] = IF k <= M THEN p[k] ELSE q[k - M]
      BY ONLY <3>2, <3>3, ConcatProperties
    <3> QED  BY <3>1, <3>4, <3>5
  <2>5. \A k \in 1 .. M + U : a[k] = b[k]
    <3> TAKE k \in 1 .. M + U
    <3>1. CASE k <= M
      <4>1. k \in 1 .. M  BY <3>1
      <4> QED  BY <2>3, <2>4, <3>1, <4>1
    <3>2. CASE ~(k <= M)
      <4>1. k - M \in 1 .. U /\ M + (k - M) = k  BY <3>2
      <4>2. a[M + (k - M)] = o.unknown[k - M]  BY <2>3, <4>1
      <4> QED  BY <2>4, <3>2, <4>1, <4>2
    <3> QED  BY <3>1, <3>2
  <2>6. a = b  BY <2>3, <2>4, <2>5, SeqEqual
  <2> QED  BY <2>2, <2>6 DEF UnknownOfBoth
<1> QED  BY <1>8, <1>9

\* Parsing whole records is reading them, and succeeds if no required field
\* is missing.
LEMMA ParseWhole ==
    ASSUME NEW c, NEW m, NEW input, input.partial = <<>>
    PROVE  /\ ParseFrom(c, m, input).m = ReadRecords(c, Clear(c, m), input.records)
           /\ ParseFrom(c, m, input).ok <=> IsInitialized(c, ParseFrom(c, m, input).m)
           /\ MergePartialFromCodedStream(c, m, input).m
                = ReadRecords(c, m, input.records)
<1>1. PICK a : a = Clear(c, m)  OBVIOUS
<1>2. /\ ReadInput(c, a, input) = ReadRecords(c, a, input.records)
      /\ ReadInput(c, m, input) = ReadRecords(c, m, input.records)
  BY DEF ReadInput
<1>3. /\ ParseFrom(c, m, input).m = ReadInput(c, a, input)
      /\ ParseFrom(c, m, input).ok <=> IsInitialized(c, ReadInput(c, a, input))
      /\ MergePartialFromCodedStream(c, m, input).m = ReadInput(c, m, input)
  BY <1>1 DEF ParseFrom, MergePartialFromCodedStream
<1> QED  BY <1>1, <1>2, <1>3

\* Parsing an input that ends in a record fails, after what there is of it.
LEMMA ParsePart ==
    ASSUME NEW c, NEW m, NEW input, NEW p, input.partial = <<p>>
    PROVE  /\ ParseFrom(c, m, input).m
                = ReadPartial(c, ReadRecords(c, Clear(c, m), input.records), p)
           /\ ~ParseFrom(c, m, input).ok
<1>1. PICK a : a = Clear(c, m)  OBVIOUS
<1>2. input.partial # <<>> /\ input.partial[1] = p  OBVIOUS
<1>3. ReadInput(c, a, input) = ReadPartial(c, ReadRecords(c, a, input.records), p)
  BY <1>2 DEF ReadInput
<1>4. /\ ParseFrom(c, m, input).m = ReadInput(c, a, input)
      /\ ~ParseFrom(c, m, input).ok
  BY <1>1, <1>2 DEF ParseFrom, MergePartialFromCodedStream
<1> QED  BY <1>1, <1>3, <1>4

\* A beginning of w is a sequence of the same records.
LEMMA Beginning ==
    ASSUME NEW R, NEW w \in Seq(R), NEW n \in Nat, n = Len(w), NEW j \in 0 .. n,
           NEW v, v = SubSeq(w, 1, j)
    PROVE  /\ v \in Seq(R) /\ Len(v) = j
           /\ \A k \in 1 .. j : v[k] = w[k]
           /\ j = n => v = w
<1>1. \A k \in 1 .. j : w[k] \in R
  <2> TAKE k \in 1 .. j
  <2>1. k \in 1 .. Len(w)  OBVIOUS
  <2> QED  BY <2>1, ElementOfSeq
<1>2. j \in Int  OBVIOUS
<1>3. /\ v \in Seq(R) /\ Len(v) = (IF 1 <= j THEN (j - 1) + 1 ELSE 0)
      /\ \A k \in 1 .. (j - 1) + 1 : v[k] = w[(1 + k) - 1]
  BY <1>1, <1>2, SubSeqProperties
<1>4. Len(v) = j  BY <1>3
<1>5. \A k \in 1 .. j : v[k] = w[k]
  <2> TAKE k \in 1 .. j
  <2>1. k \in 1 .. (j - 1) + 1 /\ (1 + k) - 1 = k  OBVIOUS
  <2> QED  BY <1>3, <2>1
<1>6. j = n => v = w  BY SubSeqFull
<1> QED  BY <1>3, <1>4, <1>5, <1>6

\* Parsing leaves an object well-formed, wherever the input is cut.
LEMMA ParseWellFormed ==
    ASSUME NEW c \in Class, NEW o, WellFormed(c, o), NEW m, WellFormed(c, m),
           NEW w \in Seq(Records(c, o) \cup Foreign), NEW k \in 0 .. WireSize(w)
    PROVE  WellFormed(c, ParseFrom(c, m, Cut(w, k)).m)
<1>1. PICK R : R = Records(c, o) \cup Foreign  OBVIOUS
<1>2. Values(R)  BY <1>1, RecordsHoldValues
<1>3. PICK n \in Nat : n = Len(w)  BY LenProperties
<1>4. w \in Seq(R)  BY <1>1
<1>5. PICK input : input = Cut(w, k)  OBVIOUS
<1>6. PICK j \in 0 .. n :
        /\ input.records = SubSeq(w, 1, j)
        /\ \/ input.partial = <<>>
           \/ /\ j < n
              /\ \E g \in 1 .. RecordSize(w[j + 1]) - 1 :
                   input.partial = <<[r |-> w[j + 1], got |-> g]>>
  BY <1>2, <1>3, <1>4, <1>5, CutProperties
<1>7. PICK v : v = SubSeq(w, 1, j)  OBVIOUS
<1>8. v \in Seq(Records(c, o) \cup Foreign)  BY <1>1, <1>3, <1>4, <1>7, Beginning
<1>9. WellFormed(c, Clear(c, m))
  <2>1. Complete(c)  BY DEF WellFormed
  <2> QED  BY <2>1, ClearIsFresh, FreshWellFormed
<1>10. PICK q : q = ReadRecords(c, Clear(c, m), v)  OBVIOUS
<1>11. WellFormed(c, q)  BY <1>8, <1>9, <1>10, ReadRecordsWellFormed
<1>12. CASE input.partial = <<>>
  <2>1. ParseFrom(c, m, input).m = q  BY <1>6, <1>7, <1>10, <1>12, ParseWhole
  <2> QED  BY <1>5, <1>11, <2>1
<1>13. CASE input.partial # <<>>
  <2>1. PICK g \in 1 .. RecordSize(w[j + 1]) - 1 :
          j < n /\ input.partial = <<[r |-> w[j + 1], got |-> g]>>
    BY <1>6, <1>13
  <2>2. PICK p, r : r = w[j + 1] /\ p = [r |-> r, got |-> g]  OBVIOUS
  <2>3. r \in Records(c, o) \cup Foreign
    <3>1. j + 1 \in 1 .. n  BY <2>1
    <3>2. j + 1 \in 1 .. Len(w)  BY <1>3, <3>1
    <3> QED  BY <2>2, <3>2, ElementOfSeq
  <2>4. input.partial = <<p>>  BY <2>1, <2>2
  <2>5. ParseFrom(c, m, input).m = ReadPartial(c, q, p)
    <3>1. input.records = v  BY <1>6, <1>7
    <3>2. ParseFrom(c, m, input).m
            = ReadPartial(c, ReadRecords(c, Clear(c, m), input.records), p)
      BY <2>4, ParsePart
    <3> QED  BY <1>10, <3>1, <3>2
  <2>6. g \in 1 .. RecordSize(r) - 1  BY <2>2
  <2>7. WellFormed(c, ReadPartial(c, q, p))
    BY <1>11, <2>2, <2>3, <2>6, ReadPartialWellFormed
  <2> QED  BY <1>5, <2>5, <2>7
<1> QED  BY <1>12, <1>13

\* What was written, and any beginning of it, begins what was written.
LEMMA WrittenBegins ==
    ASSUME NEW c, NEW o, NEW w, NEW F \in Nat, NEW U \in Nat, Written(c, o, w, F, U),
           NEW n \in 0 .. F + U, NEW v, \A k \in 1 .. n : v[k] = w[k]
    PROVE  Begins(c, o, v, n, F)
<1>1. /\ \A k \in 1 .. F : \E i \in o.has : w[k] = Record(c, o, i)
      /\ \A k \in 1 .. U : w[F + k] = o.unknown[k]
  BY DEF Written
<1>2. ASSUME NEW k \in 1 .. n, k <= F
      PROVE  \E i \in o.has : v[k] = Record(c, o, i)
  <2>1. k \in 1 .. F  BY <1>2
  <2> QED  BY <1>1, <2>1
<1>3. ASSUME NEW k \in 1 .. n, F < k  PROVE v[k] = o.unknown[k - F]
  <2>1. k - F \in 1 .. U /\ F + (k - F) = k  BY <1>3
  <2>2. w[F + (k - F)] = o.unknown[k - F]  BY <1>1, <2>1
  <2> QED  BY <2>1, <2>2
<1> QED  BY <1>2, <1>3 DEF Begins

\* Reading all of what o was written as is merging o.
LEMMA WholeIsMerge ==
    ASSUME NEW c \in Class, NEW o, WellFormed(c, o), NEW m, WellFormed(c, m),
           NEW w, w = SerializeWithCachedSizes(c, o),
           NEW input, input = Cut(w, WireSize(w))
    PROVE  /\ input.partial = <<>>
           /\ ReadRecords(c, m, input.records) = MergeFrom(c, m, o)
<1>1. PICK R : R = Records(c, o) \cup Foreign  OBVIOUS
<1>2. Values(R)  BY <1>1, RecordsHoldValues
<1>3. w \in Seq(R)  BY <1>1, SerializeProperties
<1>0. PICK F \in Nat, U \in Nat : Written(c, o, w, F, U)  BY SerializeProperties
<1>4. /\ U = Len(o.unknown) /\ Len(w) = F + U
      /\ \A k \in 1 .. F : \E i \in o.has : w[k] = Record(c, o, i)
      /\ \A i \in o.has : \E k \in 1 .. F : w[k] = Record(c, o, i)
      /\ \A k \in 1 .. U : w[F + k] = o.unknown[k]
  BY <1>0 DEF Written
<1>5. PICK n \in Nat : n = F + U /\ n = Len(w)  BY <1>4
<1>6. PICK k \in Nat : k = WireSize(w)
  <2>1. n \in 0 .. n  BY <1>5
  <2>2. WireSize(w) \in Nat  BY <1>2, <1>3, <1>5, <2>1, SizesProperties
  <2> QED  BY <2>2
<1>7. k \in 0 .. WireSize(w) /\ input = Cut(w, k)  BY <1>6
<1>8. input.records = SubSeq(w, 1, n) /\ input.partial = <<>>
  BY <1>2, <1>3, <1>5, <1>6, <1>7, CutProperties
<1>9. input.records = w  BY <1>3, <1>5, <1>8, SubSeqFull
<1>10. PICK r : r = ReadRecords(c, m, w)  OBVIOUS
<1>11. Merged(c, o, m, w, n, r) /\ r.unknown = m.unknown \o o.unknown
  <2>1. Begins(c, o, w, n, F)  BY <1>0, <1>5, WrittenBegins
  <2>2. n <= F + U /\ U = Len(o.unknown)  BY <1>4, <1>5
  <2>3. Merged(c, o, m, w, n, r)  BY <1>5, <1>10, <2>1, <2>2, ReadSerialized
  <2>4. UnknownOfBoth(m, o, r)  BY <1>5, <1>10, <2>1, <2>2, ReadSerialized
  <2> QED  BY <2>3, <2>4 DEF UnknownOfBoth
<1>12. Got(c, o, w, n) = o.has
  <2>1. \A l \in 1 .. F : l \in 1 .. n  BY <1>5
  <2> QED  BY <1>4, <2>1 DEF Got
<1>13. /\ r = [has |-> r.has, val |-> r.val, unknown |-> r.unknown]
       /\ r.has = m.has \cup o.has
       /\ r.val = [i \in Number(c) |-> IF i \in o.has THEN o.val[i] ELSE m.val[i]]
  <2>1. PICK G : G = Got(c, o, w, n) /\ G = o.has  BY <1>12
  <2>2. /\ r = [has |-> r.has, val |-> r.val, unknown |-> r.unknown]
        /\ r.has = m.has \cup G
        /\ r.val = [i \in Number(c) |-> IF i \in G THEN o.val[i] ELSE m.val[i]]
    BY <1>11, <2>1 DEF Merged
  <2> QED  BY <2>1, <2>2
<1>15. PICK q : q = MergeFrom(c, m, o)  OBVIOUS
<1>16. /\ q = [has |-> q.has, val |-> q.val, unknown |-> q.unknown]
       /\ q.has = m.has \cup o.has /\ q.unknown = m.unknown \o o.unknown
       /\ q.val = [i \in Number(c) |-> IF i \in o.has THEN o.val[i] ELSE m.val[i]]
  <2>1. PICK S : S = o.has \cap CodeOf[c].merges /\ S = o.has
    BY DEF WellFormed, Complete
  <2> QED  BY <1>15, <2>1 DEF MergeFrom
<1>17. r = q  BY <1>11, <1>13, <1>16
<1> QED  BY <1>8, <1>9, <1>10, <1>15, <1>17

\* What a cut message may give: object r, parsed from a part of o.
Honest(c, o, r) ==
    /\ r.has \subseteq o.has
    /\ \A i \in Number(c) :
         \/ r.val[i] \in {o.val[i], FieldsOf[c][i].default}
         \/ IsBytes(c, i) /\ IsPrefix(r.val[i], o.val[i])

\* What is read into a new object from a beginning of o is honest, and all of
\* o in the fields that came.
LEMMA MergedIsHonest ==
    ASSUME NEW c \in Class, NEW o, NEW v, NEW j,
           NEW q, Merged(c, o, Fresh(c), v, j, q), WellFormed(c, o)
    PROVE  /\ q.has = Got(c, o, v, j) /\ q.has \subseteq o.has
           /\ \A i \in Number(c) :
                q.val[i] = IF i \in q.has THEN o.val[i] ELSE FieldsOf[c][i].default
           /\ Honest(c, o, q)
<1>1. PICK m : m = Fresh(c)  OBVIOUS
<1>2. m.has = {} /\ m.val = [i \in Number(c) |-> FieldsOf[c][i].default]
  BY <1>1 DEF Fresh
<1>3. PICK G : G = Got(c, o, v, j)  OBVIOUS
<1>4. /\ q.has = m.has \cup G
      /\ q.val = [i \in Number(c) |-> IF i \in G THEN o.val[i] ELSE m.val[i]]
  BY <1>1, <1>3 DEF Merged
<1>5. q.has = G /\ G \subseteq o.has  BY <1>2, <1>3, <1>4 DEF Got
<1>6. \A i \in Number(c) :
        q.val[i] = IF i \in q.has THEN o.val[i] ELSE FieldsOf[c][i].default
  BY <1>2, <1>4, <1>5
<1>7. Honest(c, o, q)  BY <1>5, <1>6 DEF Honest
<1> QED  BY <1>3, <1>5, <1>6, <1>7

\* So it is after a part of the next record of o: the part of a string is a
\* prefix of it, a number has its has-bit but not yet its value.
LEMMA PartialIsHonest ==
    ASSUME NEW c \in Class, NEW o, WellFormed(c, o),
           NEW q, WellFormed(c, q), Honest(c, o, q),
           NEW r, (\E i \in o.has : r = Record(c, o, i)) \/ r \in Strange(c),
           NEW g \in 1 .. RecordSize(r) - 1, NEW p, p = [r |-> r, got |-> g]
    PROVE  Honest(c, o, ReadPartial(c, q, p))
<1>1. p.r = r /\ p.got = g  OBVIOUS
<1>2. CASE ~Known(c, r) \/ FieldsOf[c][r.n].kind = "enum"
  <2>1. ReadPartial(c, q, p) = q  BY <1>1, <1>2 DEF ReadPartial
  <2> QED  BY <2>1
<1>3. CASE Known(c, r) /\ FieldsOf[c][r.n].kind # "enum"
  <2>1. PICK i \in o.has : r = Record(c, o, i)
    <3>1. Understood(c, r)  BY <1>3 DEF Understood
    <3> QED  BY <3>1 DEF Strange
  <2>2. /\ r.n = i /\ r.v = o.val[i] /\ i \in Number(c)
        /\ r.kind = FieldsOf[c][i].kind
    BY <2>1, RecordIsUnderstood
  <2>3. Holds(c, i, o.val[i])  BY <2>2 DEF WellFormed
  <2>4. /\ q = [has |-> q.has, val |-> q.val, unknown |-> q.unknown]
        /\ q.val = [k \in Number(c) |-> q.val[k]]
    BY DEF WellFormed
  <2>5. /\ q.has \subseteq o.has
        /\ \A k \in Number(c) :
             \/ q.val[k] \in {o.val[k], FieldsOf[c][k].default}
             \/ IsBytes(c, k) /\ IsPrefix(q.val[k], o.val[k])
    BY DEF Honest
  <2>6. PICK h : h = 1 + VarintSize(Len(r.v))  OBVIOUS
  <2>7. PICK s : s = ReadPartial(c, q, p)  OBVIOUS
  <2>8. CASE IsBytes(c, i) /\ g >= h
    <3>1. PICK x : x = SubSeq(r.v, 1, g - h)  OBVIOUS
    <3>2. IsPrefix(x, r.v)
      <4>1. IsValue(r.kind, r.v)  BY <2>2, <2>3 DEF Holds
      <4>2. IsBytes(c, r.n) /\ WireType(FieldsOf[c][r.n].kind) = WireType(r.kind)
        BY <2>2, <2>8
      <4> QED  BY <2>6, <2>8, <3>1, <4>1, <4>2, PartOfString
    <3>3. s = SetField(q, i, x)
      BY <1>1, <1>3, <2>2, <2>6, <2>7, <2>8, <3>1 DEF ReadPartial
    <3>4. s.has = q.has \cup {i} /\ s.val = [q.val EXCEPT ![i] = x]
      BY <2>4, <3>3 DEF SetField
    <3>5. \A k \in Number(c) : s.val[k] = IF k = i THEN x ELSE q.val[k]
      BY <2>4, <3>4
    <3>6. IsBytes(c, i) /\ IsPrefix(x, o.val[i])  BY <2>2, <2>8, <3>2
    <3>7. Honest(c, o, s)  BY <2>5, <3>4, <3>5, <3>6 DEF Honest
    <3> QED  BY <2>7, <3>7
  <2>9. CASE ~(IsBytes(c, i) /\ g >= h)
    <3>1. s = [q EXCEPT !.has = q.has \cup {i}]
      BY <1>1, <1>3, <2>2, <2>6, <2>7, <2>9 DEF ReadPartial
    <3>2. s.has = q.has \cup {i} /\ s.val = q.val  BY <2>4, <3>1
    <3>3. Honest(c, o, s)  BY <2>5, <3>2 DEF Honest
    <3> QED  BY <2>7, <3>3
  <2> QED  BY <2>8, <2>9
<1> QED  BY <1>2, <1>3

\* A message that is cut anywhere gives an honest object, and if parsing it
\* succeeds, with all that is required.
LEMMA CutParse ==
    ASSUME NEW c \in Class, NEW o, WellFormed(c, o),
           NEW w, w = SerializeWithCachedSizes(c, o), NEW k \in 0 .. WireSize(w),
           NEW r, r = ParseFrom(c, Fresh(c), Cut(w, k))
    PROVE  /\ Honest(c, o, r.m)
           /\ r.ok => \A i \in Required(c) : r.m.val[i] = o.val[i]
<1>1. PICK R : R = Records(c, o) \cup Foreign  OBVIOUS
<1>2. Values(R) /\ w \in Seq(R)
  BY <1>1, RecordsHoldValues, SerializeProperties
<1>3. PICK F \in Nat, U \in Nat : Written(c, o, w, F, U)  BY SerializeProperties
<1>4. PICK n \in Nat : n = F + U /\ n = Len(w) /\ U = Len(o.unknown)
  BY <1>3 DEF Written
<1>5. PICK input : input = Cut(w, k)  OBVIOUS
<1>6. PICK j \in 0 .. n :
        /\ input.records = SubSeq(w, 1, j)
        /\ \/ input.partial = <<>>
           \/ /\ j < n
              /\ \E g \in 1 .. RecordSize(w[j + 1]) - 1 :
                   input.partial = <<[r |-> w[j + 1], got |-> g]>>
  BY <1>2, <1>4, <1>5, CutProperties
<1>7. PICK v : v = SubSeq(w, 1, j) /\ v = input.records  BY <1>6
<1>8. v \in Seq(R) /\ Len(v) = j /\ \A l \in 1 .. j : v[l] = w[l]
  BY <1>2, <1>4, <1>7, Beginning
<1>9. PICK m : m = Fresh(c) /\ WellFormed(c, m)
  <2>1. Complete(c)  BY DEF WellFormed
  <2> QED  BY <2>1, FreshWellFormed
<1>10. Clear(c, m) = m  BY <1>9, ClearIsFresh
<1>11. PICK q : q = ReadRecords(c, m, v)  OBVIOUS
<1>12. WellFormed(c, q)
  BY <1>1, <1>8, <1>9, <1>11, ReadRecordsWellFormed
<1>13. Merged(c, o, m, v, j, q)
  <2>1. j \in Nat /\ j \in 0 .. F + U /\ j <= F + U  BY <1>4
  <2>2. Begins(c, o, v, j, F)  BY <1>3, <1>8, <2>1, WrittenBegins
  <2> QED  BY <1>4, <1>8, <1>9, <1>11, <2>1, <2>2, ReadSerialized
<1>14. /\ q.has \subseteq o.has /\ Honest(c, o, q)
       /\ \A i \in Number(c) :
            q.val[i] = IF i \in q.has THEN o.val[i] ELSE FieldsOf[c][i].default
  BY <1>9, <1>13, MergedIsHonest
<1>15. CASE input.partial = <<>>
  <2>1. r.m = q /\ (r.ok <=> IsInitialized(c, q))
    BY <1>5, <1>7, <1>9, <1>10, <1>11, <1>15, ParseWhole
  <2>2. IsInitialized(c, q) => \A i \in Required(c) : q.val[i] = o.val[i]
    BY <1>14 DEF IsInitialized, Required
  <2> QED  BY <1>14, <2>1, <2>2
<1>16. CASE input.partial # <<>>
  <2>1. PICK g \in 1 .. RecordSize(w[j + 1]) - 1 :
          j < n /\ input.partial = <<[r |-> w[j + 1], got |-> g]>>
    BY <1>6, <1>16
  <2>2. PICK p, x : x = w[j + 1] /\ p = [r |-> x, got |-> g]  OBVIOUS
  <2>3. input.partial = <<p>> /\ g \in 1 .. RecordSize(x) - 1  BY <2>1, <2>2
  <2>4. r.m = ReadPartial(c, q, p) /\ ~r.ok
    <3>1. /\ ParseFrom(c, m, input).m
               = ReadPartial(c, ReadRecords(c, Clear(c, m), input.records), p)
          /\ ~ParseFrom(c, m, input).ok
      BY <2>3, ParsePart
    <3> QED  BY <1>5, <1>7, <1>9, <1>10, <1>11, <3>1
  <2>5. (\E i \in o.has : x = Record(c, o, i)) \/ x \in Strange(c)
    <3>1. CASE j + 1 <= F
      <4>1. j + 1 \in 1 .. F  BY <3>1
      <4> QED  BY <1>3, <2>2, <4>1 DEF Written
    <3>2. CASE ~(j + 1 <= F)
      <4>1. (j + 1) - F \in 1 .. U /\ F + ((j + 1) - F) = j + 1  BY <1>4, <2>1, <3>2
      <4>2. x = o.unknown[(j + 1) - F]  BY <1>3, <2>2, <4>1 DEF Written
      <4>3. o.unknown \in Seq(Strange(c))  BY DEF WellFormed
      <4>4. x \in Strange(c)  BY <1>4, <4>1, <4>2, <4>3, ElementOfSeq
      <4> QED  BY <4>4
    <3> QED  BY <3>1, <3>2
  <2>6. Honest(c, o, ReadPartial(c, q, p))
    BY <1>12, <1>14, <2>2, <2>3, <2>5, PartialIsHonest
  <2> QED  BY <2>4, <2>6
<1> QED  BY <1>15, <1>16

-----------------------------------------------------------------------------
(* The objects stay well-formed.                                           *)

\* One object takes a well-formed value.
LEMMA OneChanges ==
    ASSUME NEW c, NEW f, AllWellFormed(c, f), NEW o \in Object,
           NEW m, WellFormed(c, m), NEW g, g = [f EXCEPT ![o] = m]
    PROVE  AllWellFormed(c, g)
<1>1. f = [p \in Object |-> f[p]] /\ \A p \in Object : WellFormed(c, f[p])
  BY DEF AllWellFormed
<1>2. g = [p \in Object |-> IF p = o THEN m ELSE f[p]]  BY <1>1
<1>3. g = [p \in Object |-> g[p]] /\ \A p \in Object : WellFormed(c, g[p])
  BY <1>1, <1>2
<1> QED  BY <1>3 DEF AllWellFormed

\* Init makes new objects.
LEMMA InitWellFormed ==
    ASSUME \A c \in Class : Complete(c)
    PROVE  Init => IInv
<1> SUFFICES ASSUME Init  PROVE IInv
  OBVIOUS
<1>1. cls \in Class /\ ops = 0 /\ obj = [o \in Object |-> Fresh(cls)]  BY DEF Init
<1>2. PICK c, f : c = cls /\ f = obj  OBVIOUS
<1>3. WellFormed(c, Fresh(c))  BY <1>1, <1>2, FreshWellFormed
<1>4. f = [o \in Object |-> f[o]] /\ \A o \in Object : f[o] = Fresh(c)
  BY <1>1, <1>2
<1>5. AllWellFormed(c, f)  BY <1>3, <1>4 DEF AllWellFormed
<1>6. MaxOps[cls] \in Nat  BY <1>1, ClassFacts
<1>7. ops \in 0 .. MaxOps[cls]  BY <1>1, <1>6
<1> QED  BY <1>1, <1>2, <1>5, <1>7 DEF IInv

\* Every operation leaves them well-formed.
LEMMA NextWellFormed == IInv /\ [Next]_vars => IInv'
<1> SUFFICES ASSUME IInv, [Next]_vars  PROVE IInv'
  OBVIOUS
<1>1. PICK c, f, g : c = cls /\ f = obj /\ g = obj'  OBVIOUS
<1>2. c \in Class /\ Complete(c) /\ ops \in 0 .. MaxOps[c] /\ AllWellFormed(c, f)
  BY <1>1 DEF IInv
<1>3. /\ \A o \in Object : WellFormed(c, f[o])
      /\ f = [o \in Object |-> f[o]]
  BY <1>2 DEF AllWellFormed
<1>4. ASSUME Step, AllWellFormed(c, g)  PROVE IInv'
  <2>1. ops < MaxOps[c] /\ ops' = ops + 1 /\ cls' = c  BY <1>1, <1>4 DEF Step
  <2>2. MaxOps[c] \in Nat  BY <1>2, ClassFacts
  <2>3. ops' \in 0 .. MaxOps[c]  BY <1>2, <2>1, <2>2
  <2> QED  BY <1>1, <1>2, <1>4, <2>1, <2>3 DEF IInv
<1>5. ASSUME Step, NEW o \in Object, NEW m, WellFormed(c, m), g = [f EXCEPT ![o] = m]
      PROVE  IInv'
  BY <1>2, <1>4, <1>5, OneChanges
<1>6. CASE UNCHANGED vars
  BY <1>6 DEF vars, IInv
<1>7. ASSUME NEW o \in Object, Set(o)  PROVE IInv'
  <2>0. PICK i \in Number(c) :
          \E v \in SetValue[c][i] : g = [f EXCEPT ![o] = SetField(f[o], i, v)]
    BY <1>1, <1>7 DEF Set, Update
  <2>1. PICK v \in SetValue[c][i] : g = [f EXCEPT ![o] = SetField(f[o], i, v)]
    BY <2>0
  <2>2. Holds(c, i, v)  BY <1>2, ClassFacts
  <2>3. WellFormed(c, SetField(f[o], i, v))  BY <1>2, <1>3, <2>2, SetFieldWellFormed
  <2>4. Step  BY <1>7 DEF Set
  <2> QED  BY <1>5, <2>1, <2>3, <2>4
<1>8. ASSUME NEW o \in Object, Build(o)  PROVE IInv'
  <2>1. PICK b \in Built[c] : g = [f EXCEPT ![o] = BuiltFrom(c, b)]
    BY <1>1, <1>8 DEF Build, Update
  <2>2. WellFormed(c, BuiltFrom(c, b))  BY <1>2, BuiltWellFormed
  <2>3. Step  BY <1>8 DEF Build
  <2> QED  BY <1>5, <2>1, <2>2, <2>3
<1>9. ASSUME NEW o \in Object, Unset(o)  PROVE IInv'
  <2>1. PICK i \in Number(c) : g = [f EXCEPT ![o] = ClearField(c, f[o], i)]
    BY <1>1, <1>9 DEF Unset, Update
  <2>2. WellFormed(c, ClearField(c, f[o], i))  BY <1>2, <1>3, ClearFieldWellFormed
  <2>3. Step  BY <1>9 DEF Unset
  <2> QED  BY <1>5, <2>1, <2>2, <2>3
<1>10. ASSUME NEW o \in Object, Reset(o)  PROVE IInv'
  <2>1. g = [f EXCEPT ![o] = Clear(c, f[o])]
    BY <1>1, <1>10 DEF Reset, Update
  <2>2. WellFormed(c, Clear(c, f[o]))
    BY <1>2, <1>3, ClearIsFresh, FreshWellFormed
  <2>3. Step  BY <1>10 DEF Reset
  <2> QED  BY <1>5, <2>1, <2>2, <2>3
<1>11. ASSUME NEW o \in Object, NEW p \in Object, Merge(o, p)  PROVE IInv'
  <2>1. g = [f EXCEPT ![o] = MergeFrom(c, f[o], f[p])]
    BY <1>1, <1>11 DEF Merge, Update
  <2>2. WellFormed(c, MergeFrom(c, f[o], f[p]))  BY <1>2, <1>3, MergeFromWellFormed
  <2>3. Step  BY <1>11 DEF Merge
  <2> QED  BY <1>5, <2>1, <2>2, <2>3
<1>12. ASSUME NEW o \in Object, NEW p \in Object, Assign(o, p)  PROVE IInv'
  <2>1. g = [f EXCEPT ![o] = CopyFrom(c, f[o], f[p])]
    BY <1>1, <1>12 DEF Assign, Update
  <2>2. CopyFrom(c, f[o], f[p]) = f[p]
    BY <1>2, <1>3, ClearIsFresh, MergeIntoFresh DEF CopyFrom
  <2>3. Step  BY <1>12 DEF Assign
  <2> QED  BY <1>3, <1>5, <2>1, <2>2, <2>3
<1>13. ASSUME NEW o \in Object, NEW p \in Object, Copy(o, p)  PROVE IInv'
  <2>1. g = [f EXCEPT ![o] = CopyConstruct(c, f[p])]
    BY <1>1, <1>13 DEF Copy, Update
  <2>2. CopyConstruct(c, f[p]) = f[p]  BY <1>2, <1>3, CopyConstructCopies
  <2>3. Step  BY <1>13 DEF Copy
  <2> QED  BY <1>3, <1>5, <2>1, <2>2, <2>3
<1>14. ASSUME NEW o \in Object, NEW p \in Object, Swap(o, p)  PROVE IInv'
  <2>0. g = [f EXCEPT ![o] = Swapped(c, f[o], f[p]), ![p] = Swapped(c, f[p], f[o])]
    BY <1>1, <1>14 DEF Swap
  <2>1. g = [f EXCEPT ![o] = f[p], ![p] = f[o]]
    BY <1>2, <1>3, <2>0, SwappedIsOther
  <2>2. PICK h : h = [f EXCEPT ![o] = f[p]]  OBVIOUS
  <2>3. AllWellFormed(c, h)  BY <1>2, <1>3, <2>2, OneChanges
  <2>4. g = [h EXCEPT ![p] = f[o]]  BY <1>3, <2>1, <2>2
  <2>5. AllWellFormed(c, g)  BY <1>3, <2>3, <2>4, OneChanges
  <2>6. Step  BY <1>14 DEF Swap
  <2> QED  BY <1>4, <2>5, <2>6
<1>15. ASSUME NEW o \in Object, NEW p \in Object, Move(o, p)  PROVE IInv'
  <2>0. g = [f EXCEPT ![o] = Swapped(c, Fresh(c), f[p]),
                      ![p] = Swapped(c, f[p], Fresh(c))]
    BY <1>1, <1>15 DEF Move
  <2>1. g = [f EXCEPT ![o] = f[p], ![p] = Fresh(c)]
    BY <1>2, <1>3, <2>0, FreshWellFormed, SwappedIsOther
  <2>2. PICK h : h = [f EXCEPT ![o] = f[p]]  OBVIOUS
  <2>3. AllWellFormed(c, h)  BY <1>2, <1>3, <2>2, OneChanges
  <2>4. g = [h EXCEPT ![p] = Fresh(c)]  BY <1>3, <2>1, <2>2
  <2>5. AllWellFormed(c, g)  BY <1>2, <2>3, <2>4, FreshWellFormed, OneChanges
  <2>6. Step  BY <1>15 DEF Move
  <2> QED  BY <1>4, <2>5, <2>6
<1>16. ASSUME NEW o \in Object, NEW p \in Object, Parse(o, p)  PROVE IInv'
  <2>1. PICK more \in {<<>>} \cup {<<r>> : r \in Foreign} :
          \E k \in 0 .. WireSize(SerializeWithCachedSizes(c, f[p]) \o more) :
            g = [f EXCEPT ![o] =
                   ParseFrom(c, f[o], Cut(SerializeWithCachedSizes(c, f[p]) \o more, k)).m]
    BY <1>1, <1>16 DEF Parse, Update
  <2>2. PICK s, w : s = SerializeWithCachedSizes(c, f[p]) /\ w = s \o more  OBVIOUS
  <2>3. PICK k \in 0 .. WireSize(w) :
          g = [f EXCEPT ![o] = ParseFrom(c, f[o], Cut(w, k)).m]
    BY <2>1, <2>2
  <2>4. w \in Seq(Records(c, f[p]) \cup Foreign)
    <3>1. s \in Seq(Records(c, f[p]) \cup Foreign)
      BY <1>2, <1>3, <2>2, SerializeProperties
    <3>2. more \in Seq(Records(c, f[p]) \cup Foreign)
      <4>1. CASE more = <<>>  BY <4>1
      <4>2. ASSUME NEW r \in Foreign, more = <<r>>
            PROVE  more \in Seq(Records(c, f[p]) \cup Foreign)
        BY <4>2
      <4> QED  BY <2>1, <4>1, <4>2
    <3> QED  BY <2>2, <3>1, <3>2, ConcatProperties
  <2>5. WellFormed(c, ParseFrom(c, f[o], Cut(w, k)).m)
    BY <1>2, <1>3, <2>4, ParseWellFormed
  <2>6. Step  BY <1>16 DEF Parse
  <2> QED  BY <1>5, <2>3, <2>5, <2>6
<1> QED
  BY <1>6, <1>7, <1>8, <1>9, <1>10, <1>11, <1>12, <1>13, <1>14, <1>15, <1>16
  DEF Next

\* The objects are always well-formed.
THEOREM ObjectsWellFormed ==
    ASSUME \A c \in Class : Complete(c)
    PROVE  Spec => []IInv
<1>1. Init => IInv  BY InitWellFormed
<1>2. IInv /\ [Next]_vars => IInv'  BY NextWellFormed
<1> QED  BY <1>1, <1>2, PTL DEF Spec

-----------------------------------------------------------------------------
(* The theorems.                                                           *)

\* ByteSizeLong, which adds up the required fields at once or one by one, is
\* the number of bytes that SerializeWithCachedSizes writes.
THEOREM SizesAreExact ==
    ASSUME \A c \in Class : Complete(c)
    PROVE  Spec => []SizeExact
<1>1. IInv => SizeExact
  <2> SUFFICES ASSUME IInv, NEW o \in Object
               PROVE  ByteSizeLong(cls, obj[o])
                        = WireSize(SerializeWithCachedSizes(cls, obj[o]))
    BY DEF SizeExact
  <2>1. PICK c, m : c = cls /\ m = obj[o]  OBVIOUS
  <2>2. c \in Class /\ WellFormed(c, m)  BY <2>1 DEF IInv, AllWellFormed
  <2> QED  BY <2>1, <2>2, ByteSizeIsWireSize
<1> QED  BY <1>1, ObjectsWellFormed, PTL

\* Parsing without Clear what p serialises is MergeFrom(p), and the copy
\* constructor is MergeFrom on a new object.
THEOREM ParsingMerges ==
    ASSUME \A c \in Class : Complete(c)
    PROVE  Spec => []ParseIsMerge
<1>1. IInv => ParseIsMerge
  <2> SUFFICES ASSUME IInv, NEW o \in Object, NEW p \in Object,
                      NEW w, w = SerializeWithCachedSizes(cls, obj[p])
               PROVE  /\ MergePartialFromCodedStream(cls, obj[o], Cut(w, WireSize(w))).m
                           = MergeFrom(cls, obj[o], obj[p])
                      /\ CopyConstruct(cls, obj[p]) = MergeFrom(cls, Fresh(cls), obj[p])
    BY DEF ParseIsMerge
  <2>1. PICK c, m, q : c = cls /\ m = obj[o] /\ q = obj[p]  OBVIOUS
  <2>2. c \in Class /\ WellFormed(c, m) /\ WellFormed(c, q)
    BY <2>1 DEF IInv, AllWellFormed
  <2>3. PICK input : input = Cut(w, WireSize(w))  OBVIOUS
  <2>4. /\ input.partial = <<>>
        /\ ReadRecords(c, m, input.records) = MergeFrom(c, m, q)
    BY <2>1, <2>2, <2>3, WholeIsMerge
  <2>5. MergePartialFromCodedStream(c, m, input).m = MergeFrom(c, m, q)
    BY <2>4, ParseWhole
  <2>6. CopyConstruct(c, q) = MergeFrom(c, Fresh(c), q)
    BY <2>2, CopyConstructCopies, MergeIntoFresh
  <2> QED  BY <2>1, <2>3, <2>5, <2>6
<1> QED  BY <1>1, ObjectsWellFormed, PTL

\* What one side serialises the other parses back, into whatever object, and
\* parsing succeeds exactly when no required field is missing.
THEOREM RoundTrips ==
    ASSUME \A c \in Class : Complete(c)
    PROVE  Spec => []RoundTrip
<1>1. IInv => RoundTrip
  <2> SUFFICES ASSUME IInv, NEW o \in Object, NEW p \in Object,
                      NEW w, w = SerializeWithCachedSizes(cls, obj[o]),
                      NEW r, r = ParseFrom(cls, obj[p], Cut(w, WireSize(w)))
               PROVE  r.m = obj[o] /\ (r.ok <=> IsInitialized(cls, obj[o]))
    BY DEF RoundTrip
  <2>1. PICK c, m, q : c = cls /\ m = obj[o] /\ q = obj[p]  OBVIOUS
  <2>2. c \in Class /\ WellFormed(c, m) /\ WellFormed(c, q)
    BY <2>1 DEF IInv, AllWellFormed
  <2>3. PICK input : input = Cut(w, WireSize(w))  OBVIOUS
  <2>4. Clear(c, q) = Fresh(c) /\ WellFormed(c, Fresh(c))
    BY <2>2, ClearIsFresh, FreshWellFormed DEF WellFormed
  <2>5. /\ input.partial = <<>>
        /\ ReadRecords(c, Fresh(c), input.records) = MergeFrom(c, Fresh(c), m)
    BY <2>1, <2>2, <2>3, <2>4, WholeIsMerge
  <2>6. MergeFrom(c, Fresh(c), m) = m  BY <2>2, MergeIntoFresh
  <2>7. /\ ParseFrom(c, q, input).m = m
        /\ ParseFrom(c, q, input).ok <=> IsInitialized(c, m)
    BY <2>4, <2>5, <2>6, ParseWhole
  <2> QED  BY <2>1, <2>3, <2>7
<1> QED  BY <1>1, ObjectsWellFormed, PTL

\* A message that is cut anywhere gives fields of the sender, defaults, and at
\* most a prefix of one string; all objects keep their shape.
THEOREM CutsAreHonest ==
    ASSUME \A c \in Class : Complete(c)
    PROVE  Spec => []CutIsHonest
<1>1. IInv => TypeOK
  <2> SUFFICES ASSUME IInv  PROVE TypeOK
    OBVIOUS
  <2>1. PICK c, f : c = cls /\ f = obj  OBVIOUS
  <2>2. /\ c \in Class /\ ops \in 0 .. MaxOps[c]
        /\ \A o \in Object : WellFormed(c, f[o])
    BY <2>1 DEF IInv, AllWellFormed
  <2>3. ASSUME NEW o \in Object
        PROVE  /\ f[o].has \subseteq Number(c)
               /\ DOMAIN f[o].val = Number(c)
               /\ \A i \in Number(c) : FieldsOf[c][i].kind = "enum"
                                         => f[o].val[i] \in FieldsOf[c][i].valid
    <3>1. PICK m : m = f[o]  OBVIOUS
    <3>2. /\ m.has \subseteq Number(c)
          /\ m.val = [i \in Number(c) |-> m.val[i]]
          /\ \A i \in Number(c) : Holds(c, i, m.val[i])
      BY <2>2, <3>1 DEF WellFormed
    <3>3. DOMAIN m.val = Number(c)  BY <3>2
    <3> QED  BY <3>1, <3>2, <3>3 DEF Holds
  <2> QED  BY <2>1, <2>2, <2>3 DEF TypeOK
<1>2. IInv => CutIsHonest
  <2> SUFFICES ASSUME IInv, NEW o \in Object,
                      NEW w, w = SerializeWithCachedSizes(cls, obj[o]),
                      NEW k \in 0 .. WireSize(w),
                      NEW r, r = ParseFrom(cls, Fresh(cls), Cut(w, k))
               PROVE  /\ r.m.has \subseteq obj[o].has
                      /\ \A i \in Number(cls) :
                           \/ r.m.val[i] \in {obj[o].val[i], FieldsOf[cls][i].default}
                           \/ IsBytes(cls, i) /\ IsPrefix(r.m.val[i], obj[o].val[i])
                      /\ r.ok => \A i \in Required(cls) : r.m.val[i] = obj[o].val[i]
    BY <1>1 DEF CutIsHonest
  <2>1. PICK c, m : c = cls /\ m = obj[o]  OBVIOUS
  <2>2. c \in Class /\ WellFormed(c, m)  BY <2>1 DEF IInv, AllWellFormed
  <2>3. /\ Honest(c, m, r.m)
        /\ r.ok => \A i \in Required(c) : r.m.val[i] = m.val[i]
    BY <2>1, <2>2, CutParse
  <2> QED  BY <2>1, <2>3 DEF Honest
<1> QED  BY <1>2, ObjectsWellFormed, PTL
=============================================================================
