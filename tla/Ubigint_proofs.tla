--------------------------- MODULE Ubigint_proofs ---------------------------
(***************************************************************************)
(* Proofs about the vectors of Ubigint, of any length: their types, what   *)
(* they are worth, and how operator<, Trim and divide_by_2 go with that.   *)
(***************************************************************************)
EXTENDS Ubigint, TLAPS, SequenceTheorems, WellFoundedInduction

------------------------------------------------------------------------------
(* Bytes and vectors. *)

LEMMA Smallest ==
  ASSUME NEW T, T \subseteq Nat, T # {}
  PROVE  \E m \in T : \A k \in T : ~(k < m)
  <1>1. \E m \in T : \A k \in T : ~(<<k, m>> \in OpToRel(<, Nat))
    BY NatLessThanWellFounded, WFMin
  <1>2. PICK m \in T : \A k \in T : ~(<<k, m>> \in OpToRel(<, Nat))
    BY <1>1
  <1>3. \A k \in T : k < m => <<k, m>> \in OpToRel(<, Nat)
    BY DEF OpToRel
  <1> QED BY <1>2, <1>3

LEMMA Elements ==
  ASSUME NEW v \in Vectors
  PROVE  Len(v) \in Nat /\ \A i \in 1 .. Len(v) : v[i] \in Bytes /\ v[i] \in Int
  <1>1. Len(v) \in Nat /\ \A i \in 1 .. Len(v) : v[i] \in Bytes
    BY DEF Vectors
  <1>2. \A x \in Bytes : x \in Int
    BY DEF Bytes
  <1> QED BY <1>1, <1>2

LEMMA ByteType == \A x \in Int : Byte(x) \in Bytes
  BY DEF Byte, Bytes

\* A byte that is made of a small number is that number.
LEMMA ByteSame == \A x \in Bytes : Byte(x) = x
  BY DEF Byte, Bytes

LEMMA Division ==
  ASSUME NEW x \in Int
  PROVE  /\ Quot(x, 10) \in Int /\ Rem(x, 10) \in -9 .. 9
         /\ x = 10 * Quot(x, 10) + Rem(x, 10)
         /\ x \in -106 .. 460 => Quot(x, 10) \in -10 .. 46
         /\ x >= 0 => Rem(x, 10) \in 0 .. 9
  BY DEF Quot, Rem

LEMMA HalfType == \A x \in Int : Quot(x, 2) \in Int
  BY DEF Quot

\* A vector ends in zeros from a first place on, the one that Trim cuts at.
LEMMA TrimExists ==
  ASSUME NEW v \in Vectors
  PROVE  \E n \in 0 .. Len(v) : (n > 0 => v[n] # 0) /\ \A i \in n + 1 .. Len(v) : v[i] = 0
  <1> DEFINE T == {n \in 0 .. Len(v) : \A i \in n + 1 .. Len(v) : v[i] = 0}
  <1>1. Len(v) \in T /\ T \subseteq Nat
    BY DEF Vectors
  <1>2. PICK n \in T : \A k \in T : ~(k < n)
    BY <1>1, Smallest
  <1>3. ASSUME n > 0, v[n] = 0 PROVE FALSE
    <2>1. n - 1 \in 0 .. Len(v) /\ n - 1 < n
      BY <1>3, <1>1 DEF Vectors
    <2>2. \A i \in n .. Len(v) : v[i] = 0
      BY <1>3, <1>1 DEF Vectors
    <2>3. n - 1 \in T
      BY <2>1, <2>2, <1>1
    <2> QED BY <2>1, <2>3, <1>2
  <1> QED BY <1>2, <1>3

LEMMA TrimType == ASSUME NEW v \in Vectors PROVE Trim(v) \in Vectors
  <1> DEFINE n == CHOOSE n \in 0 .. Len(v) :
                    (n > 0 => v[n] # 0) /\ \A i \in n + 1 .. Len(v) : v[i] = 0
  <1>1. n \in 0 .. Len(v)
    BY TrimExists
  <1> HIDE DEF n
  <1>2. SubSeq(v, 1, n) \in Seq(Bytes)
    BY <1>1, SubSeqProperties DEF Vectors
  <1> QED BY <1>2 DEF Trim, n, Vectors

LEMMA HalveType == ASSUME NEW v \in Vectors PROVE Halve(v) \in Vectors
  <1> DEFINE h == [i \in 1 .. Len(v) |->
          Byte(Quot(v[i], 2) + IF i < Len(v) /\ Rem(v[i + 1], 2) # 0 THEN 5 ELSE 0)]
  <1>1. \A i \in 1 .. Len(v) : Quot(v[i], 2) \in Int
    BY Elements, HalfType
  <1>2. \A i \in 1 .. Len(v) : h[i] \in Bytes
    BY <1>1, ByteType
  <1>3. h \in Vectors
    BY <1>2 DEF Vectors
  <1> HIDE DEF h
  <1>4. Trim(h) \in Vectors
    BY <1>3, TrimType
  <1> QED BY <1>4 DEF Halve, h

LEMMA ResultType ==
  ASSUME NEW s, s.digits \in Vectors, s.carry \in Int PROVE Result(s) \in Vectors
  <1>1. Append(s.digits, Byte(s.carry)) \in Vectors
    BY ByteType DEF Vectors
  <1> QED BY <1>1, TrimType DEF Result

\* operator< never holds both ways.
LEMMA LessOneWay ==
  ASSUME NEW a \in Vectors, NEW b \in Vectors, Less(a, b)
  PROVE  ~Less(b, a)
  <1>1. ASSUME Len(a) = Len(b),
               NEW i \in 1 .. Len(a), a[i] < b[i], \A j \in i + 1 .. Len(a) : a[j] = b[j],
               NEW k \in 1 .. Len(b), b[k] < a[k], \A j \in k + 1 .. Len(b) : b[j] = a[j]
        PROVE  FALSE
    <2>1. a[i] \in Int /\ b[i] \in Int /\ a[k] \in Int /\ b[k] \in Int
      BY <1>1, Elements
    <2>2. CASE i < k
      BY <1>1, <2>1, <2>2
    <2>3. CASE k < i
      BY <1>1, <2>1, <2>3
    <2>4. CASE i = k
      BY <1>1, <2>1, <2>4
    <2> QED BY <2>2, <2>3, <2>4
  <1> QED BY <1>1 DEF Less, Vectors

------------------------------------------------------------------------------
(* Induction on numbers, up and down. *)

LEMMA Upwards ==
  ASSUME NEW S, 0 \in S, \A k \in Nat : k \in S => k + 1 \in S
  PROVE  Nat \subseteq S
  <1> SUFFICES ASSUME NEW n \in Nat \ S PROVE FALSE
    OBVIOUS
  <1>1. PICK m \in Nat \ S : \A k \in Nat \ S : ~(k < m)
    BY Smallest
  <1>2. m # 0 /\ m - 1 \in Nat
    BY <1>1
  <1>3. m - 1 \in S
    BY <1>1, <1>2
  <1> QED BY <1>1, <1>2, <1>3

LEMMA Downwards ==
  ASSUME NEW n \in Nat, NEW S, n \in S, \A k \in 0 .. n - 1 : k + 1 \in S => k \in S
  PROVE  0 .. n \subseteq S
  <1> DEFINE T == {i \in Nat : i > n \/ n - i \in S}
  <1>1. 0 \in T
    OBVIOUS
  <1>2. ASSUME NEW i \in Nat, i \in T PROVE i + 1 \in T
    <2>1. CASE i + 1 > n
      BY <2>1
    <2>2. CASE ~(i + 1 > n)
      <3>1. n - i \in S /\ n - (i + 1) \in 0 .. n - 1 /\ (n - (i + 1)) + 1 = n - i
        BY <1>2, <2>2
      <3> QED BY <3>1
    <2> QED BY <2>1, <2>2
  <1>3. Nat \subseteq T
    <2> HIDE DEF T
    <2> QED BY <1>1, <1>2, Upwards
  <1>4. ASSUME NEW k \in 0 .. n PROVE k \in S
    <2>1. n - k \in T /\ n - k \in Nat /\ n - (n - k) = k
      BY <1>3
    <2> QED BY <2>1
  <1> QED BY <1>4

------------------------------------------------------------------------------
(* What vectors are worth. *)

IsWorth(v, f) == f = [i \in 1 .. Len(v) + 1 |-> IF i > Len(v) THEN 0 ELSE v[i] + 10 * f[i + 1]]

Worth(v) == CHOOSE f : IsWorth(v, f)

\* What is left of Value without the lowest k digits.
Above(v, k) == IF k >= Len(v) THEN 0 ELSE Worth(v)[k + 1]

\* The recursion of Value has a solution.
LEMMA WorthExists == ASSUME NEW v \in Vectors PROVE IsWorth(v, Worth(v))
  <1> DEFINE n == Len(v)
             Partly(k, f) == f = [i \in k + 1 .. n + 1 |-> IF i > n THEN 0 ELSE v[i] + 10 * f[i + 1]]
             S == {k \in 0 .. n : \E f : Partly(k, f)}
  <1>0. n \in Nat
    BY Elements
  <1>1. n \in S
    <2> DEFINE f == [i \in n + 1 .. n + 1 |-> 0]
    <2>1. f = [i \in n + 1 .. n + 1 |-> IF i > n THEN 0 ELSE v[i] + 10 * f[i + 1]]
      BY <1>0
    <2> HIDE DEF f
    <2>2. \E g : Partly(n, g)
      BY <2>1
    <2> QED BY <2>2, <1>0
  <1>2. ASSUME NEW k \in 0 .. n - 1, k + 1 \in S PROVE k \in S
    <2>1. PICK f : Partly(k + 1, f)
      BY <1>2
    <2> DEFINE g == [i \in k + 1 .. n + 1 |-> IF i = k + 1 THEN v[i] + 10 * f[i + 1] ELSE f[i]]
    <2>2. \A i \in k + 1 .. n + 1 : g[i] = IF i > n THEN 0 ELSE v[i] + 10 * g[i + 1]
      <3> SUFFICES ASSUME NEW i \in k + 1 .. n + 1
                   PROVE  g[i] = IF i > n THEN 0 ELSE v[i] + 10 * g[i + 1]
        OBVIOUS
      <3>1. CASE i = k + 1
        BY <3>1, <1>0
      <3>2. CASE i # k + 1
        <4>1. i \in (k + 1) + 1 .. n + 1
          BY <3>2, <1>0
        <4>2. f[i] = IF i > n THEN 0 ELSE v[i] + 10 * f[i + 1]
          BY <2>1, <4>1
        <4>3. g[i] = f[i] /\ (~(i > n) => g[i + 1] = f[i + 1])
          BY <4>1, <1>0
        <4> QED BY <4>2, <4>3
      <3> QED BY <3>1, <3>2
    <2> HIDE DEF g
    <2>3. Partly(k, g)
      <3>1. g = [i \in k + 1 .. n + 1 |-> g[i]]
        BY DEF g
      <3> QED BY <2>2, <3>1
    <2> QED BY <2>3, <1>0
  <1>3. 0 \in S
    <2> HIDE DEF S
    <2>1. 0 .. n \subseteq S
      BY <1>0, <1>1, <1>2, Downwards
    <2> QED BY <2>1, <1>0
  <1>4. PICK f : Partly(0, f)
    BY <1>3
  <1>5. IsWorth(v, f)
    BY <1>4 DEF IsWorth
  <1> QED BY <1>5 DEF Worth

\* Value digit by digit.
LEMMA AboveStep ==
  ASSUME NEW v \in Vectors
  PROVE  /\ \A k \in Nat : Above(v, k) \in Int
         /\ \A k \in Nat : Above(v, k) = Digit(v, k + 1) + 10 * Above(v, k + 1)
         /\ \A k \in Nat : k >= Len(v) => Above(v, k) = 0
         /\ Value(v) = Above(v, 0)
  <1> DEFINE n == Len(v)
             f == Worth(v)
             S == {k \in 0 .. n : f[k + 1] \in Int}
  <1>0. n \in Nat /\ \A i \in 1 .. n : v[i] \in Int
    BY Elements
  <1>1. \A i \in 1 .. n + 1 : f[i] = IF i > n THEN 0 ELSE v[i] + 10 * f[i + 1]
    BY WorthExists DEF IsWorth
  <1>2. \A j \in 0 .. n : f[j + 1] \in Int
    <2>1. n \in S
      BY <1>0, <1>1
    <2>2. ASSUME NEW k \in 0 .. n - 1, k + 1 \in S PROVE k \in S
      BY <2>2, <1>0, <1>1
    <2> HIDE DEF S
    <2>3. 0 .. n \subseteq S
      BY <2>1, <2>2, <1>0, Downwards
    <2> QED BY <2>3 DEF S
  <1> HIDE DEF f
  <1>3. ASSUME NEW k \in Nat
        PROVE  Above(v, k) \in Int /\ Above(v, k) = Digit(v, k + 1) + 10 * Above(v, k + 1)
    <2>1. CASE k >= n
      BY <2>1, <1>0 DEF Above, Digit
    <2>2. CASE k < n
      <3>1. f[k + 1] \in Int /\ f[k + 2] \in Int
        <4>1. k \in 0 .. n /\ k + 1 \in 0 .. n /\ (k + 1) + 1 = k + 2
          BY <2>2, <1>0
        <4> QED BY <4>1, <1>2
      <3>2. f[k + 1] = v[k + 1] + 10 * f[k + 2]
        <4>1. k + 1 \in 1 .. n + 1 /\ ~(k + 1 > n) /\ (k + 1) + 1 = k + 2
          BY <2>2, <1>0
        <4> QED BY <4>1, <1>1
      <3>3. Above(v, k) = f[k + 1] /\ Digit(v, k + 1) = v[k + 1]
        BY <2>2, <1>0 DEF Above, Digit, f
      <3>4. Above(v, k + 1) = f[k + 2]
        <4>1. CASE k + 1 = n
          <5>1. f[k + 2] = 0
            BY <4>1, <1>0, <1>1
          <5> QED BY <4>1, <5>1, <1>0 DEF Above
        <4>2. CASE k + 1 < n
          BY <4>2, <1>0 DEF Above, f
        <4> QED BY <4>1, <4>2, <2>2, <1>0
      <3> QED BY <3>1, <3>2, <3>3, <3>4
    <2> QED BY <2>1, <2>2, <1>0
  <1>4. Value(v) = f[1]
    BY DEF Value, Worth, IsWorth, f
  <1>5. Value(v) = Above(v, 0)
    BY <1>0, <1>1, <1>4 DEF Above, f
  <1> QED BY <1>3, <1>5 DEF Above

\* Of two vectors only the digits count, from wherever they are the same.
Alike(u, m, v, l) == \A j \in Nat \ {0} : Digit(u, m + j) = Digit(v, l + j)

LEMMA SameDigits ==
  ASSUME NEW u \in Vectors, NEW v \in Vectors, NEW m \in Nat, NEW l \in Nat, Alike(u, m, v, l)
  PROVE  Above(u, m) = Above(v, l)
  <1> DEFINE n == Len(u) + Len(v)
             S == {k \in Nat : Above(u, m + k) = Above(v, l + k)}
  <1>0. n \in Nat /\ Len(u) \in Nat /\ Len(v) \in Nat
    BY Elements
  <1>1. n \in S
    <2>1. /\ m + n \in Nat /\ m + n >= Len(u)
          /\ l + n \in Nat /\ l + n >= Len(v)
      BY <1>0
    <2>2. Above(u, m + n) = 0 /\ Above(v, l + n) = 0
      BY <2>1, AboveStep
    <2> QED BY <2>2, <1>0
  <1>2. ASSUME NEW k \in 0 .. n - 1, k + 1 \in S PROVE k \in S
    <2>1. Digit(u, m + (k + 1)) = Digit(v, l + (k + 1))
      BY <1>0 DEF Alike
    <2>2. /\ m + k \in Nat /\ (m + k) + 1 = m + (k + 1)
          /\ l + k \in Nat /\ (l + k) + 1 = l + (k + 1)
      BY <1>0
    <2>3. Above(u, m + k) = Digit(u, m + (k + 1)) + 10 * Above(u, m + (k + 1))
      BY <2>2, AboveStep
    <2>4. Above(v, l + k) = Digit(v, l + (k + 1)) + 10 * Above(v, l + (k + 1))
      BY <2>2, AboveStep
    <2> QED BY <1>0, <1>2, <2>1, <2>3, <2>4
  <1>3. 0 .. n \subseteq S
    <2> HIDE DEF S
    <2> QED BY <1>0, <1>1, <1>2, Downwards
  <1>4. 0 \in S
    BY <1>0, <1>3
  <1> QED BY <1>4

LEMMA NoDigits == <<>> \in Vectors /\ Value(<<>>) = 0
  <1>1. <<>> \in Vectors
    BY DEF Vectors
  <1> QED BY <1>1, AboveStep

LEMMA OneDigit == ASSUME NEW x \in Bytes PROVE <<x>> \in Vectors /\ Value(<<x>>) = x
  <1>1. <<x>> \in Vectors /\ Len(<<x>>) = 1 /\ x \in Int
    BY DEF Vectors, Bytes
  <1>2. Digit(<<x>>, 0 + 1) = x
    BY <1>1 DEF Digit
  <1>4. Above(<<x>>, 0 + 1) = 0 /\ Value(<<x>>) = Above(<<x>>, 0)
    <2>1. 0 + 1 \in Nat /\ 0 + 1 >= Len(<<x>>)
      BY <1>1
    <2> QED BY <1>1, <2>1, AboveStep
  <1>3. Above(<<x>>, 0) = Digit(<<x>>, 0 + 1) + 10 * Above(<<x>>, 0 + 1)
    BY <1>1, AboveStep
  <1> QED BY <1>1, <1>2, <1>3, <1>4

\* Trim takes away zeros at the end, and nothing else.
LEMMA TrimDigits ==
  ASSUME NEW v \in Vectors
  PROVE  /\ \A i \in Nat \ {0} : Digit(Trim(v), i) = Digit(v, i)
         /\ Trim(v) # <<>> => Trim(v)[Len(Trim(v))] # 0
         /\ Value(Trim(v)) = Value(v)
         /\ Proper(v) => Plain(Trim(v))
  <1> DEFINE n == CHOOSE n \in 0 .. Len(v) :
                    (n > 0 => v[n] # 0) /\ \A i \in n + 1 .. Len(v) : v[i] = 0
  <1>1. n \in 0 .. Len(v) /\ (n > 0 => v[n] # 0) /\ \A i \in n + 1 .. Len(v) : v[i] = 0
    BY TrimExists
  <1>2. Trim(v) = SubSeq(v, 1, n)
    BY DEF Trim
  <1> HIDE DEF n
  <1>3. Len(v) \in Nat /\ v \in Seq(Bytes)
    BY Elements DEF Vectors
  <1>4. Len(Trim(v)) = n /\ \A i \in 1 .. n : Trim(v)[i] = v[i]
    BY <1>1, <1>2, <1>3
  <1>5. ASSUME NEW i \in Nat \ {0} PROVE Digit(Trim(v), i) = Digit(v, i)
    <2>1. CASE i <= n
      BY <2>1, <1>1, <1>3, <1>4 DEF Digit
    <2>2. CASE n < i /\ i <= Len(v)
      BY <2>2, <1>1, <1>3, <1>4 DEF Digit
    <2>3. CASE Len(v) < i
      BY <2>3, <1>1, <1>3, <1>4 DEF Digit
    <2> QED BY <2>1, <2>2, <2>3, <1>1, <1>3
  <1>6. Trim(v) \in Vectors
    BY TrimType
  <1>7. n > 0 => Trim(v)[n] # 0
    BY <1>1, <1>4
  <1>8. Trim(v) # <<>> => n > 0
    BY <1>4, <1>6, <1>1 DEF Vectors
  <1>9. Value(Trim(v)) = Value(v)
    <2>1. Alike(Trim(v), 0, v, 0)
      BY <1>5 DEF Alike
    <2>2. Above(Trim(v), 0) = Above(v, 0)
      BY <2>1, <1>6, SameDigits
    <2> QED BY <2>2, <1>6, AboveStep
  <1>10. Proper(v) => Proper(Trim(v))
    BY <1>1, <1>3, <1>4 DEF Proper
  <1> QED BY <1>1, <1>4, <1>5, <1>7, <1>8, <1>9, <1>10 DEF Plain

LEMMA AboveNat == ASSUME NEW v \in Vectors, Proper(v) PROVE \A k \in Nat : Above(v, k) \in Nat
  <1> DEFINE n == Len(v)
             S == {k \in Nat : Above(v, k) \in Nat}
  <1>0. n \in Nat
    BY Elements
  <1>1. \A k \in Nat : k >= n => k \in S
    BY AboveStep
  <1>2. ASSUME NEW k \in 0 .. n - 1, k + 1 \in S PROVE k \in S
    <2>1. Digit(v, k + 1) \in 0 .. 9
      BY <1>0 DEF Digit, Proper
    <2>2. Above(v, k) = Digit(v, k + 1) + 10 * Above(v, k + 1) /\ k \in Nat
      BY <1>0, AboveStep
    <2> QED BY <2>1, <2>2, <1>2
  <1>3. 0 .. n \subseteq S
    <2>1. n \in S
      BY <1>0, <1>1
    <2> HIDE DEF S
    <2> QED BY <2>1, <1>0, <1>2, Downwards
  <1> QED BY <1>0, <1>1, <1>3

\* A highest digit that is not zero makes all that is below it count.
LEMMA TopCounts ==
  ASSUME NEW v \in Vectors, Proper(v), Len(v) > 0, v[Len(v)] # 0
  PROVE  \A k \in 0 .. Len(v) - 1 : Above(v, k) >= 1
  <1> DEFINE n == Len(v) - 1
             S == {k \in Nat : Above(v, k) >= 1}
  <1>0. n \in Nat /\ n + 1 = Len(v) /\ Len(v) \in Nat
    BY Elements
  <1>1. n \in S
    <2>1. Above(v, n) = Digit(v, n + 1) + 10 * Above(v, n + 1)
      BY <1>0, AboveStep
    <2>2. Digit(v, n + 1) = v[Len(v)] /\ v[Len(v)] \in 0 .. 9
      BY <1>0 DEF Digit, Proper
    <2>3. Above(v, n + 1) = 0
      <3>1. n + 1 \in Nat /\ n + 1 >= Len(v)
        BY <1>0
      <3> QED BY <3>1, AboveStep
    <2> QED BY <2>1, <2>2, <2>3, <1>0
  <1>2. ASSUME NEW k \in 0 .. n - 1, k + 1 \in S PROVE k \in S
    <2>1. Digit(v, k + 1) \in 0 .. 9
      BY <1>0 DEF Digit, Proper
    <2>2. k \in Nat /\ k + 1 \in Nat
      BY <1>0
    <2>3. Above(v, k) = Digit(v, k + 1) + 10 * Above(v, k + 1) /\ Above(v, k + 1) \in Nat
      BY <2>2, AboveStep, AboveNat
    <2> QED BY <2>1, <2>2, <2>3, <1>2
  <1>3. 0 .. n \subseteq S
    <2> HIDE DEF S
    <2> QED BY <1>0, <1>1, <1>2, Downwards
  <1> QED BY <1>0, <1>3

------------------------------------------------------------------------------
(* operator<. *)

\* A number that is less from a digit on is less as a whole.
LEMMA StaysLess ==
  ASSUME NEW a \in Vectors, NEW b \in Vectors, Proper(a), Proper(b),
         NEW k \in Nat, Above(a, k) < Above(b, k)
  PROVE  Value(a) < Value(b)
  <1> DEFINE S == {j \in Nat : Above(a, j) < Above(b, j)}
  <1>1. ASSUME NEW j \in 0 .. k - 1, j + 1 \in S PROVE j \in S
    <2>1. j \in Nat /\ j + 1 \in Nat \ {0}
      OBVIOUS
    <2>2. Digit(a, j + 1) \in 0 .. 9 /\ Digit(b, j + 1) \in 0 .. 9
      BY <2>1, Elements DEF Digit, Proper
    <2>3. /\ Above(a, j) = Digit(a, j + 1) + 10 * Above(a, j + 1) /\ Above(a, j + 1) \in Int
          /\ Above(b, j) = Digit(b, j + 1) + 10 * Above(b, j + 1) /\ Above(b, j + 1) \in Int
      BY <2>1, AboveStep
    <2> QED BY <1>1, <2>1, <2>2, <2>3
  <1>2. 0 .. k \subseteq S
    <2>1. k \in S
      OBVIOUS
    <2> HIDE DEF S
    <2> QED BY <2>1, <1>1, Downwards
  <1>3. 0 \in S
    BY <1>2
  <1> QED BY <1>3, AboveStep

\* Without leading zeros what operator< calls less is less; but no digits and 0 are both zero.
LEMMA LessIsLess ==
  ASSUME NEW a \in Vectors, NEW b \in Vectors, Plain(a), Plain(b), Less(a, b)
  PROVE  a = <<>> \/ Value(a) < Value(b)
  <1>0. Len(a) \in Nat /\ Len(b) \in Nat /\ Proper(a) /\ Proper(b)
    BY Elements DEF Plain
  <1>1. ASSUME Len(a) < Len(b), Len(a) # 0 PROVE Value(a) < Value(b)
    <2>1. Len(b) > 1 /\ b[Len(b)] # 0 /\ Len(a) \in 0 .. Len(b) - 1
      BY <1>0, <1>1 DEF Plain
    <2>2. Above(b, Len(a)) >= 1
      BY <1>0, <2>1, TopCounts
    <2>3. Above(a, Len(a)) = 0 /\ Above(b, Len(a)) \in Int
      BY <1>0, AboveStep
    <2>4. Above(a, Len(a)) < Above(b, Len(a))
      BY <2>2, <2>3
    <2> QED BY <1>0, <2>4, StaysLess
  <1>2. ASSUME Len(a) = Len(b), NEW i \in 1 .. Len(a), a[i] < b[i],
               \A j \in i + 1 .. Len(a) : a[j] = b[j]
        PROVE  Value(a) < Value(b)
    <2>1. Alike(a, i, b, i)
      BY <1>0, <1>2 DEF Digit, Alike
    <2>3. i - 1 \in Nat /\ (i - 1) + 1 = i /\ i \in Nat
      BY <1>0
    <2>2. Above(a, i) = Above(b, i)
      BY <2>1, <2>3, SameDigits
    <2>4. /\ Above(a, i - 1) = Digit(a, i) + 10 * Above(a, i)
          /\ Above(b, i - 1) = Digit(b, i) + 10 * Above(b, i)
          /\ Above(a, i) \in Int
      BY <2>3, AboveStep
    <2>5. Digit(a, i) = a[i] /\ Digit(b, i) = b[i] /\ a[i] \in Int /\ b[i] \in Int
      BY <1>0, <1>2, Elements DEF Digit
    <2>6. Above(a, i - 1) < Above(b, i - 1)
      BY <1>2, <2>2, <2>4, <2>5
    <2> QED BY <1>0, <2>3, <2>6, StaysLess
  <1>3. Len(a) = 0 => a = <<>>
    BY DEF Vectors
  <1> QED BY <1>0, <1>1, <1>2, <1>3 DEF Less

\* Of two different vectors one is less.
LEMMA LessEither ==
  ASSUME NEW a \in Vectors, NEW b \in Vectors, ~Less(a, b), a # b
  PROVE  Less(b, a)
  <1>0. /\ Len(a) \in Nat /\ Len(b) \in Nat
        /\ \A i \in 1 .. Len(a) : a[i] \in Int
        /\ \A i \in 1 .. Len(b) : b[i] \in Int
    BY Elements
  <1>1. CASE Len(a) # Len(b)
    BY <1>0, <1>1 DEF Less
  <1>2. CASE Len(a) = Len(b)
    <2> DEFINE n == Len(a)
               T == {k \in Nat : k < n /\ a[n - k] # b[n - k]}
    <2>1. T # {}
      <3>1. PICK i \in 1 .. n : a[i] # b[i]
        BY <1>2, SeqEqual DEF Vectors
      <3>2. n - i \in Nat /\ n - i < n /\ n - (n - i) = i
        BY <1>0, <3>1
      <3>3. n - i \in T
        BY <3>1, <3>2
      <3> QED BY <3>3
    <2>2. PICK k \in T : \A j \in T : ~(j < k)
      <3>1. T \subseteq Nat
        OBVIOUS
      <3> HIDE DEF T
      <3> QED BY <2>1, <3>1, Smallest
    <2> DEFINE i == n - k
    <2>3. i \in 1 .. n /\ a[i] # b[i]
      BY <1>0, <2>2
    <2>4. ASSUME NEW j \in i + 1 .. n PROVE a[j] = b[j]
      <3>1. n - j \in Nat /\ n - j < k /\ n - j < n /\ n - (n - j) = j
        BY <1>0, <2>3
      <3>2. n - j \notin T
        BY <2>2, <3>1
      <3> QED BY <3>1, <3>2
    <2> HIDE DEF i
    <2>5. ~(a[i] < b[i])
      BY <1>2, <2>3, <2>4 DEF Less
    <2>6. b[i] < a[i]
      BY <1>0, <1>2, <2>3, <2>5
    <2> QED BY <1>2, <2>3, <2>4, <2>6 DEF Less
  <1> QED BY <1>1, <1>2

LEMMA NotLess ==
  ASSUME NEW a \in Vectors, NEW b \in Vectors, Plain(a), Plain(b), ~Less(a, b)
  PROVE  Value(a) >= Value(b) /\ Len(a) >= Len(b)
  <1>0. Len(a) \in Nat /\ Len(b) \in Nat /\ Value(a) \in Nat /\ Value(b) \in Nat
    BY Elements, AboveStep, AboveNat DEF Plain
  <1>1. CASE a = b
    BY <1>0, <1>1
  <1>2. CASE a # b
    <2>1. Less(b, a)
      BY <1>2, LessEither
    <2>2. b = <<>> \/ Value(b) < Value(a)
      BY <2>1, LessIsLess
    <2> QED BY <1>0, <2>1, <2>2, NoDigits DEF Less
  <1> QED BY <1>1, <1>2

\* A number below ten is one digit, or none.
LEMMA PlainSmall ==
  ASSUME NEW v \in Vectors, Plain(v), Value(v) < 10
  PROVE  v = <<Value(v)>> \/ (v = <<>> /\ Value(v) = 0)
  <1>0. Len(v) \in Nat /\ Proper(v) /\ v \in Seq(Bytes)
    BY Elements DEF Plain, Vectors
  <1>1. CASE Len(v) = 0
    BY <1>0, <1>1, NoDigits
  <1>2. CASE Len(v) = 1
    <2>1. v[1] \in Bytes /\ v = <<v[1]>>
      BY <1>0, <1>2
    <2>2. Value(<<v[1]>>) = v[1]
      BY <2>1, OneDigit
    <2> QED BY <2>1, <2>2
  <1>3. CASE Len(v) > 1
    <2>1. Above(v, 1) >= 1
      BY <1>0, <1>3, TopCounts DEF Plain
    <2>2. Value(v) = Digit(v, 1) + 10 * Above(v, 1) /\ Above(v, 1) \in Int
      <3>1. Above(v, 0) = Digit(v, 0 + 1) + 10 * Above(v, 0 + 1)
        BY AboveStep
      <3> QED BY <3>1, AboveStep
    <2>3. Digit(v, 1) \in 0 .. 9
      BY <1>0, <1>3 DEF Digit, Proper
    <2> QED BY <2>1, <2>2, <2>3
  <1> QED BY <1>0, <1>1, <1>2, <1>3

------------------------------------------------------------------------------
(* divide_by_2. *)

LEMMA HalfDigit ==
  ASSUME NEW x \in 0 .. 9
  PROVE  /\ Quot(x, 2) \in 0 .. 4 /\ Rem(x, 2) \in {0, 1}
         /\ x = 2 * Quot(x, 2) + Rem(x, 2) /\ Rem(x, 2) = x % 2
  BY DEF Quot, Rem

\* Halve halves, and drops the fraction.
LEMMA HalveHalves ==
  ASSUME NEW v \in Vectors, Proper(v)
  PROVE  /\ Plain(Halve(v))
         /\ Halve(v) # <<>> => Halve(v)[Len(Halve(v))] # 0
         /\ Value(v) \in Nat /\ Value(Halve(v)) \in Nat
         /\ \E odd \in {0, 1} : Value(v) = 2 * Value(Halve(v)) + odd
  <1> DEFINE n == Len(v)
             h == [i \in 1 .. n |->
                     Byte(Quot(v[i], 2) + IF i < n /\ Rem(v[i + 1], 2) # 0 THEN 5 ELSE 0)]
             odd(k) == Rem(Digit(v, k + 1), 2)
  <1>0. n \in Nat
    BY Elements
  <1>1. \A i \in Nat \ {0} : Digit(v, i) \in 0 .. 9
    BY <1>0 DEF Digit, Proper
  <1>2. \A k \in Nat : odd(k) \in {0, 1} /\ Digit(v, k + 1) = 2 * Quot(Digit(v, k + 1), 2) + odd(k)
                       /\ Quot(Digit(v, k + 1), 2) \in 0 .. 4
    BY <1>1, HalfDigit
  <1>3. ASSUME NEW k \in Nat, k < n
        PROVE  h[k + 1] = Quot(Digit(v, k + 1), 2) + 5 * odd(k + 1)
    <2>1. k + 1 \in 1 .. n /\ Digit(v, k + 1) = v[k + 1]
      BY <1>0, <1>3 DEF Digit
    <2>2. CASE k + 1 < n
      <3>1. Digit(v, (k + 1) + 1) = v[(k + 1) + 1]
        BY <1>0, <2>2 DEF Digit
      <3> DEFINE q == Quot(v[k + 1], 2)
                 r == Rem(v[(k + 1) + 1], 2)
      <3>2. h[k + 1] = Byte(q + IF r # 0 THEN 5 ELSE 0)
        BY <2>1, <2>2
      <3>3. q \in 0 .. 4 /\ r \in {0, 1}
        <4>1. v[k + 1] \in 0 .. 9 /\ v[(k + 1) + 1] \in 0 .. 9
          BY <1>0, <2>1, <2>2 DEF Proper
        <4> QED BY <4>1, HalfDigit
      <3>4. q + (IF r # 0 THEN 5 ELSE 0) = q + 5 * r /\ q + 5 * r \in Bytes
        BY <3>3 DEF Bytes
      <3> HIDE DEF h, q, r
      <3>5. h[k + 1] = q + 5 * r
        BY <3>2, <3>4, ByteSame
      <3> QED BY <3>5, <2>1, <3>1 DEF q, r
    <2>3. CASE k + 1 = n
      <3>1. Digit(v, (k + 1) + 1) = 0
        BY <1>0, <2>3 DEF Digit
      <3>2. odd(k + 1) = 0
        BY <3>1 DEF Rem, Quot
      <3>3. h[k + 1] = Byte(Quot(v[k + 1], 2) + 0)
        BY <2>1, <2>3
      <3>4. Quot(v[k + 1], 2) \in 0 .. 4
        BY <2>1, <1>2
      <3>5. Quot(v[k + 1], 2) + 0 \in Bytes
        BY <3>4 DEF Bytes
      <3> HIDE DEF h, odd
      <3>6. h[k + 1] = Quot(v[k + 1], 2)
        BY <3>3, <3>4, <3>5, ByteSame
      <3> QED BY <3>2, <3>4, <3>6, <2>1
    <2> QED BY <2>2, <2>3, <1>0, <1>3
  <1> HIDE DEF odd
  <1>4. \A k \in Nat : k < n => h[k + 1] \in 0 .. 9
    <2> TAKE k \in Nat
    <2> HAVE k < n
    <2>1. odd(k + 1) \in {0, 1} /\ Quot(Digit(v, k + 1), 2) \in 0 .. 4
      <3>1. k + 1 \in Nat
        OBVIOUS
      <3> QED BY <3>1, <1>2
    <2> HIDE DEF h
    <2>2. h[k + 1] = Quot(Digit(v, k + 1), 2) + 5 * odd(k + 1)
      BY <1>3
    <2> QED BY <2>1, <2>2
  <1>5. h \in Vectors /\ Len(h) = n /\ Proper(h)
    <2>1. \A i \in 1 .. n : h[i] \in 0 .. 9
      <3> TAKE i \in 1 .. n
      <3>1. i - 1 \in Nat /\ i - 1 < n /\ (i - 1) + 1 = i
        BY <1>0
      <3> HIDE DEF h
      <3> QED BY <1>4, <3>1
    <2>2. \A i \in 1 .. n : h[i] \in Bytes
      <3> HIDE DEF h
      <3> QED BY <2>1 DEF Bytes
    <2>3. h \in Seq(Bytes) /\ Len(h) = n
      BY <1>0, <2>2
    <2> HIDE DEF h
    <2> QED BY <2>1, <2>3 DEF Proper, Vectors
  <1>6. Halve(v) = Trim(h)
    BY DEF Halve
  <1> HIDE DEF h
  <1> DEFINE S == {k \in Nat : Above(v, k) = 2 * Above(h, k) + odd(k)}
  <1>7. n \in S
    <2>1. Above(v, n) = 0 /\ Above(h, n) = 0
      <3>1. n \in Nat /\ n >= Len(v) /\ n >= Len(h)
        BY <1>0, <1>5
      <3> HIDE DEF n
      <3> QED BY <3>1, <1>5, AboveStep
    <2>2. odd(n) = 0
      <3>1. Digit(v, n + 1) = 0
        BY <1>0 DEF Digit
      <3> QED BY <3>1 DEF odd, Rem, Quot
    <2> QED BY <1>0, <2>1, <2>2
  <1>8. ASSUME NEW k \in 0 .. n - 1, k + 1 \in S PROVE k \in S
    <2>1. k \in Nat /\ k < n /\ k + 1 \in Nat
      BY <1>0
    <2>2. Digit(h, k + 1) = Quot(Digit(v, k + 1), 2) + 5 * odd(k + 1)
      BY <1>0, <1>3, <1>5, <2>1 DEF Digit
    <2>3. /\ Above(v, k) = Digit(v, k + 1) + 10 * Above(v, k + 1)
          /\ Above(h, k) = Digit(h, k + 1) + 10 * Above(h, k + 1)
          /\ Above(h, k + 1) \in Int
      BY <1>5, <2>1, AboveStep
    <2>4. /\ odd(k) \in {0, 1} /\ odd(k + 1) \in {0, 1}
          /\ Digit(v, k + 1) = 2 * Quot(Digit(v, k + 1), 2) + odd(k)
          /\ Quot(Digit(v, k + 1), 2) \in 0 .. 4
      BY <1>2, <2>1
    <2>5. Above(v, k + 1) = 2 * Above(h, k + 1) + odd(k + 1)
      BY <1>8
    <2>6. Above(v, k) = 2 * Above(h, k) + odd(k)
      <3> DEFINE q == Quot(Digit(v, k + 1), 2)
      <3>1. q \in Int /\ odd(k) \in Int /\ odd(k + 1) \in Int
        BY <2>4
      <3>2. Above(v, k) = (2 * q + odd(k)) + 10 * (2 * Above(h, k + 1) + odd(k + 1))
        BY <2>3, <2>4, <2>5
      <3>3. Above(h, k) = (q + 5 * odd(k + 1)) + 10 * Above(h, k + 1)
        BY <2>2, <2>3
      <3> HIDE DEF q
      <3> QED BY <2>3, <3>1, <3>2, <3>3
    <2> QED BY <2>1, <2>6
  <1>9. 0 \in S
    <2> HIDE DEF S
    <2>1. 0 .. n \subseteq S
      BY <1>0, <1>7, <1>8, Downwards
    <2> QED BY <2>1, <1>0
  <1>10. Value(v) = Above(v, 0) /\ Value(Halve(v)) = Above(h, 0)
    BY <1>5, <1>6, AboveStep, TrimDigits
  <1>11. Above(v, 0) \in Nat /\ Above(h, 0) \in Nat
    BY <1>5, AboveNat
  <1>12. odd(0) \in {0, 1}
    BY <1>2
  <1> QED BY <1>5, <1>6, <1>9, <1>10, <1>11, <1>12, TrimDigits

------------------------------------------------------------------------------
(* Digit after digit. *)

\* What follows d is worth w times as much.
Weighs(d, w) == \A e \in Vectors : Value(d \o e) = Value(d) + w * Value(e)

LEMMA FirstDigit ==
  ASSUME NEW x \in Bytes, NEW e \in Vectors
  PROVE  <<x>> \o e \in Vectors /\ Value(<<x>> \o e) = x + 10 * Value(e)
  <1> DEFINE c == <<x>> \o e
  <1>0. e \in Seq(Bytes) /\ <<x>> \in Seq(Bytes) /\ Len(e) \in Nat /\ x \in Int
    BY DEF Vectors, Bytes
  <1>1. /\ c \in Vectors /\ Len(c) = 1 + Len(e) /\ c[1] = x
        /\ \A j \in 1 .. Len(e) : c[1 + j] = e[j]
    BY <1>0 DEF Vectors
  <1> HIDE DEF c
  <1>2. Alike(c, 1, e, 0) /\ Digit(c, 1) = x
    BY <1>0, <1>1 DEF Alike, Digit
  <1>3. Above(c, 1) = Above(e, 0)
    BY <1>1, <1>2, SameDigits
  <1>4. Above(c, 0) = Digit(c, 0 + 1) + 10 * Above(c, 0 + 1)
    BY <1>1, AboveStep
  <1>5. Value(c) = Above(c, 0) /\ Value(e) = Above(e, 0)
    BY <1>1, AboveStep
  <1>6. Value(c) = x + 10 * Value(e)
    BY <1>2, <1>3, <1>4, <1>5
  <1> QED BY <1>1, <1>6 DEF c

LEMMA WeighsNone == Weighs(<<>>, 1)
  <1>1. ASSUME NEW e \in Vectors PROVE Value(<<>> \o e) = Value(<<>>) + 1 * Value(e)
    <2>1. <<>> \o e = e /\ Value(e) \in Int
      BY AboveStep DEF Vectors
    <2> QED BY <2>1, NoDigits
  <1> QED BY <1>1 DEF Weighs

LEMMA WeighsMore ==
  ASSUME NEW d \in Vectors, NEW x \in Bytes, NEW w \in Nat, Weighs(d, w)
  PROVE  Value(Append(d, x)) = Value(d) + w * x /\ Weighs(Append(d, x), 10 * w)
  <1>0. d \in Seq(Bytes) /\ x \in Int /\ Value(d) \in Int
    BY AboveStep DEF Vectors, Bytes
  <1>1. Value(Append(d, x)) = Value(d) + w * x
    <2>1. Append(d, x) = d \o <<x>>
      BY <1>0
    <2> QED BY <2>1, OneDigit DEF Weighs
  <1>2. ASSUME NEW e \in Vectors
        PROVE  Value(Append(d, x) \o e) = Value(Append(d, x)) + (10 * w) * Value(e)
    <2>1. Append(d, x) \o e = d \o (<<x>> \o e)
      BY <1>0 DEF Vectors
    <2>2. Value(d \o (<<x>> \o e)) = Value(d) + w * (x + 10 * Value(e))
      BY FirstDigit DEF Weighs
    <2>3. Value(e) \in Int
      BY AboveStep
    <2>4. w * (x + 10 * Value(e)) = w * x + (10 * w) * Value(e)
      BY <1>0, <2>3
    <2> QED BY <1>0, <1>1, <2>1, <2>2, <2>3, <2>4
  <1> QED BY <1>1, <1>2 DEF Weighs

------------------------------------------------------------------------------
(* Powers of two. *)

LEMMA Divides ==
  ASSUME NEW n \in Nat, NEW d \in Nat, d > 0
  PROVE  n % d = 0 <=> \E k \in Nat : n = d * k
  <1>1. n = d * (n \div d) + (n % d) /\ n \div d \in Nat /\ n % d \in 0 .. d - 1
    OBVIOUS
  <1>2. ASSUME NEW k \in Nat, n = d * k PROVE n % d = 0
    <2> DEFINE q == n \div d
               r == n % d
    <2>1. d * (k - q) = r
      BY <1>1, <1>2
    <2>2. CASE k - q >= 1
      BY <1>1, <2>1, <2>2
    <2>3. CASE k - q <= -1
      BY <1>1, <2>1, <2>3
    <2>4. CASE k - q = 0
      BY <1>1, <2>1, <2>4
    <2> QED BY <1>1, <2>2, <2>3, <2>4
  <1>3. n % d = 0 => \E k \in Nat : n = d * k
    BY <1>1
  <1> QED BY <1>2, <1>3

LEMMA OneIsPower == PowerOfTwo(1)
  BY DEF PowerOfTwo

LEMMA TwiceIsPower ==
  ASSUME NEW n \in Nat, PowerOfTwo(n) PROVE PowerOfTwo(2 * n)
  <1>1. n > 0 /\ \A d \in 2 .. n : n % d = 0 => d % 2 = 0
    BY DEF PowerOfTwo
  <1>2. ASSUME NEW d \in 2 .. 2 * n, (2 * n) % d = 0, d % 2 # 0 PROVE FALSE
    <2>0. d \in Nat /\ d > 0 /\ 2 * n \in Nat
      OBVIOUS
    <2>1. PICK k \in Nat : 2 * n = d * k
      BY <2>0, <1>2, Divides
    <2> DEFINE e == d \div 2
               j == n - e * k
    <2>2. d = 2 * e + 1 /\ e \in Nat /\ j \in Int
      BY <1>2
    <2> HIDE DEF e
    <2>3. (2 * e + 1) * k = 2 * (e * k) + k
      BY <2>2
    <2>4. k = 2 * j
      BY <2>1, <2>2, <2>3
    <2>5. j \in Nat
      BY <2>2, <2>4
    <2> HIDE DEF j
    <2>6. n = d * j
      <3>1. d * k = 2 * (d * j)
        BY <2>4, <2>5
      <3>2. d * j \in Int
        BY <2>5
      <3> QED BY <2>1, <3>1, <3>2
    <2>7. j # 0
      BY <1>1, <2>6
    <2>8. d <= n
      BY <2>5, <2>6, <2>7
    <2>9. n % d = 0
      BY <2>5, <2>6, Divides
    <2> QED BY <1>1, <1>2, <2>8, <2>9
  <1> QED BY <1>1, <1>2 DEF PowerOfTwo

LEMMA HalfIsPower ==
  ASSUME NEW n \in Nat, PowerOfTwo(n), n > 1
  PROVE  \E h \in Nat : n = 2 * h /\ PowerOfTwo(h)
  <1>1. \A d \in 2 .. n : n % d = 0 => d % 2 = 0
    BY DEF PowerOfTwo
  <1>2. n % n = 0
    <2>1. n = n * 1
      OBVIOUS
    <2> QED BY <2>1, Divides
  <1>3. n % 2 = 0
    BY <1>1, <1>2
  <1>4. PICK h \in Nat : n = 2 * h
    BY <1>3
  <1>5. ASSUME NEW d \in 2 .. h, h % d = 0 PROVE d % 2 = 0
    <2>0. d \in Nat /\ d > 0
      OBVIOUS
    <2>1. PICK k \in Nat : h = d * k
      BY <2>0, <1>5, Divides
    <2>2. n = d * (2 * k)
      BY <1>4, <2>1
    <2>3. n % d = 0
      BY <2>2, Divides
    <2> QED BY <1>1, <1>4, <2>3
  <1> QED BY <1>4, <1>5 DEF PowerOfTwo

\* There is no other power of two before the next.
LEMMA PowersApart ==
  ASSUME NEW b \in Nat, NEW p \in Nat, PowerOfTwo(b), PowerOfTwo(p), b <= p, p < 2 * b
  PROVE  b = p
  <1> DEFINE Apart(n) == \A m \in Nat : PowerOfTwo(n) /\ PowerOfTwo(m) /\ n <= m /\ m < 2 * n => n = m
             T == {n \in Nat : ~Apart(n)}
  <1> SUFFICES ASSUME T # {} PROVE FALSE
    OBVIOUS
  <1>1. PICK n \in T : \A k \in T : ~(k < n)
    BY Smallest
  <1>2. PICK m \in Nat : PowerOfTwo(n) /\ PowerOfTwo(m) /\ n <= m /\ m < 2 * n /\ n # m
    BY <1>1
  <1>3. n \in Nat /\ n > 1 /\ m > 1
    BY <1>1, <1>2 DEF PowerOfTwo
  <1>4. PICK h \in Nat : n = 2 * h /\ PowerOfTwo(h)
    BY <1>2, <1>3, HalfIsPower
  <1>5. PICK i \in Nat : m = 2 * i /\ PowerOfTwo(i)
    BY <1>2, <1>3, HalfIsPower
  <1>6. h <= i /\ i < 2 * h /\ h # i /\ h < n
    BY <1>2, <1>3, <1>4, <1>5
  <1>7. h \in T
    BY <1>4, <1>5, <1>6
  <1> QED BY <1>1, <1>6, <1>7
=============================================================================
