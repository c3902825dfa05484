------------------------ MODULE Ydc_arithmetic_proofs ------------------------
(***************************************************************************)
(* Proofs about Ydc, for any numbers of any length: that the loops of      *)
(* operator* keep the product, what the sums, differences, products and    *)
(* powers come to, and that no loop but pow's runs forever.                *)
(***************************************************************************)
EXTENDS Ydc_proofs

------------------------------------------------------------------------------
(* The loops of operator+ and operator-. *)

\* What the digits from the k-th on are worth together.
Ahead(s, k) ==
  IF s.op = "-" THEN Above(s.a, k) - Above(s.b, k) ELSE Above(s.a, k) + Above(s.b, k)

\* What is read and what is ahead is the whole, and what is made is worth its digits.
Counts ==
  /\ sum.op \in {"+", "-"} /\ sum.cnt <= LastDigit(sum)
  /\ Weighs(sum.digits, tally.weight) /\ tally.weight > 0
  /\ tally.made = Value(sum.digits)
  /\ tally.seen + tally.weight * Ahead(sum, sum.cnt) = Ahead(sum, 0)

\* Decimal digits make decimal digits, and a carry that is 0 or 1.
Decimal ==
  Proper(sum.a) /\ Proper(sum.b) =>
    /\ Proper(sum.digits) /\ 0 <= tally.made /\ tally.made < tally.weight
    /\ sum.op = "+" =>
         /\ sum.carry \in 0 .. 1
         /\ sum.cnt > 0 => sum.digits[sum.cnt] + 10 * sum.carry
                             >= Digit(sum.a, sum.cnt) + Digit(sum.b, sum.cnt)

SumWorks == pc = "digits" =>
  /\ Counts /\ Decimal
  /\ sum.op = "-" => ~Less(sum.a, sum.b)

------------------------------------------------------------------------------
(* The loops of operator*. *)

Numerals(m) ==
  /\ Plain(m.big) /\ Plain(m.small) /\ Plain(m.power)
  /\ Plain(m.tmpBig) /\ Plain(m.tmpSmall) /\ Plain(m.result)

\* The operands of which operator* ends the program.
Hopeless(m) == Value(m.small) = 0 \/ PowerOfTwo(Value(m.big))

\* A power of two, and the multiple of the smaller operand.
Multiple(m) ==
  /\ m.power # <<>> /\ PowerOfTwo(Value(m.power))
  /\ Value(m.tmpSmall) = Value(m.power) * Value(m.small)

\* The power is the first one that is not less than the larger operand.
Up(m) ==
  /\ Numerals(m) /\ m.tmpBig = m.big /\ m.result = <<>> /\ Multiple(m)
  /\ m.power = <<1>> \/ Value(m.power) < 2 * Value(m.big)
  /\ m.tmpSmall # <<>> => m.big # <<>>

\* Its multiple is still to be doubled.
HalfUp(m) ==
  /\ Numerals(m) /\ m.tmpBig = m.big /\ m.result = <<>>
  /\ m.power # <<>> /\ PowerOfTwo(Value(m.power))
  /\ 2 * Value(m.tmpSmall) = Value(m.power) * Value(m.small)
  /\ Value(m.power) < 2 * Value(m.big)

Kept(m) == Value(m.result) + Value(m.tmpBig) * Value(m.small) = Value(m.big) * Value(m.small)

\* What is left of the larger operand is below k times the power, and is all of it if the
\* operand was a power itself.
LeftOver(m, k) ==
  IF Value(m.small) = 0 THEN m.tmpBig # <<>>
  ELSE IF PowerOfTwo(Value(m.big)) THEN Value(m.tmpBig) = k * Value(m.power)
  ELSE Value(m.tmpBig) < k * Value(m.power) /\ (m.tmpBig # <<>> => Value(m.tmpBig) > 0)

\* Where the power is halved away.
Spent(m) ==
  /\ m.power = <<>>
  /\ IF Value(m.small) = 0 THEN m.tmpBig # <<>>
     ELSE m.tmpBig = IF PowerOfTwo(Value(m.big)) THEN <<1>> ELSE <<>>

Down(m) ==
  /\ Numerals(m) /\ Kept(m)
  /\ Value(m.small) = 0 => m.tmpSmall = <<>>
  /\ (Multiple(m) /\ LeftOver(m, 2)) \/ Spent(m)

\* The power's multiple is added up, the power is still to be taken.
HalfDown(m) ==
  /\ Numerals(m)
  /\ \/ /\ Multiple(m) /\ LeftOver(m, 2)
        /\ Value(m.result) + (Value(m.tmpBig) - Value(m.power)) * Value(m.small)
             = Value(m.big) * Value(m.small)
        /\ Value(m.small) = 0 => m.tmpSmall = <<>>
     \/ m.power = <<>> /\ Hopeless(m)

\* Before a halving, which goes on only if the other operands can be multiplied.
Level(m) ==
  /\ Numerals(m)
  /\ \/ Hopeless(m) /\ <<>> \in {m.power, m.tmpSmall}
     \/ Multiple(m) /\ LeftOver(m, 1) /\ Kept(m)

Serves(a, b) == sum.op = "+" /\ sum.a = a /\ sum.b = b

ProductWorks ==
  Plain(mul.big) /\ Plain(mul.small) =>
    /\ pc = "up" => Up(mul)
    /\ pc = "down" => Down(mul)
    /\ pc = "digits" /\ sum.to = "power" =>
         /\ Serves(mul.power, mul.power)
         /\ Up(mul) /\ Value(mul.power) < Value(mul.big)
    /\ pc = "digits" /\ sum.to = "small" => Serves(mul.tmpSmall, mul.tmpSmall) /\ HalfUp(mul)
    /\ pc = "digits" /\ sum.to = "result" =>
         Serves(mul.result, mul.tmpSmall) /\ Down(mul) /\ mul.tmpBig # <<>>
    /\ pc = "digits" /\ sum.to = "big" =>
         sum.op = "-" /\ sum.a = mul.tmpBig /\ sum.b = mul.power /\ HalfDown(mul)

------------------------------------------------------------------------------
(* What the loops work for. *)

Asked == IF call.oper = "+" THEN Plus(call.left, call.right) ELSE Minus(call.left, call.right)
Smaller == IF Less(call.left.mag, call.right.mag) THEN call.left.mag ELSE call.right.mag

Multiplies == pc \in {"up", "down"} \/ (pc = "digits" /\ sum.to # "bigint")

\* The exponent that pow starts with.
Unsigned(n) == IF Below(n, Small(0)) THEN [n EXCEPT !.neg = ~@] ELSE n

CallWorks ==
  /\ pc = "digits" /\ sum.to = "bigint" =>
       /\ call.oper \in {"+", "-"} /\ call.neg = Asked.neg
       /\ sum.op = Asked.op /\ sum.a = Asked.a /\ sum.b = Asked.b
  /\ Multiplies => call.oper \in {"*", "^"} /\ ~Less(mul.big, mul.small)
  /\ Multiplies /\ call.oper = "*" =>
       /\ mul.big = Larger /\ mul.small = Smaller
       /\ call.neg = (call.left.neg # call.right.neg)
  /\ pc = "pow" => call.oper = "^"
  /\ Multiplies \/ pc = "pow" =>
       (call.oper = "^" => power.exponent \in {Small(2), Unsigned(call.right)})

------------------------------------------------------------------------------
(* Sums and differences. *)

LEMMA AheadStep ==
  ASSUME SumsFine, NEW k \in Nat
  PROVE  /\ Ahead(sum, k) \in Int /\ Ahead(sum, k + 1) \in Int
         /\ LET d == Digit(sum.a, k + 1)
                e == Digit(sum.b, k + 1)
            IN  Ahead(sum, k) = (IF sum.op = "-" THEN d - e ELSE d + e) + 10 * Ahead(sum, k + 1)
  <1>1. sum.a \in Vectors /\ sum.b \in Vectors /\ k + 1 \in Nat /\ k + 1 \in Nat \ {0}
    BY SumFields
  <1>2. /\ Above(sum.a, k) = Digit(sum.a, k + 1) + 10 * Above(sum.a, k + 1)
        /\ Above(sum.b, k) = Digit(sum.b, k + 1) + 10 * Above(sum.b, k + 1)
        /\ Above(sum.a, k + 1) \in Int /\ Above(sum.b, k + 1) \in Int
    BY <1>1, AboveStep
  <1>3. Digit(sum.a, k + 1) \in Int /\ Digit(sum.b, k + 1) \in Int
    BY <1>1, DigitType
  <1> QED BY <1>2, <1>3 DEF Ahead

\* A loop starts with everything ahead of it.
LEMMA SumBegins ==
  ASSUME NEW op \in {"+", "-"}, NEW a \in Vectors, NEW b \in Vectors, NEW to \in Takers,
         op = "-" => ~Less(a, b), StartSum(op, a, b, to)
  PROVE  /\ pc' = "digits" /\ outcome' = outcome /\ SumWorks'
         /\ sum'.op = op /\ sum'.a = a /\ sum'.b = b /\ sum'.to = to
  <1>1. /\ pc' = "digits" /\ outcome' = outcome
        /\ sum' = Loop(op, a, b, to) /\ tally' = NoTally
    BY DEF StartSum
  <1>2. /\ sum'.op = op /\ sum'.a = a /\ sum'.b = b /\ sum'.to = to
        /\ sum'.cnt = 0 /\ sum'.carry = 0 /\ sum'.digits = <<>>
        /\ tally'.weight = 1 /\ tally'.seen = 0 /\ tally'.made = 0
    BY <1>1 DEF Loop, NoTally
  <1>3. Len(a) \in Nat /\ Len(b) \in Nat
    BY Elements
  <1>4. Above(a, 0) \in Int /\ Above(b, 0) \in Int
    BY AboveStep
  <1>5. Ahead(sum', 0) \in Int
    BY <1>2, <1>4 DEF Ahead
  <1>6. 0 <= LastDigit(sum')
    BY <1>2, <1>3 DEF LastDigit
  <1>7. Counts'
    BY <1>2, <1>5, <1>6, NoDigits, WeighsNone DEF Counts
  <1>8. Decimal'
    BY <1>2 DEF Decimal, Proper
  <1> QED BY <1>1, <1>2, <1>7, <1>8 DEF SumWorks

\* An iteration takes a digit from ahead, and makes one.
LEMMA CountsOn ==
  ASSUME SumsFine, Counts, sum.cnt < LastDigit(sum), NEW d \in Bytes, NEW q \in -10 .. 46,
         NEW x \in Int, Makes(x, d, q),
         x = LET e == Digit(sum.a, sum.cnt + 1)
                 f == Digit(sum.b, sum.cnt + 1)
             IN  IF sum.op = "-" THEN e - f ELSE e + f
  PROVE  Counts'
  <1> DEFINE w == tally.weight
             k == sum.cnt
  <1>1. /\ sum.cnt \in Nat /\ tally.weight \in Nat /\ tally.seen \in Int /\ tally.made \in Int
        /\ sum.digits \in Vectors /\ Len(sum.a) \in Nat /\ Len(sum.b) \in Nat /\ d \in Int
    BY SumFields, Elements DEF Bytes
  <1>2. /\ sum'.op = sum.op /\ sum'.a = sum.a /\ sum'.b = sum.b /\ sum'.cnt = sum.cnt + 1
        /\ sum'.digits = Append(sum.digits, d)
        /\ tally'.weight = 10 * tally.weight
        /\ tally'.seen = tally.seen + tally.weight * x
        /\ tally'.made = tally.made + tally.weight * d
    BY MakesFields
  <1>3. /\ Weighs(sum'.digits, tally'.weight) /\ tally'.weight > 0
        /\ tally'.made = Value(sum'.digits)
    <2>1. Weighs(sum.digits, tally.weight) /\ tally.made = Value(sum.digits) /\ tally.weight > 0
      BY DEF Counts
    <2>2. /\ Value(Append(sum.digits, d)) = Value(sum.digits) + tally.weight * d
          /\ Weighs(Append(sum.digits, d), 10 * tally.weight)
      BY <1>1, <2>1, WeighsMore
    <2>3. 10 * tally.weight > 0
      BY <1>1, <2>1
    <2> QED BY <1>2, <2>1, <2>2, <2>3
  <1>4. LastDigit(sum) \in Nat /\ LastDigit(sum') = LastDigit(sum) /\ sum'.cnt <= LastDigit(sum')
    BY <1>1, <1>2 DEF LastDigit
  <1>5. tally'.seen + tally'.weight * Ahead(sum', sum'.cnt) = Ahead(sum', 0)
    <2> DEFINE rest == Ahead(sum, k + 1)
    <2>1. Ahead(sum', sum'.cnt) = Ahead(sum, k + 1) /\ Ahead(sum', 0) = Ahead(sum, 0)
      BY <1>2 DEF Ahead
    <2>2. rest \in Int /\ Ahead(sum, k) = x + 10 * rest
      BY <1>1, AheadStep
    <2>3. tally.seen + w * Ahead(sum, k) = Ahead(sum, 0)
      BY DEF Counts
    <2>4. w \in Int
      BY <1>1
    <2> HIDE DEF rest, w
    <2>5. w * (x + 10 * rest) = w * x + (10 * w) * rest
      BY <2>2, <2>4
    <2> DEFINE wx == w * x
               wr == (10 * w) * rest
    <2>6. wx \in Int /\ wr \in Int
      BY <2>2, <2>4
    <2>7. tally.seen + (wx + wr) = Ahead(sum, 0)
      BY <2>2, <2>3, <2>5
    <2> HIDE DEF wx, wr
    <2>8. (tally.seen + wx) + wr = Ahead(sum, 0)
      BY <1>1, <2>6, <2>7
    <2> QED BY <1>2, <2>1, <2>8 DEF wx, wr, rest, w
  <1>6. sum'.op \in {"+", "-"}
    BY <1>2 DEF Counts
  <1> QED BY <1>3, <1>4, <1>5, <1>6 DEF Counts

LEMMA OneMoreDigit ==
  ASSUME NEW w \in Nat, NEW made \in Int, 0 <= made, made < w, NEW d \in 0 .. 9
  PROVE  0 <= made + w * d /\ made + w * d < 10 * w
  <1>1. w * d \in Int /\ 0 <= w * d /\ w * d <= w * 9
    OBVIOUS
  <1> DEFINE wd == w * d
  <1>2. wd \in Int /\ 0 <= wd /\ wd <= w * 9
    BY <1>1
  <1> HIDE DEF wd
  <1>3. 0 <= made + wd /\ made + wd < 10 * w
    BY <1>2
  <1> QED BY <1>3 DEF wd

\* A decimal digit is made of decimal digits.
LEMMA DecimalOn ==
  ASSUME SumsFine, Decimal, NEW d \in Bytes, NEW q \in -10 .. 46, NEW x \in Int, Makes(x, d, q),
         Proper(sum.a) /\ Proper(sum.b) =>
           /\ d \in 0 .. 9
           /\ sum.op = "+" => /\ q \in 0 .. 1
                              /\ d + 10 * q >= Digit(sum.a, sum.cnt + 1) + Digit(sum.b, sum.cnt + 1)
  PROVE  Decimal'
  <1>1. /\ sum.cnt \in Nat /\ tally.weight \in Nat /\ tally.made \in Int /\ Len(sum.digits) = sum.cnt
        /\ sum.digits \in Vectors
    BY SumFields
  <1>2. /\ sum'.op = sum.op /\ sum'.a = sum.a /\ sum'.b = sum.b /\ sum'.cnt = sum.cnt + 1
        /\ sum'.digits = Append(sum.digits, d) /\ sum'.carry = q /\ sum'.digits[sum.cnt + 1] = d
        /\ tally'.weight = 10 * tally.weight
        /\ tally'.made = tally.made + tally.weight * d
    BY MakesFields
  <1>3. ASSUME Proper(sum.a), Proper(sum.b)
        PROVE  Proper(sum'.digits) /\ 0 <= tally'.made /\ tally'.made < tally'.weight
    <2>1. Proper(sum.digits) /\ 0 <= tally.made /\ tally.made < tally.weight /\ d \in 0 .. 9
      BY <1>3 DEF Decimal
    <2>2. Proper(Append(sum.digits, d))
      <3>1. sum.digits \in Seq(Bytes)
        BY <1>1 DEF Vectors
      <3> QED BY <2>1, <3>1 DEF Proper
    <2>3. 0 <= tally.made + tally.weight * d /\ tally.made + tally.weight * d < 10 * tally.weight
      BY <1>1, <2>1, OneMoreDigit
    <2> QED BY <1>2, <2>2, <2>3
  <1> QED BY <1>2, <1>3 DEF Decimal

LEMMA PlusWorks == ASSUME SumsFine, SumWorks, PlusDigit PROVE SumWorks'
  <1> DEFINE e == Digit(sum.a, sum.cnt + 1)
             f == Digit(sum.b, sum.cnt + 1)
             x == e + f
  <1>1. pc = "digits" /\ pc' = "digits" /\ sum.op = "+" /\ sum.cnt < LastDigit(sum)
    BY DEF PlusDigit, InLoop
  <1>2. Counts /\ Decimal
    BY <1>1 DEF SumWorks
  <1>3. PICK q, d \in Int :
          /\ Makes(x, d, q) /\ x \in Int /\ q \in -10 .. 46 /\ d \in Bytes
          /\ x + sum.carry = 10 * q + d
          /\ x + sum.carry >= 0 => d \in 0 .. 9
    BY PlusMakes
  <1>4. Proper(sum.a) /\ Proper(sum.b) => d \in 0 .. 9 /\ q \in 0 .. 1 /\ d + 10 * q >= e + f
    <2> SUFFICES ASSUME Proper(sum.a), Proper(sum.b)
                 PROVE  d \in 0 .. 9 /\ q \in 0 .. 1 /\ d + 10 * q >= e + f
      OBVIOUS
    <2>1. e \in 0 .. 9 /\ f \in 0 .. 9
      BY SumFields, DigitType
    <2>2. sum.carry \in 0 .. 1
      BY <1>1, <1>2 DEF Decimal
    <2>3. (e + f) + sum.carry = 10 * q + d /\ ((e + f) + sum.carry >= 0 => d \in 0 .. 9)
      BY <1>3
    <2> HIDE DEF e, f
    <2> QED BY <2>1, <2>2, <2>3
  <1>5. x = IF sum.op = "-" THEN e - f ELSE e + f
    BY <1>1
  <1> HIDE DEF x
  <1>6. Counts'
    BY <1>1, <1>2, <1>3, <1>5, CountsOn
  <1>7. Decimal'
    BY <1>2, <1>3, <1>4, DecimalOn
  <1>8. sum'.op = "+"
    BY <1>1, <1>3, MakesFields
  <1> QED BY <1>6, <1>7, <1>8 DEF SumWorks

LEMMA MinusWorks == ASSUME SumsFine, SumWorks, MinusDigit PROVE SumWorks'
  <1> DEFINE e == Digit(sum.a, sum.cnt + 1)
             f == Digit(sum.b, sum.cnt + 1)
             x == e - f
  <1>1. pc = "digits" /\ pc' = "digits" /\ sum.op = "-" /\ sum.cnt < LastDigit(sum)
    BY DEF MinusDigit, InLoop
  <1>2. Counts /\ Decimal /\ ~Less(sum.a, sum.b)
    BY <1>1 DEF SumWorks
  <1>3. PICK q \in -1 .. 0, d \in Bytes :
          /\ Makes(x, d, q) /\ x \in Int
          /\ Proper(sum.a) /\ Proper(sum.b) => d \in 0 .. 9
    BY MinusMakes
  <1>4. q \in -10 .. 46
    OBVIOUS
  <1>5. x = IF sum.op = "-" THEN e - f ELSE e + f
    BY <1>1
  <1> HIDE DEF x
  <1>6. Counts'
    BY <1>1, <1>2, <1>3, <1>4, <1>5, CountsOn
  <1>7. Decimal'
    BY <1>1, <1>2, <1>3, <1>4, DecimalOn
  <1>8. sum'.a = sum.a /\ sum'.b = sum.b
    BY <1>3, <1>4, MakesFields
  <1> QED BY <1>2, <1>6, <1>7, <1>8 DEF SumWorks

\* What a sum comes to, by the time its digits are done.
LEMMA SumSeen ==
  ASSUME SumsFine, SumWorks, pc = "digits", sum.cnt = LastDigit(sum), Plain(sum.a), Plain(sum.b)
  PROVE  /\ tally.seen = IF sum.op = "-" THEN Value(sum.a) - Value(sum.b)
                                         ELSE Value(sum.a) + Value(sum.b)
         /\ sum.cnt >= Len(sum.a) /\ sum.cnt >= Len(sum.b) /\ sum.cnt \in {Len(sum.a), Len(sum.b)}
  <1>1. /\ Counts /\ sum.a \in Vectors /\ sum.b \in Vectors /\ sum.op \in {"+", "-"}
        /\ sum.cnt \in Nat /\ tally.weight \in Nat /\ tally.seen \in Int
    BY SumFields DEF SumWorks, Counts
  <1>2. Len(sum.a) \in Nat /\ Len(sum.b) \in Nat
    BY <1>1, Elements
  <1>3. /\ sum.cnt >= Len(sum.a) /\ sum.cnt >= Len(sum.b)
        /\ sum.cnt \in {Len(sum.a), Len(sum.b)}
    <2>1. CASE sum.op = "-"
      <3>1. Len(sum.a) >= Len(sum.b)
        BY <1>1, <2>1, NotLess DEF SumWorks
      <3> QED BY <1>2, <2>1, <3>1 DEF LastDigit
    <2>2. CASE sum.op = "+"
      BY <1>2, <2>2 DEF LastDigit
    <2> QED BY <1>1, <2>1, <2>2
  <1>4. /\ Above(sum.a, sum.cnt) = 0 /\ Above(sum.b, sum.cnt) = 0
        /\ Above(sum.a, 0) = Value(sum.a) /\ Above(sum.b, 0) = Value(sum.b)
    BY <1>1, <1>3, AboveStep
  <1>5. Ahead(sum, sum.cnt) = 0
    BY <1>4 DEF Ahead
  <1>6. tally.seen = Ahead(sum, 0)
    <2>1. tally.seen + tally.weight * 0 = Ahead(sum, 0)
      BY <1>1, <1>5 DEF Counts
    <2>2. tally.weight * 0 = 0
      BY <1>1
    <2> QED BY <1>1, <2>1, <2>2
  <1> QED BY <1>3, <1>4, <1>6 DEF Ahead

LEMMA Lean ==
  ASSUME NEW v \in Vectors, Proper(v), v # <<>>, v[Len(v)] # 0 PROVE Value(v) > 0
  <1>1. Len(v) \in Nat /\ Len(v) > 0
    BY DEF Vectors
  <1>2. Above(v, 0) >= 1
    BY <1>1, TopCounts
  <1> QED BY <1>2, AboveStep

\* A sum of numbers without leading zeros is right, and has none; a difference has not
\* even one that is its only digit.
LEMMA SumReturns ==
  ASSUME SumsFine, SumWorks, pc = "digits", sum.cnt = LastDigit(sum), Plain(sum.a), Plain(sum.b)
  PROVE  /\ Result(sum) \in Vectors /\ Plain(Result(sum))
         /\ Value(Result(sum)) = IF sum.op = "-" THEN Value(sum.a) - Value(sum.b)
                                                 ELSE Value(sum.a) + Value(sum.b)
         /\ sum.op = "-" /\ Result(sum) # <<>> => Value(Result(sum)) > 0
  <1>1. /\ sum.a \in Vectors /\ sum.b \in Vectors /\ sum.digits \in Vectors
        /\ Len(sum.digits) = sum.cnt /\ sum.cnt \in Nat
        /\ tally.weight \in Nat /\ tally.seen \in Int /\ tally.made \in Int /\ sum.carry \in Int
    BY SumFields
  <1>2. Proper(sum.a) /\ Proper(sum.b)
    BY DEF Plain
  <1>3. /\ Counts /\ sum.op \in {"+", "-"} /\ tally.made = Value(sum.digits)
        /\ Proper(sum.digits) /\ 0 <= tally.made /\ tally.made < tally.weight
    BY <1>2 DEF SumWorks, Counts, Decimal
  <1>4. tally.made + tally.weight * sum.carry = tally.seen
    BY <1>2 DEF SumsFine, DigitsAddUp
  <1>5. Result(sum) \in Vectors
    BY <1>1, ResultType
  <1>6. CASE sum.op = "-"
    <2>1. Value(sum.a) >= Value(sum.b) /\ Value(sum.a) \in Int /\ Value(sum.b) \in Int
      BY <1>1, <1>6, NotLess, AboveStep DEF SumWorks
    <2>2. tally.seen = Value(sum.a) - Value(sum.b) /\ tally.seen >= 0
      BY <1>6, <2>1, SumSeen
    <2>3. sum.carry \in -1 .. 0
      BY <1>6 DEF SumsFine, Carries
    <2>4. sum.carry = 0
      <3>1. ASSUME sum.carry = -1 PROVE FALSE
        <4>1. tally.made - tally.weight = tally.seen
          BY <1>1, <1>4, <3>1
        <4> QED BY <1>1, <1>3, <2>2, <4>1
      <3> QED BY <2>3, <3>1
    <2>5. tally.made = tally.seen
      BY <1>1, <1>4, <2>4
    <2>6. Result(sum) = Trim(sum.digits)
      BY <1>6 DEF Result
    <2>7. /\ Value(Result(sum)) = tally.made /\ Plain(Result(sum))
          /\ Result(sum) # <<>> => Result(sum)[Len(Result(sum))] # 0
      BY <1>1, <1>3, <2>6, TrimDigits
    <2>8. Result(sum) # <<>> => Value(Result(sum)) > 0
      BY <1>5, <2>7, Lean DEF Plain
    <2> QED BY <1>5, <1>6, <2>2, <2>5, <2>7, <2>8
  <1>7. CASE sum.op = "+"
    <2>1. /\ tally.seen = Value(sum.a) + Value(sum.b)
          /\ sum.cnt >= Len(sum.a) /\ sum.cnt >= Len(sum.b) /\ sum.cnt \in {Len(sum.a), Len(sum.b)}
      BY <1>7, SumSeen
    <2>2. /\ sum.carry \in 0 .. 1
          /\ sum.cnt > 0 => sum.digits[sum.cnt] + 10 * sum.carry
                              >= Digit(sum.a, sum.cnt) + Digit(sum.b, sum.cnt)
      BY <1>2, <1>7 DEF SumWorks, Decimal
    <2>3. CASE sum.carry = 1
      <3>1. Result(sum) = Append(sum.digits, 1)
        <4>1. Byte(1) = 1
          BY ByteSame DEF Bytes
        <4> QED BY <1>7, <2>3, <4>1 DEF Result
      <3>2. Value(Result(sum)) = tally.made + tally.weight * 1
        <4>1. 1 \in Bytes /\ Weighs(sum.digits, tally.weight)
          BY <1>3 DEF Bytes, Counts
        <4> QED BY <1>1, <1>3, <3>1, <4>1, WeighsMore
      <3>3. Plain(Append(sum.digits, 1))
        <4>1. sum.digits \in Seq(Bytes) /\ 1 \in 0 .. 9
          BY <1>1 DEF Vectors
        <4>2. /\ Len(Append(sum.digits, 1)) = Len(sum.digits) + 1
              /\ Append(sum.digits, 1)[Len(sum.digits) + 1] = 1
              /\ \A i \in 1 .. Len(sum.digits) : Append(sum.digits, 1)[i] = sum.digits[i]
          BY <4>1
        <4>3. \A i \in 1 .. Len(sum.digits) + 1 : Append(sum.digits, 1)[i] \in 0 .. 9
          BY <1>1, <1>3, <4>2 DEF Proper
        <4> QED BY <4>2, <4>3 DEF Plain, Proper
      <3> QED BY <1>4, <1>5, <1>7, <2>1, <2>3, <3>1, <3>2, <3>3
    <2>4. CASE sum.carry = 0
      <3>1. Result(sum) = sum.digits
        BY <1>7, <2>4 DEF Result
      <3>2. tally.made = tally.seen
        BY <1>1, <1>4, <2>4
      <3>3. ASSUME sum.cnt > 1 PROVE sum.digits[sum.cnt] # 0
        <4>1. sum.cnt \in Nat \ {0}
          BY <1>1, <3>3
        <4>2. Digit(sum.a, sum.cnt) \in 0 .. 9 /\ Digit(sum.b, sum.cnt) \in 0 .. 9
          BY <1>1, <1>2, <4>1, DigitType
        <4>3. Digit(sum.a, sum.cnt) # 0 \/ Digit(sum.b, sum.cnt) # 0
          BY <1>1, <2>1, <3>3 DEF Plain, Digit
        <4>4. sum.digits[sum.cnt] \in Int
          <5>1. sum.cnt \in 1 .. Len(sum.digits)
            BY <1>1, <4>1
          <5> QED BY <1>1, <5>1, Elements
        <4>5. sum.digits[sum.cnt] + 10 * 0 >= Digit(sum.a, sum.cnt) + Digit(sum.b, sum.cnt)
          BY <2>2, <2>4, <4>1
        <4> DEFINE d == Digit(sum.a, sum.cnt)
                   e == Digit(sum.b, sum.cnt)
        <4>6. d \in 0 .. 9 /\ e \in 0 .. 9 /\ (d # 0 \/ e # 0) /\ sum.digits[sum.cnt] + 10 * 0 >= d + e
          BY <4>2, <4>3, <4>5
        <4> HIDE DEF d, e
        <4> QED BY <4>4, <4>6
      <3> QED BY <1>1, <1>3, <1>5, <1>7, <2>1, <3>1, <3>2, <3>3 DEF Plain
    <2> QED BY <2>2, <2>3, <2>4
  <1> QED BY <1>3, <1>6, <1>7

------------------------------------------------------------------------------
(* Products: what one step of the loops makes of the operands. *)

LEMMA Fields ==
  ASSUME NEW m \in Products
  PROVE  /\ m.big \in Vectors /\ m.small \in Vectors /\ m.power \in Vectors
         /\ m.tmpBig \in Vectors /\ m.tmpSmall \in Vectors /\ m.result \in Vectors
  BY DEF Products

LEMMA Worths ==
  ASSUME NEW m \in Products, Numerals(m)
  PROVE  /\ Value(m.big) \in Nat /\ Value(m.small) \in Nat /\ Value(m.power) \in Nat
         /\ Value(m.tmpBig) \in Nat /\ Value(m.tmpSmall) \in Nat /\ Value(m.result) \in Nat
  <1>1. \A v \in Vectors : Plain(v) => Value(v) \in Nat
    BY AboveStep, AboveNat DEF Plain
  <1> QED BY <1>1, Fields DEF Numerals

LEMMA SomeDigits == ASSUME NEW v \in Vectors, Value(v) > 0 PROVE v # <<>>
  BY NoDigits

\* The power is doubled, while it is less than the larger operand.
LEMMA PowerDoubles ==
  ASSUME NEW m \in Products, Up(m), Value(m.power) < Value(m.big),
         NEW r \in Vectors, Plain(r), Value(r) = Value(m.power) + Value(m.power)
  PROVE  HalfUp([m EXCEPT !.power = r])
  <1> DEFINE n == [m EXCEPT !.power = r]
             P == Value(m.power)
             S == Value(m.small)
             T == Value(m.tmpSmall)
  <1>1. /\ n.power = r /\ n.big = m.big /\ n.small = m.small /\ n.tmpBig = m.tmpBig
        /\ n.tmpSmall = m.tmpSmall /\ n.result = m.result
    BY DEF Products
  <1>2. Numerals(m) /\ P > 0 /\ PowerOfTwo(P) /\ T = P * S
    BY DEF Up, Multiple, PowerOfTwo
  <1>3. P \in Nat /\ S \in Nat /\ T \in Nat /\ Value(m.big) \in Nat
    BY <1>2, Worths
  <1> HIDE DEF n, P, S, T
  <1>4. Value(r) = 2 * P /\ 2 * P > 0
    BY <1>2, <1>3 DEF P
  <1>5. PowerOfTwo(2 * P) /\ r # <<>>
    BY <1>2, <1>3, <1>4, TwiceIsPower, SomeDigits
  <1>6. 2 * T = (2 * P) * S
    BY <1>2, <1>3
  <1>7. 2 * P < 2 * Value(m.big)
    BY <1>3 DEF P
  <1>8. Numerals(n)
    BY <1>1, <1>2 DEF Numerals
  <1>9. n.tmpBig = n.big /\ n.result = <<>>
    BY <1>1 DEF Up
  <1>10. HalfUp(n)
    BY <1>1, <1>4, <1>5, <1>6, <1>7, <1>8, <1>9 DEF HalfUp, T, S
  <1> QED BY <1>10 DEF n

\* And then its multiple.
LEMMA MultipleDoubles ==
  ASSUME NEW m \in Products, HalfUp(m),
         NEW r \in Vectors, Plain(r), Value(r) = Value(m.tmpSmall) + Value(m.tmpSmall)
  PROVE  Up([m EXCEPT !.tmpSmall = r])
  <1> DEFINE n == [m EXCEPT !.tmpSmall = r]
  <1>1. /\ n.power = m.power /\ n.big = m.big /\ n.small = m.small /\ n.tmpBig = m.tmpBig
        /\ n.tmpSmall = r /\ n.result = m.result
    BY DEF Products
  <1> HIDE DEF n
  <1>2. Value(m.tmpSmall) \in Nat /\ Value(m.big) \in Nat /\ Value(m.power) \in Nat
    BY Worths DEF HalfUp
  <1>3. Multiple(n)
    BY <1>1, <1>2 DEF HalfUp, Multiple
  <1>4. m.big # <<>>
    <2>1. Value(m.power) > 0 /\ Value(m.power) < 2 * Value(m.big)
      BY DEF HalfUp, PowerOfTwo
    <2> QED BY <1>2, <2>1, Fields, SomeDigits
  <1>5. Numerals(n)
    BY <1>1 DEF HalfUp, Numerals
  <1>6. Up(n)
    BY <1>1, <1>3, <1>4, <1>5 DEF HalfUp, Up
  <1> QED BY <1>6 DEF n

\* The first loop has found the power.
LEMMA UpEnds ==
  ASSUME NEW m \in Products, Up(m), ~Less(m.power, m.big), ~Less(m.big, m.small)
  PROVE  Level(m)
  <1> DEFINE B == Value(m.big)
             S == Value(m.small)
             P == Value(m.power)
  <1>1. Numerals(m) /\ Multiple(m) /\ PowerOfTwo(P) /\ P > 0 /\ m.tmpBig = m.big /\ m.result = <<>>
    BY DEF Up, Multiple, PowerOfTwo
  <1>2. B \in Nat /\ S \in Nat /\ P \in Nat
    BY <1>1, Worths
  <1>3. P >= B /\ B >= S
    BY <1>1, Fields, NotLess DEF Numerals
  <1>4. Kept(m)
    <2>1. Value(m.result) = 0 /\ B * S \in Nat
      BY <1>1, <1>2, NoDigits
    <2> QED BY <1>1, <2>1 DEF Kept
  <1>5. CASE S = 0
    <2>1. CASE m.tmpSmall = <<>>
      BY <1>1, <1>5, <2>1 DEF Level, Hopeless
    <2>2. CASE m.tmpSmall # <<>>
      BY <1>1, <1>4, <1>5, <2>2 DEF Level, LeftOver, Up
    <2> QED BY <2>1, <2>2
  <1>6. CASE S # 0
    <2>1. B > 0 /\ P < 2 * B
      <3>1. CASE m.power = <<1>>
        <4>1. P = 1
          BY <3>1, OneDigit DEF Bytes
        <4> QED BY <1>2, <1>3, <1>6, <4>1
      <3>2. CASE P < 2 * B
        BY <1>2, <1>3, <1>6, <3>2
      <3> QED BY <3>1, <3>2 DEF Up
    <2>2. PowerOfTwo(B) => B = P
      BY <1>1, <1>2, <1>3, <2>1, PowersApart
    <2>3. ~PowerOfTwo(B) => B < P
      BY <1>1, <1>2, <1>3
    <2>4. LeftOver(m, 1)
      BY <1>1, <1>2, <1>6, <2>1, <2>2, <2>3 DEF LeftOver
    <2> QED BY <1>1, <1>4, <2>4 DEF Level
  <1> QED BY <1>5, <1>6

\* A power that is not taken is more than what is left.
LEMMA SkipLevels ==
  ASSUME NEW m \in Products, Down(m), m.tmpBig # <<>>,
         ~Less(m.power, m.tmpBig), m.power # m.tmpBig
  PROVE  Level(m)
  <1> DEFINE B == Value(m.big)
             S == Value(m.small)
             P == Value(m.power)
             X == Value(m.tmpBig)
  <1>1. Numerals(m) /\ Kept(m) /\ (S = 0 => m.tmpSmall = <<>>)
    BY DEF Down
  <1>2. B \in Nat /\ S \in Nat /\ P \in Nat /\ X \in Nat
    BY <1>1, Worths
  <1>3. X < P
    <2>1. Less(m.tmpBig, m.power)
      BY Fields, LessEither
    <2> QED BY <1>1, <2>1, Fields, LessIsLess DEF Numerals
  <1>4. CASE Multiple(m) /\ LeftOver(m, 2)
    <2>1. CASE S = 0
      BY <1>1, <2>1 DEF Level, Hopeless
    <2>2. CASE S # 0
      <3>1. ~PowerOfTwo(B)
        <4>1. PowerOfTwo(B) => X = 2 * P
          BY <1>4, <2>2 DEF LeftOver
        <4> QED BY <1>2, <1>3, <4>1
      <3>2. X < 1 * P /\ (m.tmpBig # <<>> => X > 0)
        BY <1>2, <1>3, <1>4, <2>2, <3>1 DEF LeftOver
      <3>3. LeftOver(m, 1)
        BY <2>2, <3>1, <3>2 DEF LeftOver
      <3> QED BY <1>1, <1>4, <3>3 DEF Level
    <2> QED BY <2>1, <2>2
  <1>5. CASE Spent(m)
    <2>1. S = 0 \/ PowerOfTwo(B)
      BY <1>5 DEF Spent
    <2> QED BY <1>1, <1>5, <2>1 DEF Level, Hopeless, Spent
  <1> QED BY <1>4, <1>5 DEF Down

\* The multiple of a power that is taken is added up.
LEMMA ResultAdds ==
  ASSUME NEW m \in Products, Down(m), m.tmpBig # <<>>,
         NEW r \in Vectors, Plain(r), Value(r) = Value(m.result) + Value(m.tmpSmall)
  PROVE  HalfDown([m EXCEPT !.result = r])
  <1> DEFINE n == [m EXCEPT !.result = r]
             B == Value(m.big)
             S == Value(m.small)
             P == Value(m.power)
             X == Value(m.tmpBig)
             R == Value(m.result)
  <1>1. /\ n.power = m.power /\ n.big = m.big /\ n.small = m.small /\ n.tmpBig = m.tmpBig
        /\ n.tmpSmall = m.tmpSmall /\ n.result = r
    BY DEF Products
  <1> HIDE DEF n
  <1>2. Numerals(m) /\ (S = 0 => m.tmpSmall = <<>>) /\ R + X * S = B * S
    BY DEF Down, Kept
  <1>3. B \in Nat /\ S \in Nat /\ P \in Nat /\ X \in Nat /\ R \in Nat
    BY <1>2, Worths
  <1>4. Numerals(n)
    BY <1>1, <1>2 DEF Numerals
  <1>5. CASE Multiple(m) /\ LeftOver(m, 2)
    <2>1. Value(n.result) = R + P * S
      BY <1>1, <1>5 DEF Multiple
    <2>2. (R + P * S) + (X - P) * S = B * S
      <3> HIDE DEF B, S, P, X, R
      <3>1. (X - P) * S = X * S - P * S
        BY <1>3
      <3>2. X * S \in Int /\ P * S \in Int
        BY <1>3
      <3> QED BY <1>2, <1>3, <3>1, <3>2
    <2>3. Multiple(n) /\ LeftOver(n, 2) /\ (Value(n.small) = 0 => n.tmpSmall = <<>>)
      BY <1>1, <1>2, <1>5 DEF Multiple, LeftOver
    <2>4. Value(n.result) + (Value(n.tmpBig) - Value(n.power)) * Value(n.small)
            = Value(n.big) * Value(n.small)
      BY <1>1, <2>1, <2>2
    <2> QED BY <1>4, <2>3, <2>4 DEF HalfDown, n
  <1>6. CASE Spent(m)
    <2>1. n.power = <<>> /\ Hopeless(n)
      BY <1>1, <1>6 DEF Spent, Hopeless
    <2> QED BY <1>4, <2>1 DEF HalfDown, n
  <1> QED BY <1>5, <1>6 DEF Down

\* And then it is taken.
LEMMA TakeLevels ==
  ASSUME NEW m \in Products, HalfDown(m),
         NEW r \in Vectors, Plain(r), Value(r) = Value(m.tmpBig) - Value(m.power),
         r # <<>> => Value(r) > 0
  PROVE  Level([m EXCEPT !.tmpBig = r])
  <1> DEFINE n == [m EXCEPT !.tmpBig = r]
             S == Value(m.small)
             P == Value(m.power)
             X == Value(m.tmpBig)
  <1>1. /\ n.power = m.power /\ n.big = m.big /\ n.small = m.small /\ n.tmpBig = r
        /\ n.tmpSmall = m.tmpSmall /\ n.result = m.result
    BY DEF Products
  <1> HIDE DEF n
  <1>2. Numerals(m)
    BY DEF HalfDown
  <1>3. S \in Nat /\ P \in Nat /\ X \in Nat
    BY <1>2, Worths
  <1>4. Numerals(n)
    BY <1>1, <1>2 DEF Numerals
  <1>5. CASE m.power = <<>> /\ Hopeless(m)
    BY <1>1, <1>4, <1>5 DEF Level, Hopeless, n
  <1>6. CASE ~(m.power = <<>> /\ Hopeless(m))
    <2>1. /\ Multiple(m) /\ LeftOver(m, 2) /\ (S = 0 => m.tmpSmall = <<>>)
          /\ Value(m.result) + (X - P) * S = Value(m.big) * S
      BY <1>6 DEF HalfDown
    <2>2. Multiple(n) /\ Kept(n)
      BY <1>1, <2>1 DEF Multiple, Kept
    <2>3. CASE S = 0
      BY <1>1, <1>4, <2>1, <2>3 DEF Level, Hopeless, n
    <2>4. CASE S # 0
      <3>1. LeftOver(n, 1)
        <4>1. CASE PowerOfTwo(Value(m.big))
          <5>1. X = 2 * P
            BY <2>1, <2>4, <4>1 DEF LeftOver
          <5>2. Value(r) = 1 * P
            BY <1>3, <5>1
          <5> QED BY <1>1, <2>4, <4>1, <5>2 DEF LeftOver
        <4>2. CASE ~PowerOfTwo(Value(m.big))
          <5>1. X < 2 * P
            BY <2>1, <2>4, <4>2 DEF LeftOver
          <5>2. Value(r) < 1 * P
            BY <1>3, <5>1
          <5> QED BY <1>1, <2>4, <4>2, <5>2 DEF LeftOver
        <4> QED BY <4>1, <4>2
      <3> QED BY <1>4, <2>2, <3>1 DEF Level, n
    <2> QED BY <2>3, <2>4
  <1> QED BY <1>5, <1>6

\* Half of a power of two is the power before, or no digits.
LEMMA PowerHalves ==
  ASSUME NEW v \in Vectors, Plain(v), PowerOfTwo(Value(v))
  PROVE  /\ Halve(v) \in Vectors /\ Plain(Halve(v))
         /\ Halve(v) = <<>> => Value(v) = 1
         /\ Halve(v) # <<>> =>
              PowerOfTwo(Value(Halve(v))) /\ Value(v) = 2 * Value(Halve(v))
  <1> DEFINE h == Halve(v)
             P == Value(v)
             H == Value(h)
  <1>1. /\ h \in Vectors /\ Plain(h) /\ P \in Nat /\ H \in Nat
        /\ h # <<>> => h[Len(h)] # 0
    BY HalveType, HalveHalves DEF Plain
  <1>2. PICK odd \in {0, 1} : P = 2 * H + odd
    BY HalveHalves DEF Plain
  <1>3. P > 0
    BY DEF PowerOfTwo
  <1>4. CASE h = <<>>
    <2>1. H = 0
      BY <1>4, NoDigits
    <2> QED BY <1>1, <1>2, <1>3, <1>4, <2>1
  <1>5. CASE h # <<>>
    <2>1. H > 0
      BY <1>1, <1>5, Lean DEF Plain
    <2> HIDE DEF P, H
    <2>2. P > 1
      BY <1>1, <1>2, <2>1
    <2>3. PICK k \in Nat : P = 2 * k /\ PowerOfTwo(k)
      BY <1>1, <2>2, HalfIsPower DEF P
    <2>4. k = H
      BY <1>1, <1>2, <2>3
    <2> QED BY <1>1, <1>5, <2>3, <2>4 DEF P, H
  <1> QED BY <1>4, <1>5

\* And of its multiple.
LEMMA MultipleHalves ==
  ASSUME NEW v \in Vectors, Plain(v), NEW h \in Nat, NEW s \in Nat, Value(v) = (2 * h) * s
  PROVE  Value(Halve(v)) = h * s
  <1>1. Value(Halve(v)) \in Nat
    BY HalveHalves DEF Plain
  <1>2. PICK odd \in {0, 1} : Value(v) = 2 * Value(Halve(v)) + odd
    BY HalveHalves DEF Plain
  <1> DEFINE hs == h * s
  <1>3. hs \in Nat /\ Value(v) = 2 * hs
    OBVIOUS
  <1> HIDE DEF hs
  <1>4. Value(Halve(v)) = hs
    BY <1>1, <1>2, <1>3
  <1> QED BY <1>4 DEF hs

LEMMA HalfOfNothing ==
  ASSUME NEW v \in Vectors, Plain(v), Value(v) = 0
  PROVE  Halve(v) = <<>>
  <1>1. /\ Halve(v) \in Vectors /\ Proper(Halve(v)) /\ Value(Halve(v)) \in Nat
        /\ Halve(v) # <<>> => Halve(v)[Len(Halve(v))] # 0
    BY HalveType, HalveHalves DEF Plain
  <1>2. PICK odd \in {0, 1} : Value(v) = 2 * Value(Halve(v)) + odd
    BY HalveHalves DEF Plain
  <1>3. Value(Halve(v)) = 0
    BY <1>1, <1>2
  <1> QED BY <1>1, <1>3, Lean

LEMMA Halves ==
  ASSUME NEW m \in Products, Level(m), <<>> \notin {m.power, m.tmpSmall}
  PROVE  Down([m EXCEPT !.power = Halve(@), !.tmpSmall = Halve(@)])
  <1> DEFINE n == [m EXCEPT !.power = Halve(@), !.tmpSmall = Halve(@)]
             B == Value(m.big)
             S == Value(m.small)
             P == Value(m.power)
             T == Value(m.tmpSmall)
             X == Value(m.tmpBig)
  <1>1. /\ n.power = Halve(m.power) /\ n.tmpSmall = Halve(m.tmpSmall)
        /\ n.big = m.big /\ n.small = m.small /\ n.tmpBig = m.tmpBig /\ n.result = m.result
    BY DEF Products
  <1> HIDE DEF n
  <1>2. Numerals(m) /\ Multiple(m) /\ LeftOver(m, 1) /\ Kept(m)
    BY DEF Level
  <1>3. /\ B \in Nat /\ S \in Nat /\ P \in Nat /\ X \in Nat /\ T \in Nat
        /\ Plain(m.power) /\ Plain(m.tmpSmall) /\ Plain(m.tmpBig)
        /\ PowerOfTwo(P) /\ T = P * S
    BY <1>2, Worths DEF Numerals, Multiple
  <1>4. /\ Plain(n.power) /\ Plain(n.tmpSmall)
        /\ n.power = <<>> => P = 1
        /\ n.power # <<>> => /\ PowerOfTwo(Value(n.power)) /\ P = 2 * Value(n.power)
                             /\ Value(n.power) \in Nat
    BY <1>1, <1>3, Fields, PowerHalves, HalveHalves DEF Plain
  <1>5. Numerals(n) /\ Kept(n)
    BY <1>1, <1>2, <1>4 DEF Numerals, Kept
  <1>6. S = 0 => n.tmpSmall = <<>>
    <2>1. S = 0 => T = 0
      BY <1>3
    <2> QED BY <1>1, <1>3, <2>1, Fields, HalfOfNothing
  <1>7. CASE n.power = <<>>
    <2>1. P = 1
      BY <1>4, <1>7
    <2>2. /\ n.tmpBig = m.tmpBig /\ Value(n.small) = S /\ Value(n.big) = B
      BY <1>1
    <2>3. S = 0 => m.tmpBig # <<>>
      BY <1>2 DEF LeftOver
    <2>4. S # 0 /\ PowerOfTwo(B) => m.tmpBig = <<1>>
      <3>1. S # 0 /\ PowerOfTwo(B) => X = 1
        BY <1>2, <1>3, <2>1 DEF LeftOver
      <3> QED BY <1>3, <3>1, Fields, PlainSmall
    <2>5. S # 0 /\ ~PowerOfTwo(B) => m.tmpBig = <<>>
      <3>1. S # 0 /\ ~PowerOfTwo(B) => X < 1 /\ (m.tmpBig # <<>> => X > 0)
        BY <1>2, <1>3, <2>1 DEF LeftOver
      <3> QED BY <1>3, <3>1
    <2>6. Spent(n)
      BY <1>7, <2>2, <2>3, <2>4, <2>5 DEF Spent
    <2> QED BY <1>1, <1>5, <1>6, <2>6 DEF Down, n
  <1>8. CASE n.power # <<>>
    <2> DEFINE h == Value(n.power)
    <2>1. h \in Nat /\ PowerOfTwo(h) /\ P = 2 * h
      BY <1>4, <1>8
    <2>2. Value(n.tmpSmall) = h * S
      <3>1. T = (2 * h) * S
        BY <1>3, <2>1
      <3> HIDE DEF h, S
      <3> QED BY <1>1, <1>3, <2>1, <3>1, Fields, MultipleHalves
    <2>3. Multiple(n)
      BY <1>1, <1>8, <2>1, <2>2 DEF Multiple
    <2>4. LeftOver(n, 2)
      <3>1. 1 * P = 2 * h
        BY <1>3, <2>1
      <3> QED BY <1>1, <1>2, <3>1 DEF LeftOver
    <2> QED BY <1>1, <1>5, <1>6, <2>3, <2>4 DEF Down, n
  <1> QED BY <1>7, <1>8

\* A halving goes on, or there was no hope.
LEMMA HalveBothWorks ==
  ASSUME NEW m \in Products, Level(m), HalveBoth(m)
  PROVE  \/ pc' = "ended" /\ Hopeless(m)
         \/ pc' = "down" /\ mul'.big = m.big /\ mul'.small = m.small /\ Down(mul')
  <1>1. CASE <<>> \in {m.power, m.tmpSmall}
    <2>1. pc' = "ended"
      BY <1>1 DEF HalveBoth
    <2>2. Hopeless(m)
      <3>1. ASSUME Multiple(m), Numerals(m) PROVE Value(m.small) = 0
        <4>1. Value(m.tmpSmall) = 0 /\ Value(m.power) > 0
          BY <1>1, <3>1, NoDigits DEF Multiple, PowerOfTwo
        <4>2. /\ Value(m.power) * Value(m.small) = 0
              /\ Value(m.power) \in Nat /\ Value(m.small) \in Nat
          BY <3>1, <4>1, Worths DEF Multiple
        <4> QED BY <4>1, <4>2
      <3> QED BY <3>1 DEF Level, Hopeless
    <2> QED BY <2>1, <2>2
  <1>2. CASE <<>> \notin {m.power, m.tmpSmall}
    <2>1. /\ pc' = "down"
          /\ mul' = [m EXCEPT !.power = Halve(@), !.tmpSmall = Halve(@)]
      BY <1>2 DEF HalveBoth
    <2>2. mul'.big = m.big /\ mul'.small = m.small
      BY <2>1 DEF Products
    <2>3. Down([m EXCEPT !.power = Halve(@), !.tmpSmall = Halve(@)])
      BY <1>2, Halves
    <2> QED BY <2>1, <2>2, <2>3
  <1> QED BY <1>1, <1>2

------------------------------------------------------------------------------
(* The invariant. *)

Works == SumWorks /\ ProductWorks /\ CallWorks

LEMMA WorksNext == (Works <=> SumWorks /\ ProductWorks /\ CallWorks)'
  <1>1. Works <=> SumWorks /\ ProductWorks /\ CallWorks
    BY DEF Works
  <1> QED BY <1>1, PTL

\* Where no loop runs there is nothing to say.
LEMMA AtRest == ASSUME pc' \in {"scan", "ended"} PROVE Works'
  BY DEF Works, SumWorks, ProductWorks, CallWorks, Multiplies

LEMMA Begins == Init => Works
  BY DEF Init, Works, SumWorks, ProductWorks, CallWorks, Multiplies

\* What a step of a product leaves alone.
LEMMA CallStays ==
  ASSUME CallWorks, Multiplies, call' = call, power' = power,
         mul'.big = mul.big, mul'.small = mul.small,
         pc' \in {"up", "down"} \/ (pc' = "digits" /\ sum'.to # "bigint")
  PROVE  CallWorks'
  BY DEF CallWorks, Multiplies, Larger, Smaller

LEMMA DoPlusWorks == ASSUME IInv, DoPlus PROVE Works'
  <1> DEFINE s == Plus(Left, Right)
  <1>1. /\ PopOperands("+", s.neg) /\ StartSum(s.op, s.a, s.b, "bigint")
    BY DEF DoPlus
  <1>2. Left \in Bigints /\ Right \in Bigints
    BY <1>1, OperandsType DEF IInv, PopOperands
  <1>3. /\ s.op \in {"+", "-"} /\ s.a \in Vectors /\ s.b \in Vectors
        /\ s.op = "-" => ~Less(s.a, s.b)
    BY <1>2, PlusAsks
  <1>4. call'.oper = "+" /\ call'.neg = s.neg /\ Asked' = s
    BY <1>1 DEF PopOperands, Asked
  <1> HIDE DEF s
  <1>5. /\ pc' = "digits" /\ SumWorks' /\ sum'.to = "bigint"
        /\ sum'.op = s.op /\ sum'.a = s.a /\ sum'.b = s.b
    BY <1>1, <1>3, SumBegins DEF Takers
  <1> QED BY <1>4, <1>5 DEF Works, ProductWorks, CallWorks, Multiplies

LEMMA DoMinusWorks == ASSUME IInv, DoMinus PROVE Works'
  <1> DEFINE s == Minus(Left, Right)
  <1>1. /\ PopOperands("-", s.neg) /\ StartSum(s.op, s.a, s.b, "bigint")
    BY DEF DoMinus
  <1>2. Left \in Bigints /\ Right \in Bigints
    BY <1>1, OperandsType DEF IInv, PopOperands
  <1>3. /\ s.op \in {"+", "-"} /\ s.a \in Vectors /\ s.b \in Vectors
        /\ s.op = "-" => ~Less(s.a, s.b)
    BY <1>2, MinusAsks
  <1>4. call'.oper = "-" /\ call'.neg = s.neg /\ Asked' = s
    BY <1>1 DEF PopOperands, Asked
  <1> HIDE DEF s
  <1>5. /\ pc' = "digits" /\ SumWorks' /\ sum'.to = "bigint"
        /\ sum'.op = s.op /\ sum'.a = s.a /\ sum'.b = s.b
    BY <1>1, <1>3, SumBegins DEF Takers
  <1> QED BY <1>4, <1>5 DEF Works, ProductWorks, CallWorks, Multiplies

\* A product starts with the power 1.
LEMMA ProductBegins ==
  ASSUME NEW a \in Vectors, NEW b \in Vectors, StartProduct(a, b)
  PROVE  /\ pc' = "up" /\ SumWorks' /\ ProductWorks' /\ ~Less(mul'.big, mul'.small)
         /\ mul'.big = IF Less(a, b) THEN b ELSE a
         /\ mul'.small = IF Less(a, b) THEN a ELSE b
  <1> DEFINE big == IF Less(a, b) THEN b ELSE a
             small == IF Less(a, b) THEN a ELSE b
  <1>1. pc' = "up" /\ mul' = [big |-> big, small |-> small, power |-> <<1>>,
                              tmpBig |-> big, tmpSmall |-> small, result |-> <<>>]
    BY DEF StartProduct
  <1>2. big \in Vectors /\ small \in Vectors /\ ~Less(big, small)
    BY LessOneWay
  <1> HIDE DEF big, small
  <1>3. /\ mul'.big = big /\ mul'.small = small /\ mul'.power = <<1>>
        /\ mul'.tmpBig = big /\ mul'.tmpSmall = small /\ mul'.result = <<>>
    BY <1>1
  <1>4. ASSUME Plain(big), Plain(small) PROVE Up(mul')
    <2>1. Plain(<<1>>) /\ Plain(<<>>)
      BY DEF Plain, Proper
    <2>2. Numerals(mul')
      BY <1>3, <1>4, <2>1 DEF Numerals
    <2>3. Multiple(mul')
      <3>1. Value(<<1>>) = 1 /\ <<1>> # <<>>
        BY OneDigit DEF Bytes
      <3>2. Value(small) = 1 * Value(small)
        BY <1>2, AboveStep
      <3> QED BY <1>3, <3>1, <3>2, OneIsPower DEF Multiple
    <2>4. small # <<>> => big # <<>>
      <3>1. small # <<>> => Len(small) > 0
        BY <1>2 DEF Vectors
      <3> QED BY <1>2, <3>1 DEF Less
    <2> QED BY <1>3, <2>2, <2>3, <2>4 DEF Up
  <1>5. SumWorks' /\ ProductWorks'
    BY <1>1, <1>3, <1>4 DEF SumWorks, ProductWorks
  <1> QED BY <1>1, <1>2, <1>3, <1>5 DEF big, small

LEMMA DoTimesWorks == ASSUME IInv, DoTimes PROVE Works'
  <1>1. PopOperands("*", Left.neg # Right.neg) /\ StartProduct(Left.mag, Right.mag)
    BY DEF DoTimes
  <1>2. Left.mag \in Vectors /\ Right.mag \in Vectors
    BY <1>1, OperandsType DEF IInv, PopOperands, Bigints
  <1>3. /\ pc' = "up" /\ SumWorks' /\ ProductWorks' /\ ~Less(mul'.big, mul'.small)
        /\ mul'.big = IF Less(Left.mag, Right.mag) THEN Right.mag ELSE Left.mag
        /\ mul'.small = IF Less(Left.mag, Right.mag) THEN Left.mag ELSE Right.mag
    BY <1>1, <1>2, ProductBegins
  <1>4. call' = [oper |-> "*", left |-> Left, right |-> Right, neg |-> (Left.neg # Right.neg)]
    BY <1>1 DEF PopOperands
  <1>5. /\ call'.oper = "*" /\ mul'.big = Larger' /\ mul'.small = Smaller'
        /\ call'.neg = (call'.left.neg # call'.right.neg)
    BY <1>3, <1>4 DEF Larger, Smaller
  <1> QED BY <1>3, <1>5 DEF Works, CallWorks, Multiplies

LEMMA DoPowWorks == ASSUME IInv, DoPow PROVE Works'
  <1>1. /\ pc' = "pow" /\ call'.oper = "^" /\ call'.right = Right
        /\ power'.exponent = Unsigned(Right)
    BY DEF DoPow, PopOperands, Unsigned
  <1> QED BY <1>1 DEF Works, SumWorks, ProductWorks, CallWorks, Multiplies, Unsigned

LEMMA TokensWork == ASSUME IInv, Tokens PROVE Works'
  <1>1. CASE \/ PushNumber \/ Unimplemented \/ DoDebug \/ DoClear \/ DoPrintall \/ DoPrint
             \/ DoDup \/ StackEmpty \/ DoDivide
    <2>1. pc' = "scan"
      BY <1>1 DEF PushNumber, Unimplemented, DoDebug, DoClear, DoPrintall, DoPrint, DoDup,
                  StackEmpty, DoDivide, Scan, Say
    <2> QED BY <2>1, AtRest
  <1>2. CASE DupOfNothing \/ DoQuit
    <2>1. pc' = "ended"
      BY <1>2 DEF DupOfNothing, DoQuit, End
    <2> QED BY <2>1, AtRest
  <1>3. CASE DoPlus \/ DoMinus \/ DoTimes \/ DoPow
    BY <1>3, DoPlusWorks, DoMinusWorks, DoTimesWorks, DoPowWorks
  <1> QED BY <1>1, <1>2, <1>3 DEF Tokens

\* An iteration of a sum.
LEMMA DigitWorks == ASSUME IInv, Works, PlusDigit \/ MinusDigit PROVE Works'
  <1>1. SumsFine
    BY ComputeTypes
  <1>2. SumWorks'
    BY <1>1, PlusWorks, MinusWorks DEF Works
  <1>3. sum'.op = sum.op /\ sum'.a = sum.a /\ sum'.b = sum.b /\ sum'.to = sum.to
    BY <1>1 DEF PlusDigit, MinusDigit, AddDigit, SubDigit, SumsFine, Sums
  <1>4. UNCHANGED <<pc, call, mul, power>>
    BY DEF PlusDigit, MinusDigit, machine
  <1>5. ProductWorks'
    BY <1>3, <1>4 DEF Works, ProductWorks, Serves
  <1>6. CallWorks'
    BY <1>3, <1>4 DEF Works, CallWorks, Multiplies, Larger, Smaller, Asked
  <1> QED BY <1>2, <1>5, <1>6, WorksNext

\* A sum that a product has asked for.
LEMMA SumForProduct ==
  ASSUME IInv, Works, pc = "digits", sum.cnt = LastDigit(sum), Plain(sum.a), Plain(sum.b)
  PROVE  /\ Result(sum) \in Vectors /\ Plain(Result(sum))
         /\ sum.op = "+" => Value(Result(sum)) = Value(sum.a) + Value(sum.b)
         /\ sum.op = "-" => /\ Value(Result(sum)) = Value(sum.a) - Value(sum.b)
                            /\ Result(sum) # <<>> => Value(Result(sum)) > 0
  BY ComputeTypes, SumReturns DEF Works

\* A step of a product that starts a sum.
LEMMA ProductAsks ==
  ASSUME IInv, Works, Multiplies, InProduct, mul'.big = mul.big, mul'.small = mul.small,
         NEW op \in {"+", "-"}, NEW a \in Vectors, NEW b \in Vectors,
         NEW to \in Takers \ {"bigint"}, op = "-" => ~Less(a, b), StartSum(op, a, b, to),
         Plain(mul.big) /\ Plain(mul.small) =>
           /\ to = "power"  => Up(mul') /\ Value(mul'.power) < Value(mul'.big)
                               /\ op = "+" /\ a = mul'.power /\ b = mul'.power
           /\ to = "small"  => HalfUp(mul') /\ op = "+" /\ a = mul'.tmpSmall /\ b = mul'.tmpSmall
           /\ to = "result" => Down(mul') /\ mul'.tmpBig # <<>>
                               /\ op = "+" /\ a = mul'.result /\ b = mul'.tmpSmall
           /\ to = "big"    => HalfDown(mul') /\ op = "-" /\ a = mul'.tmpBig /\ b = mul'.power
  PROVE  Works'
  <1>1. /\ pc' = "digits" /\ SumWorks'
        /\ sum'.op = op /\ sum'.a = a /\ sum'.b = b /\ sum'.to = to
    BY SumBegins
  <1>2. CallWorks'
    BY <1>1, CallStays DEF Works, InProduct
  <1>3. ProductWorks'
    BY <1>1 DEF ProductWorks, Serves
  <1> QED BY <1>1, <1>2, <1>3, WorksNext

LEMMA DoublePowerWorks == ASSUME IInv, Works, DoublePower PROVE Works'
  <1>1. /\ pc = "up" /\ Less(mul.power, mul.big) /\ mul' = mul /\ InProduct
        /\ StartSum("+", mul.power, mul.power, "power")
    BY DEF DoublePower
  <1>2. mul.power \in Vectors /\ mul.big \in Vectors
    BY ComputeTypes, Fields
  <1>3. ASSUME Plain(mul.big), Plain(mul.small)
        PROVE  Up(mul) /\ Value(mul.power) < Value(mul.big)
    <2>1. Up(mul)
      BY <1>1, <1>3 DEF Works, ProductWorks
    <2>2. Plain(mul.power) /\ mul.power # <<>>
      BY <2>1 DEF Up, Numerals, Multiple
    <2> QED BY <1>1, <1>2, <1>3, <2>1, <2>2, LessIsLess
  <1>4. Multiplies
    BY <1>1 DEF Multiplies
  <1>5. "power" \in Takers \ {"bigint"}
    BY DEF Takers
  <1> QED BY <1>1, <1>2, <1>3, <1>4, <1>5, ProductAsks

LEMMA DoubleSmallWorks == ASSUME IInv, Works, DoubleSmall PROVE Works'
  <1> DEFINE r == Result(sum)
  <1>1. /\ pc = "digits" /\ sum.cnt = LastDigit(sum) /\ sum.to = "power" /\ InProduct
        /\ mul' = [mul EXCEPT !.power = r]
        /\ StartSum("+", mul.tmpSmall, mul.tmpSmall, "small")
    BY DEF DoubleSmall, SumDone
  <1>2. mul \in Products /\ mul.tmpSmall \in Vectors /\ r \in Vectors
    BY ComputeTypes
  <1>3. mul'.big = mul.big /\ mul'.small = mul.small /\ mul'.tmpSmall = mul.tmpSmall
    BY <1>1, <1>2 DEF Products
  <1>4. ASSUME Plain(mul.big), Plain(mul.small) PROVE HalfUp(mul')
    <2>1. /\ Up(mul) /\ Value(mul.power) < Value(mul.big)
          /\ sum.op = "+" /\ sum.a = mul.power /\ sum.b = mul.power
      BY <1>1, <1>4 DEF Works, ProductWorks, Serves
    <2>2. Plain(r) /\ Value(r) = Value(mul.power) + Value(mul.power)
      BY <1>1, <2>1, SumForProduct DEF Up, Numerals
    <2> QED BY <1>1, <1>2, <2>1, <2>2, PowerDoubles
  <1>5. Multiplies
    BY <1>1 DEF Multiplies
  <1>6. "small" \in Takers \ {"bigint"}
    BY DEF Takers
  <1> QED BY <1>1, <1>2, <1>3, <1>4, <1>5, <1>6, ProductAsks

LEMMA DoubledWorks == ASSUME IInv, Works, Doubled PROVE Works'
  <1> DEFINE r == Result(sum)
  <1>1. /\ pc = "digits" /\ sum.cnt = LastDigit(sum) /\ sum.to = "small" /\ InProduct
        /\ mul' = [mul EXCEPT !.tmpSmall = r] /\ pc' = "up"
    BY DEF Doubled, SumDone
  <1>2. mul \in Products /\ r \in Vectors
    BY ComputeTypes
  <1>3. mul'.big = mul.big /\ mul'.small = mul.small
    BY <1>1, <1>2 DEF Products
  <1>4. ASSUME Plain(mul.big), Plain(mul.small) PROVE Up(mul')
    <2>1. HalfUp(mul) /\ sum.op = "+" /\ sum.a = mul.tmpSmall /\ sum.b = mul.tmpSmall
      BY <1>1, <1>4 DEF Works, ProductWorks, Serves
    <2>2. Plain(r) /\ Value(r) = Value(mul.tmpSmall) + Value(mul.tmpSmall)
      BY <1>1, <2>1, SumForProduct DEF HalfUp, Numerals
    <2> QED BY <1>1, <1>2, <2>1, <2>2, MultipleDoubles
  <1>5. SumWorks' /\ ProductWorks'
    BY <1>1, <1>3, <1>4 DEF SumWorks, ProductWorks
  <1>6. CallWorks'
    BY <1>1, <1>3, CallStays DEF Works, Multiplies, InProduct
  <1> QED BY <1>5, <1>6, WorksNext

\* A halving of a product's operands.
LEMMA HalvingWorks ==
  ASSUME IInv, Works, Multiplies, NEW m \in Products, HalveBoth(m),
         m.big = mul.big, m.small = mul.small,
         Plain(mul.big) /\ Plain(mul.small) => Level(m)
  PROVE  /\ Works'
         /\ pc' = "ended" /\ Plain(mul.big) /\ Plain(mul.small) => Hopeless(mul)
  <1>1. CASE pc' = "ended"
    <2>1. Plain(mul.big) /\ Plain(mul.small) => Hopeless(m)
      BY <1>1, HalveBothWorks
    <2> QED BY <1>1, <2>1, AtRest DEF Hopeless
  <1>2. CASE pc' # "ended"
    <2>1. /\ pc' = "down" /\ call' = call /\ power' = power
          /\ mul' = [m EXCEPT !.power = Halve(@), !.tmpSmall = Halve(@)]
      BY <1>2 DEF HalveBoth
    <2>2. mul'.big = mul.big /\ mul'.small = mul.small
      BY <2>1 DEF Products
    <2>3. Plain(mul.big) /\ Plain(mul.small) => Down(mul')
      BY <1>2, HalveBothWorks
    <2>4. SumWorks' /\ ProductWorks'
      BY <2>1, <2>2, <2>3 DEF SumWorks, ProductWorks
    <2>5. CallWorks'
      BY <2>1, <2>2, CallStays DEF Works
    <2> QED BY <1>2, <2>4, <2>5, WorksNext
  <1> QED BY <1>1, <1>2

LEMMA UpDoneWorks ==
  ASSUME IInv, Works, UpDone
  PROVE  Works' /\ (pc' = "ended" /\ Plain(mul.big) /\ Plain(mul.small) => Hopeless(mul))
  <1>1. pc = "up" /\ ~Less(mul.power, mul.big) /\ HalveBoth(mul) /\ Multiplies
    BY DEF UpDone, Multiplies
  <1>2. mul \in Products
    BY ComputeTypes
  <1>3. ~Less(mul.big, mul.small)
    BY <1>1 DEF Works, CallWorks
  <1>4. Plain(mul.big) /\ Plain(mul.small) => Level(mul)
    BY <1>1, <1>2, <1>3, UpEnds DEF Works, ProductWorks
  <1> QED BY <1>1, <1>2, <1>4, HalvingWorks

LEMMA SkipPowerWorks ==
  ASSUME IInv, Works, SkipPower
  PROVE  Works' /\ (pc' = "ended" /\ Plain(mul.big) /\ Plain(mul.small) => Hopeless(mul))
  <1>1. /\ pc = "down" /\ mul.tmpBig # <<>> /\ HalveBoth(mul) /\ Multiplies
        /\ ~Less(mul.power, mul.tmpBig) /\ mul.power # mul.tmpBig
    BY DEF SkipPower, InDown, Fits, Multiplies
  <1>2. mul \in Products
    BY ComputeTypes
  <1>3. Plain(mul.big) /\ Plain(mul.small) => Level(mul)
    BY <1>1, <1>2, SkipLevels DEF Works, ProductWorks
  <1> QED BY <1>1, <1>2, <1>3, HalvingWorks

LEMMA TakePowerWorks == ASSUME IInv, Works, TakePower PROVE Works'
  <1>1. /\ pc = "down" /\ mul.tmpBig # <<>> /\ mul' = mul /\ InProduct
        /\ StartSum("+", mul.result, mul.tmpSmall, "result")
    BY DEF TakePower, InDown
  <1>2. mul.result \in Vectors /\ mul.tmpSmall \in Vectors
    BY ComputeTypes
  <1>3. Plain(mul.big) /\ Plain(mul.small) => Down(mul)
    BY <1>1 DEF Works, ProductWorks
  <1>4. Multiplies
    BY <1>1 DEF Multiplies
  <1>5. "result" \in Takers \ {"bigint"}
    BY DEF Takers
  <1> QED BY <1>1, <1>2, <1>3, <1>4, <1>5, ProductAsks

LEMMA SubtractPowerWorks == ASSUME IInv, Works, SubtractPower PROVE Works'
  <1> DEFINE r == Result(sum)
  <1>1. /\ pc = "digits" /\ sum.cnt = LastDigit(sum) /\ sum.to = "result" /\ InProduct
        /\ mul' = [mul EXCEPT !.result = r]
        /\ StartSum("-", mul.tmpBig, mul.power, "big")
    BY DEF SubtractPower, SumDone
  <1>2. mul \in Products /\ mul.tmpBig \in Vectors /\ mul.power \in Vectors /\ r \in Vectors
    BY ComputeTypes
  <1>3. /\ mul'.big = mul.big /\ mul'.small = mul.small
        /\ mul'.tmpBig = mul.tmpBig /\ mul'.power = mul.power
    BY <1>1, <1>2 DEF Products
  <1>4. ASSUME Plain(mul.big), Plain(mul.small) PROVE HalfDown(mul')
    <2>1. /\ Down(mul) /\ mul.tmpBig # <<>>
          /\ sum.op = "+" /\ sum.a = mul.result /\ sum.b = mul.tmpSmall
      BY <1>1, <1>4 DEF Works, ProductWorks, Serves
    <2>2. Plain(r) /\ Value(r) = Value(mul.result) + Value(mul.tmpSmall)
      BY <1>1, <2>1, SumForProduct DEF Down, Numerals
    <2> QED BY <1>1, <1>2, <2>1, <2>2, ResultAdds
  <1>5. Multiplies
    BY <1>1 DEF Multiplies
  <1>6. "big" \in Takers \ {"bigint"}
    BY DEF Takers
  <1>7. ~Less(mul.tmpBig, mul.power)
    BY <1>1 DEF IInv, Compared
  <1> QED BY <1>1, <1>2, <1>3, <1>4, <1>5, <1>6, <1>7, ProductAsks

LEMMA TakenWorks ==
  ASSUME IInv, Works, Taken
  PROVE  Works' /\ (pc' = "ended" /\ Plain(mul.big) /\ Plain(mul.small) => Hopeless(mul))
  <1> DEFINE r == Result(sum)
             m == [mul EXCEPT !.tmpBig = r]
  <1>1. pc = "digits" /\ sum.cnt = LastDigit(sum) /\ sum.to = "big" /\ HalveBoth(m) /\ Multiplies
    BY DEF Taken, SumDone, Multiplies
  <1>2. mul \in Products /\ r \in Vectors
    BY ComputeTypes
  <1>3. m \in Products /\ m.big = mul.big /\ m.small = mul.small
    BY <1>2 DEF Products
  <1>4. ASSUME Plain(mul.big), Plain(mul.small) PROVE Level(m)
    <2>1. HalfDown(mul) /\ sum.op = "-" /\ sum.a = mul.tmpBig /\ sum.b = mul.power
      BY <1>1, <1>4 DEF Works, ProductWorks
    <2>2. /\ Plain(r) /\ Value(r) = Value(mul.tmpBig) - Value(mul.power)
          /\ r # <<>> => Value(r) > 0
      BY <1>1, <2>1, SumForProduct DEF HalfDown, Numerals
    <2> QED BY <1>2, <2>1, <2>2, TakeLevels
  <1> HIDE DEF m
  <1> QED BY <1>1, <1>3, <1>4, HalvingWorks

LEMMA SquareWorks == ASSUME IInv, Works, Square PROVE Works'
  <1>1. /\ pc = "pow" /\ StartProduct(power.base.mag, power.base.mag)
        /\ call' = call /\ power' = power
    BY DEF Square
  <1>2. power.base.mag \in Vectors
    BY ComputeTypes DEF Bigints
  <1>3. pc' = "up" /\ SumWorks' /\ ProductWorks' /\ ~Less(mul'.big, mul'.small)
    BY <1>1, <1>2, ProductBegins
  <1>4. CallWorks'
    BY <1>1, <1>3 DEF Works, CallWorks, Multiplies
  <1> QED BY <1>3, <1>4, WorksNext

LEMMA SquaredWorks == ASSUME IInv, Works, Squared PROVE Works'
  <1>1. pc' = "pow" /\ call.oper = "^" /\ call' = call /\ power'.exponent = Small(2)
    BY DEF Squared
  <1> QED BY <1>1 DEF Works, SumWorks, ProductWorks, CallWorks, Multiplies

LEMMA ReturnsWork == ASSUME ReturnBigint \/ ReturnProduct \/ ReturnPower PROVE Works'
  <1>1. pc' = "scan"
    BY DEF ReturnBigint, ReturnProduct, ReturnPower, Push
  <1> QED BY <1>1, AtRest

LEMMA ComputeWorks == ASSUME IInv, Works, Compute PROVE Works'
  BY DigitWorks, DoublePowerWorks, DoubleSmallWorks, DoubledWorks, UpDoneWorks, TakePowerWorks,
     SubtractPowerWorks, TakenWorks, SkipPowerWorks, SquareWorks, SquaredWorks, ReturnsWork
     DEF Compute

LEMMA StutterWorks == ASSUME Works, UNCHANGED vars PROVE Works'
  <1>1. UNCHANGED <<pc, call, sum, mul, power, tally>>
    BY DEF vars
  <1>2. SumWorks'
    BY <1>1 DEF Works, SumWorks, Counts, Decimal
  <1>3. ProductWorks'
    BY <1>1 DEF Works, ProductWorks, Serves
  <1>4. CallWorks'
    BY <1>1 DEF Works, CallWorks, Multiplies, Larger, Smaller, Asked
  <1> QED BY <1>2, <1>3, <1>4, WorksNext

LEMMA AlwaysWorks == Spec => [](IInv /\ Works)
  <1>1. Works /\ IInv /\ [Next]_vars => Works'
    BY TokensWork, ComputeWorks, StutterWorks DEF Next
  <1> QED BY Begins, Invariance, <1>1, PTL DEF Spec

------------------------------------------------------------------------------
(* What is returned. *)

\* The loop that bigint's + or - asked for comes to the right number.
LEMMA PlusRight ==
  ASSUME NEW l \in Bigints, NEW r \in Bigints, Plain(l.mag), Plain(r.mag)
  PROVE  LET s == Plus(l, r)
             v == IF s.op = "-" THEN Value(s.a) - Value(s.b) ELSE Value(s.a) + Value(s.b)
         IN  /\ Plain(s.a) /\ Plain(s.b)
             /\ (IF s.neg THEN - v ELSE v) = SignedValue(l) + SignedValue(r)
  <1>1. /\ l.mag \in Vectors /\ r.mag \in Vectors /\ l.neg \in BOOLEAN /\ r.neg \in BOOLEAN
        /\ Value(l.mag) \in Int /\ Value(r.mag) \in Int
    BY AboveStep DEF Bigints
  <1>2. CASE l.neg = r.neg
    BY <1>1, <1>2 DEF Plus, SignedValue
  <1>3. CASE l.neg # r.neg /\ l.mag = r.mag
    BY <1>1, <1>3 DEF Plus, Difference, SignedValue
  <1>4. CASE l.neg # r.neg /\ l.mag # r.mag /\ Less(r.mag, l.mag)
    BY <1>1, <1>4 DEF Plus, Difference, SignedValue
  <1>5. CASE l.neg # r.neg /\ l.mag # r.mag /\ ~Less(r.mag, l.mag)
    BY <1>1, <1>5 DEF Plus, Difference, SignedValue
  <1> QED BY <1>2, <1>3, <1>4, <1>5

LEMMA MinusRight ==
  ASSUME NEW l \in Bigints, NEW r \in Bigints, Plain(l.mag), Plain(r.mag)
  PROVE  LET s == Minus(l, r)
             v == IF s.op = "-" THEN Value(s.a) - Value(s.b) ELSE Value(s.a) + Value(s.b)
             x == SignedValue(l)
             y == SignedValue(r)
         IN  /\ Plain(s.a) /\ Plain(s.b)
             /\ (IF s.neg THEN - v ELSE v)
                  = IF l.neg /\ ~r.neg /\ -x < y THEN y - x ELSE x - y
  <1> DEFINE s == Minus(l, r)
             v == IF s.op = "-" THEN Value(s.a) - Value(s.b) ELSE Value(s.a) + Value(s.b)
             p == Value(l.mag)
             q == Value(r.mag)
             x == SignedValue(l)
             y == SignedValue(r)
  <1>1. /\ l.mag \in Vectors /\ r.mag \in Vectors /\ l.neg \in BOOLEAN /\ r.neg \in BOOLEAN
        /\ p \in Nat /\ q \in Nat
        /\ x = (IF l.neg THEN - p ELSE p) /\ y = (IF r.neg THEN - q ELSE q)
    BY AboveStep, AboveNat DEF Bigints, Plain, SignedValue
  <1>2. l.neg # r.neg => v = q + p /\ s.neg = (l.neg /\ ~Less(l.mag, r.mag))
    BY <1>1 DEF Minus
  <1>3. l.neg = r.neg /\ Less(l.mag, r.mag) => v = q - p /\ s.neg = ~l.neg
    BY <1>1 DEF Minus, Difference
  <1>4. l.neg = r.neg /\ ~Less(l.mag, r.mag) => v = p - q /\ s.neg = l.neg
    BY <1>1 DEF Minus, Difference
  <1>5. Plain(s.a) /\ Plain(s.b)
    BY DEF Minus, Difference
  <1>6. Less(l.mag, r.mag) => p = 0 \/ p < q
    BY <1>1, LessIsLess, NoDigits
  <1>7. ~Less(l.mag, r.mag) => p >= q
    BY <1>1, NotLess
  <1> HIDE DEF s, v, p, q, x, y
  <1>8. (IF s.neg THEN - v ELSE v) = IF l.neg /\ ~r.neg /\ -x < y THEN y - x ELSE x - y
    <2>1. CASE l.neg /\ ~r.neg
      <3>1. x = - p /\ y = q /\ v = q + p /\ s.neg = ~Less(l.mag, r.mag)
        BY <1>1, <1>2, <2>1
      <3>2. CASE Less(l.mag, r.mag)
        BY <1>1, <1>6, <2>1, <3>1, <3>2
      <3>3. CASE ~Less(l.mag, r.mag)
        <4>1. s.neg
          BY <3>1, <3>3
        <4>2. ~(-x < y) /\ - v = x - y
          BY <1>1, <1>7, <3>1, <3>3
        <4> QED BY <4>1, <4>2
      <3> QED BY <3>2, <3>3
    <2>2. CASE ~l.neg /\ r.neg
      <3>1. x = p /\ y = - q /\ v = q + p /\ ~s.neg
        BY <1>1, <1>2, <2>2
      <3> QED BY <1>1, <2>2, <3>1
    <2>3. CASE l.neg = r.neg /\ Less(l.mag, r.mag)
      <3>1. v = q - p /\ s.neg = ~l.neg
        BY <1>3, <2>3
      <3>2. CASE l.neg
        <4>1. ~s.neg /\ r.neg
          BY <2>3, <3>1, <3>2
        <4>2. x = - p /\ y = - q
          BY <1>1, <3>2, <4>1
        <4>3. v = x - y
          BY <1>1, <3>1, <4>2
        <4> QED BY <4>1, <4>3
      <3>3. CASE ~l.neg
        <4>1. s.neg /\ ~r.neg
          BY <2>3, <3>1, <3>3
        <4>2. x = p /\ y = q
          BY <1>1, <3>3, <4>1
        <4>3. - v = x - y
          BY <1>1, <3>1, <4>2
        <4> QED BY <3>3, <4>1, <4>3
      <3> QED BY <3>2, <3>3
    <2>4. CASE l.neg = r.neg /\ ~Less(l.mag, r.mag)
      <3>1. v = p - q /\ s.neg = l.neg
        BY <1>4, <2>4
      <3>2. CASE l.neg
        <4>1. s.neg /\ r.neg
          BY <2>4, <3>1, <3>2
        <4>2. x = - p /\ y = - q
          BY <1>1, <3>2, <4>1
        <4>3. - v = x - y
          BY <1>1, <3>1, <4>2
        <4> QED BY <4>1, <4>3
      <3>3. CASE ~l.neg
        <4>1. ~s.neg /\ ~r.neg
          BY <2>4, <3>1, <3>3
        <4>2. x = p /\ y = q
          BY <1>1, <3>3, <4>1
        <4>3. v = x - y
          BY <1>1, <3>1, <4>2
        <4> QED BY <3>3, <4>1, <4>3
      <3> QED BY <3>2, <3>3
    <2> QED BY <1>1, <2>1, <2>2, <2>3, <2>4
  <1> QED BY <1>5, <1>8 DEF s, v, x, y

LEMMA Operands ==
  ASSUME IInv
  PROVE  call.left \in Bigints /\ call.right \in Bigints /\ stack \in Seq(Bigints)
  BY Parts DEF Calls, MachineFine

\* The result of a call is the top of the stack.
LEMMA Pushed ==
  ASSUME IInv, NEW n \in Bigints, Push(n)
  PROVE  pc' = "scan" /\ stack'[Len(stack')] = n
  BY Operands DEF Push

LEMMA BigintRight == ASSUME IInv, Works, ReturnBigint PROVE RightAnswer
  <1> DEFINE r == Result(sum)
             n == [neg |-> call.neg, mag |-> r]
  <1>1. pc = "digits" /\ sum.cnt = LastDigit(sum) /\ sum.to = "bigint" /\ Push(n)
    BY DEF ReturnBigint, SumDone
  <1>2. r \in Vectors /\ call.neg \in BOOLEAN
    BY ComputeTypes
  <1>3. n \in Bigints
    BY <1>2 DEF Bigints
  <1>4. pc' = "scan" /\ stack'[Len(stack')] = n
    BY <1>1, <1>3, Pushed
  <1>5. /\ call.oper \in {"+", "-"} /\ call.neg = Asked.neg
        /\ sum.op = Asked.op /\ sum.a = Asked.a /\ sum.b = Asked.b
    BY <1>1 DEF Works, CallWorks
  <1>6. /\ n.neg = call.neg /\ n.mag = r
    OBVIOUS
  <1> HIDE DEF n, r
  <1> DEFINE v == IF sum.op = "-" THEN Value(sum.a) - Value(sum.b)
                                  ELSE Value(sum.a) + Value(sum.b)
  <1>7. ASSUME Plain(sum.a), Plain(sum.b)
        PROVE  Written(n) /\ SignedValue(n) = IF call.neg THEN - v ELSE v
    <2>1. Plain(r) /\ Value(r) = v
      BY <1>1, <1>7, ComputeTypes, SumReturns DEF Works, r
    <2> QED BY <1>6, <2>1 DEF Written, SignedValue
  <1>8. call.left \in Bigints /\ call.right \in Bigints
    BY Operands
  <1>9. ASSUME Written(call.left), Written(call.right), call.oper = "+"
        PROVE  Written(n) /\ SignedValue(n) = SignedValue(call.left) + SignedValue(call.right)
    <2>1. Asked = Plus(call.left, call.right)
      BY <1>9 DEF Asked
    <2>2. /\ Plain(sum.a) /\ Plain(sum.b)
          /\ (IF call.neg THEN - v ELSE v) = SignedValue(call.left) + SignedValue(call.right)
      BY <1>5, <1>8, <1>9, <2>1, PlusRight DEF Written
    <2> QED BY <1>7, <2>2
  <1>10. ASSUME Written(call.left), Written(call.right), call.oper = "-"
         PROVE  LET x == SignedValue(call.left)
                    y == SignedValue(call.right)
                IN  /\ Written(n)
                    /\ SignedValue(n)
                         = IF call.left.neg /\ ~call.right.neg /\ -x < y THEN y - x ELSE x - y
    <2>1. Asked = Minus(call.left, call.right)
      BY <1>10 DEF Asked
    <2>2. /\ Plain(sum.a) /\ Plain(sum.b)
          /\ LET x == SignedValue(call.left)
                 y == SignedValue(call.right)
             IN  (IF call.neg THEN - v ELSE v)
                    = IF call.left.neg /\ ~call.right.neg /\ -x < y THEN y - x ELSE x - y
      BY <1>5, <1>8, <1>10, <2>1, MinusRight DEF Written
    <2> QED BY <1>7, <2>2
  <1> QED BY <1>4, <1>5, <1>9, <1>10 DEF RightAnswer

\* The operands of a product by size.
LEMMA Sorted ==
  ASSUME IInv, Works, Multiplies, call.oper = "*", Written(call.left), Written(call.right)
  PROVE  /\ Plain(mul.big) /\ Plain(mul.small) /\ mul.big = Larger
         /\ Value(mul.big) \in Nat /\ Value(mul.small) \in Nat
         /\ Value(mul.big) >= Value(mul.small)
         /\ call.neg = (call.left.neg # call.right.neg)
         /\ \/ Value(mul.big) = Value(call.left.mag) /\ Value(mul.small) = Value(call.right.mag)
            \/ Value(mul.big) = Value(call.right.mag) /\ Value(mul.small) = Value(call.left.mag)
  <1>1. /\ mul.big = Larger /\ mul.small = Smaller
        /\ call.neg = (call.left.neg # call.right.neg) /\ ~Less(mul.big, mul.small)
    BY DEF Works, CallWorks
  <1>2. \/ mul.big = call.left.mag /\ mul.small = call.right.mag
        \/ mul.big = call.right.mag /\ mul.small = call.left.mag
    BY <1>1 DEF Larger, Smaller
  <1>3. Plain(mul.big) /\ Plain(mul.small) /\ mul.big \in Vectors /\ mul.small \in Vectors
    BY <1>2, ComputeTypes, Fields DEF Written
  <1>4. /\ Value(mul.big) \in Nat /\ Value(mul.small) \in Nat
        /\ Value(mul.big) >= Value(mul.small)
    BY <1>1, <1>3, AboveStep, AboveNat, NotLess DEF Plain
  <1> QED BY <1>1, <1>2, <1>3, <1>4

LEMMA ProductRight == ASSUME IInv, Works, ReturnProduct PROVE RightAnswer
  <1> DEFINE n == [neg |-> call.neg, mag |-> mul.result]
             B == Value(mul.big)
             S == Value(mul.small)
             x == SignedValue(call.left)
             y == SignedValue(call.right)
  <1>1. pc = "down" /\ mul.tmpBig = <<>> /\ call.oper = "*" /\ Push(n) /\ Multiplies
    BY DEF ReturnProduct, Multiplies
  <1>2. n \in Bigints
    BY ComputeTypes DEF Bigints
  <1>3. pc' = "scan" /\ stack'[Len(stack')] = n
    BY <1>1, <1>2, Pushed
  <1>4. ASSUME Written(call.left), Written(call.right)
        PROVE  /\ Written(n) /\ SignedValue(n) = x * y
               /\ ~(0 \in {x, y} \/ PowerOfTwo(Value(Larger)))
    <2>1. /\ Plain(mul.big) /\ Plain(mul.small) /\ mul.big = Larger
          /\ B \in Nat /\ S \in Nat /\ B >= S
          /\ call.neg = (call.left.neg # call.right.neg)
          /\ \/ B = Value(call.left.mag) /\ S = Value(call.right.mag)
             \/ B = Value(call.right.mag) /\ S = Value(call.left.mag)
      BY <1>1, <1>4, Sorted
    <2>2. Down(mul)
      BY <1>1, <2>1 DEF Works, ProductWorks
    <2>3. mul \in Products /\ Numerals(mul) /\ Value(mul.tmpBig) = 0
      BY <1>1, <2>2, ComputeTypes, NoDigits DEF Down
    <2>4. Value(mul.result) = B * S
      <3>1. Value(mul.result) + 0 * S = B * S /\ Value(mul.result) \in Nat
        BY <2>2, <2>3, Worths DEF Down, Kept
      <3> QED BY <2>1, <3>1
    <2>5. S # 0 /\ ~PowerOfTwo(B)
      <3>1. CASE Multiple(mul) /\ LeftOver(mul, 2)
        <4>1. Value(mul.power) > 0 /\ Value(mul.power) \in Nat
          BY <2>3, <3>1, Worths DEF Multiple, PowerOfTwo
        <4> QED BY <1>1, <2>3, <3>1, <4>1 DEF LeftOver
      <3>2. CASE Spent(mul)
        BY <1>1, <3>2 DEF Spent
      <3> QED BY <2>2, <3>1, <3>2 DEF Down
    <2>6. SignedValue(n) = IF call.neg THEN - (B * S) ELSE B * S
      BY <2>4 DEF SignedValue
    <2>7. /\ x \in {Value(call.left.mag), - Value(call.left.mag)}
          /\ y \in {Value(call.right.mag), - Value(call.right.mag)}
          /\ call.left.neg \in BOOLEAN /\ call.right.neg \in BOOLEAN
      BY Operands DEF SignedValue, Bigints
    <2>8. ~(0 \in {x, y})
      <3> HIDE DEF x, y, B, S
      <3> QED BY <2>1, <2>5, <2>7
    <2>9. x * y = IF call.neg THEN - (B * S) ELSE B * S
      <3> DEFINE p == Value(call.left.mag)
                 q == Value(call.right.mag)
      <3>1. /\ x = (IF call.left.neg THEN - p ELSE p) /\ y = (IF call.right.neg THEN - q ELSE q)
            /\ p \in Nat /\ q \in Nat
        BY <2>1 DEF SignedValue
      <3>2. p * q = B * S
        <4>1. (B = p /\ S = q) \/ (B = q /\ S = p)
          BY <2>1
        <4> HIDE DEF p, q, B, S
        <4> QED BY <2>1, <4>1
      <3> HIDE DEF p, q, x, y
      <3>3. (- p) * (- q) = p * q /\ (- p) * q = - (p * q) /\ p * (- q) = - (p * q)
        BY <3>1
      <3> QED BY <2>1, <2>7, <3>1, <3>2, <3>3
    <2>10. Written(n)
      BY <2>3 DEF Written, Numerals
    <2> QED BY <2>1, <2>5, <2>6, <2>8, <2>9, <2>10
  <1> HIDE DEF n
  <1> QED BY <1>1, <1>3, <1>4 DEF RightAnswer

\* The exponents that pow's loop does not start with.
LEMMA NotAboveZero ==
  ASSUME NEW e \in Bigints, ~Below(Small(0), Unsigned(e))
  PROVE  e.mag \in {<<>>, <<-48>>}
  <1>1. e \in [neg : BOOLEAN, mag : Vectors] /\ e.mag \in Seq(Bytes) /\ Len(e.mag) \in Nat
    BY DEF Bigints, Vectors
  <1>2. /\ Raw(0) = <<-48>> /\ Len(<<-48>>) = 1 /\ <<-48>>[1] = -48
        /\ Small(0).neg = FALSE /\ Small(0).mag = <<-48>>
    <2>1. Byte(0 - 48) = -48
      BY ByteSame DEF Bytes
    <2> QED BY <2>1 DEF Raw, Small
  <1>3. CASE Len(e.mag) = 0
    BY <1>1, <1>3
  <1>4. CASE Len(e.mag) # 0
    <2>1. e.mag[1] \in -48 .. 207
      <3>1. e.mag[1] \in Bytes
        BY <1>1, <1>4
      <3> QED BY <3>1 DEF Bytes
    <2>2. ~Less(e.mag, <<-48>>)
      <3>1. SUFFICES ASSUME Less(e.mag, <<-48>>) PROVE FALSE
        OBVIOUS
      <3>2. PICK i \in 1 .. Len(e.mag) : Len(e.mag) = 1 /\ e.mag[i] < <<-48>>[i]
        BY <1>1, <1>2, <1>4, <3>1 DEF Less
      <3>3. i = 1
        BY <3>2
      <3> QED BY <1>2, <2>1, <3>2, <3>3
    <2>3. Unsigned(e).neg = FALSE /\ Unsigned(e).mag = e.mag
      <3>1. CASE e.neg = TRUE
        <4>1. Below(e, Small(0))
          BY <1>2, <3>1 DEF Below
        <4> QED BY <1>1, <3>1, <4>1 DEF Unsigned
      <3>2. CASE e.neg = FALSE
        <4>1. ~Below(e, Small(0))
          BY <1>2, <2>2, <3>2 DEF Below
        <4> QED BY <3>2, <4>1 DEF Unsigned
      <3> QED BY <1>1, <3>1, <3>2
    <2>4. ~Less(<<-48>>, e.mag)
      BY <1>2, <2>3 DEF Below
    <2>5. Len(e.mag) = 1
      BY <1>1, <1>2, <1>4, <2>4 DEF Less
    <2>6. ~(-48 < e.mag[1])
      <3>1. ASSUME -48 < e.mag[1] PROVE FALSE
        <4>1. /\ 1 \in 1 .. Len(<<-48>>) /\ <<-48>>[1] < e.mag[1] /\ Len(<<-48>>) = Len(e.mag)
              /\ \A j \in 1 + 1 .. Len(<<-48>>) : <<-48>>[j] = e.mag[j]
          BY <1>2, <2>5, <3>1
        <4> QED BY <2>4, <4>1 DEF Less
      <3> QED BY <3>1
    <2>7. e.mag[1] = -48
      BY <2>1, <2>6
    <2>8. e.mag = <<e.mag[1]>>
      BY <1>1, <2>5
    <2> QED BY <2>7, <2>8
  <1> QED BY <1>3, <1>4

LEMMA PowerRight == ASSUME IInv, Works, ReturnPower PROVE RightAnswer
  <1>1. pc = "pow" /\ PowLoops = FALSE
    BY DEF ReturnPower
  <1>2. /\ call.oper = "^"
        /\ power.exponent \in {Small(2), Unsigned(call.right)}
    BY <1>1 DEF Works, CallWorks
  <1>3. Byte(0 - 48) = -48 /\ Byte(2 - 48) = -46
    BY ByteSame DEF Bytes
  <1>4. CASE call.left = Small(0)
    BY <1>2, <1>4 DEF RightAnswer
  <1>5. CASE call.left # Small(0)
    <2>1. ~Below(Small(0), power.exponent)
      BY <1>1, <1>5 DEF PowLoops
    <2>2. Below(Small(0), Small(2))
      BY <1>3 DEF Below, Small, Raw, Less
    <2>3. power.exponent = Unsigned(call.right)
      BY <1>2, <2>1, <2>2
    <2>4. call.right.mag \in {<<>>, <<-48>>}
      <3>1. ~Below(Small(0), Unsigned(call.right)) /\ call.right \in Bigints
        BY <2>1, <2>3, Operands
      <3> QED BY <3>1, NotAboveZero
    <2> QED BY <1>2, <1>3, <2>4 DEF RightAnswer, Raw
  <1> QED BY <1>4, <1>5

\* A halving that ends the program.
LEMMA EndRight ==
  ASSUME IInv, Works, Multiplies, pc' = "ended",
         Plain(mul.big) /\ Plain(mul.small) => Hopeless(mul)
  PROVE  RightAnswer
  <1>1. call.oper \in {"*", "^"}
    BY DEF Works, CallWorks
  <1>2. ASSUME call.oper = "*", Written(call.left), Written(call.right)
        PROVE  0 \in {SignedValue(call.left), SignedValue(call.right)} \/ PowerOfTwo(Value(Larger))
    <2>1. Hopeless(mul)
      BY <1>2, Sorted
    <2>2. CASE PowerOfTwo(Value(mul.big))
      BY <1>2, <2>2, Sorted
    <2>3. CASE Value(mul.small) = 0
      <3>1. Value(call.left.mag) = 0 \/ Value(call.right.mag) = 0
        BY <1>2, <2>3, Sorted
      <3> QED BY <3>1 DEF SignedValue
    <2> QED BY <2>1, <2>2, <2>3 DEF Hopeless
  <1> QED BY <1>1, <1>2 DEF RightAnswer

LEMMA AnswersRight == ASSUME IInv, Works, NeverRefused', Next, Returns PROVE RightAnswer
  <1>1. pc \in {"digits", "up", "down", "pow"} /\ pc' \in {"scan", "ended"}
    BY DEF Returns
  <1>2. CASE Tokens
    <2>1. pc = "scan"
      BY <1>2 DEF Tokens, PushNumber, Unimplemented, DoDebug, DoClear, DoPrintall, DoPrint, DoDup,
                  DupOfNothing, DoQuit, StackEmpty, DoPlus, DoMinus, DoTimes, DoDivide, DoPow,
                  PopOperands, Scan
    <2> QED BY <1>1, <2>1
  <1>3. CASE PlusDigit \/ MinusDigit
    BY <1>1, <1>3 DEF PlusDigit, MinusDigit
  <1>4. CASE DoublePower \/ DoubleSmall \/ TakePower \/ SubtractPower
    <2>1. pc' = "ended" /\ outcome' = "domain_error"
      BY <1>1, <1>4 DEF DoublePower, DoubleSmall, TakePower, SubtractPower, StartSum
    <2> QED BY <2>1 DEF NeverRefused
  <1>5. CASE Doubled \/ Square \/ Squared
    BY <1>1, <1>5 DEF Doubled, Square, Squared, StartProduct
  <1>6. CASE UpDone \/ Taken \/ SkipPower
    <2>1. Multiplies
      BY <1>6 DEF UpDone, Taken, SkipPower, SumDone, InDown, Multiplies
    <2>2. Plain(mul.big) /\ Plain(mul.small) => (pc' = "ended" => Hopeless(mul))
      BY <1>6, UpDoneWorks, TakenWorks, SkipPowerWorks
    <2>3. pc' = "ended"
      BY <1>1, <1>6 DEF UpDone, Taken, SkipPower, HalveBoth
    <2> QED BY <2>1, <2>2, <2>3, EndRight
  <1>7. CASE ReturnBigint \/ ReturnProduct \/ ReturnPower
    BY <1>7, BigintRight, ProductRight, PowerRight
  <1> QED BY <1>2, <1>3, <1>4, <1>5, <1>6, <1>7 DEF Next, Compute

------------------------------------------------------------------------------
(* How far the loops have to go. *)

Loops    == pc \in {"digits", "up", "down"}
Climbing == pc = "up" \/ (pc = "digits" /\ sum.to \in {"power", "small"})
Falling  == pc = "down" \/ (pc = "digits" /\ sum.to \in {"result", "big"})

\* The greatest number of as many digits as v.
Limit(v) == Value([i \in 1 .. Len(v) |-> 9])

\* The loops of a product first, then the power, the step of their bodies, and the digits.
Turn     == IF Climbing THEN 2 ELSE IF Falling THEN 1 ELSE 0
Distance == IF Climbing THEN 2 * Limit(mul.big) + 1 - Value(mul.power)
            ELSE IF Falling THEN Value(mul.power) ELSE 0
Place    == CASE pc = "up"   -> 2
              [] pc = "down" -> 3
              [] OTHER       -> CASE sum.to \in {"power", "big"} -> 1
                                  [] sum.to = "small"            -> 3
                                  [] sum.to = "result"           -> 2
                                  [] OTHER                       -> 0
Digits   == IF pc = "digits" THEN LastDigit(sum) - sum.cnt ELSE 0

Remaining == <<Turn, Distance, Place, Digits>>

Lesser == {p \in Nat \X Nat : p[1] < p[2]}
Nearer == LexProductOrdering(Lesser, Nat, 4)

\* The power is a number of its own, whatever the operands' digits are.
Steady ==
  /\ Climbing \/ Falling =>
       Plain(mul.power) /\ (mul.power # <<>> => Value(mul.power) > 0)
  /\ Climbing => mul.power # <<>> /\ Value(mul.power) <= 2 * Limit(mul.big) + 1
  /\ pc = "digits" /\ sum.to = "power" =>
       Serves(mul.power, mul.power) /\ Value(mul.power) <= Limit(mul.big)

\* Four numbers, of which the first that changes falls, do not change forever.
LEMMA NearerEnds == IsWellFoundedOn(Nearer, [1 .. 4 -> Nat])
  <1>1. IsWellFoundedOn(Lesser, Nat)
    <2>1. \A T \in SUBSET Nat : T # {} => \E m \in T : \A k \in T : ~(<<k, m>> \in Lesser)
      BY Smallest DEF Lesser
    <2> QED BY <2>1, MinWF
  <1> QED BY <1>1, WFLexProductOrdering DEF Nearer

LEMMA NearerIn ==
  ASSUME NEW p \in [1 .. 4 -> Nat], NEW q \in [1 .. 4 -> Nat],
         \E j \in 1 .. 4 : p[j] < q[j] /\ \A i \in 1 .. j - 1 : p[i] = q[i]
  PROVE  <<p, q>> \in Nearer
  <1>1. PICK j \in 1 .. 4 : p[j] < q[j] /\ \A i \in 1 .. j - 1 : p[i] = q[i]
    OBVIOUS
  <1>2. <<p[j], q[j]>> \in Lesser
    BY <1>1 DEF Lesser
  <1> QED BY <1>1, <1>2 DEF Nearer, LexProductOrdering

\* No number of as few digits is greater than nines.
LEMMA NinesAreMost ==
  ASSUME NEW v \in Vectors
  PROVE  /\ Limit(v) \in Nat
         /\ \A u \in Vectors : Plain(u) /\ Len(u) <= Len(v) => Value(u) <= Limit(v)
  <1> DEFINE nines == [i \in 1 .. Len(v) |-> 9]
  <1>1. Len(v) \in Nat
    BY Elements
  <1>2. nines \in Vectors /\ Len(nines) = Len(v) /\ Plain(nines)
    BY <1>1 DEF Vectors, Bytes, Plain, Proper
  <1>3. Value(nines) \in Nat
    BY <1>2, AboveStep, AboveNat DEF Plain
  <1>4. ASSUME NEW u \in Vectors, Plain(u), Len(u) <= Len(v) PROVE Value(u) <= Value(nines)
    <2>1. ~Less(nines, u)
      <3>1. ~(Len(nines) < Len(u)) /\ Len(u) \in Nat
        BY <1>1, <1>2, <1>4, Elements
      <3>2. ASSUME NEW i \in 1 .. Len(nines), Len(nines) = Len(u) PROVE ~(nines[i] < u[i])
        <4>1. nines[i] = 9 /\ u[i] \in 0 .. 9
          BY <1>1, <1>2, <1>4, <3>2 DEF Plain, Proper
        <4> QED BY <4>1
      <3> HIDE DEF nines
      <3> QED BY <3>1, <3>2 DEF Less
    <2> HIDE DEF nines
    <2>2. Value(u) \in Nat
      BY <1>4, AboveStep, AboveNat DEF Plain
    <2> QED BY <1>2, <1>3, <1>4, <2>1, <2>2, NotLess
  <1> QED BY <1>3, <1>4 DEF Limit

\* All that remains is counted in natural numbers.
LEMMA RemainingCounts == IInv /\ Works /\ Steady /\ Loops => Remaining \in [1 .. 4 -> Nat]
  <1> SUFFICES ASSUME IInv, Works, Steady, Loops PROVE Remaining \in [1 .. 4 -> Nat]
    OBVIOUS
  <1>1. mul.big \in Vectors /\ mul.power \in Vectors
    BY ComputeTypes, Fields
  <1>2. Limit(mul.big) \in Nat
    BY <1>1, NinesAreMost
  <1>3. Plain(mul.power) => Value(mul.power) \in Nat
    BY <1>1, AboveStep, AboveNat DEF Plain
  <1>4. Distance \in Nat
    BY <1>2, <1>3 DEF Distance, Steady
  <1>5. Digits \in Nat
    <2>1. CASE pc = "digits"
      <3>1. sum.cnt <= LastDigit(sum) /\ sum.cnt \in Nat /\ sum.a \in Vectors /\ sum.b \in Vectors
        BY <2>1, ComputeTypes, SumFields DEF Works, SumWorks, Counts
      <3>2. LastDigit(sum) \in Nat
        BY <3>1, Elements DEF LastDigit
      <3> QED BY <2>1, <3>1, <3>2 DEF Digits
    <2> QED BY <2>1 DEF Digits
  <1>6. Turn \in Nat /\ Place \in Nat
    BY DEF Turn, Place
  <1> QED BY <1>4, <1>5, <1>6 DEF Remaining

\* One step nearer to the end, or at the end.
Shorter ==
  \/ ~Loops'
  \/ Turn' < Turn
  \/ Turn' = Turn /\ Distance' < Distance
  \/ Turn' = Turn /\ Distance' = Distance /\ Place' < Place
  \/ Turn' = Turn /\ Distance' = Distance /\ Place' = Place /\ Digits' < Digits

LEMMA ShorterIsNearer ==
  ASSUME IInv, Works, Steady, Loops, Shorter,
         (Loops => Remaining \in [1 .. 4 -> Nat])'
  PROVE  ~Loops' \/ <<Remaining', Remaining>> \in Nearer
  <1> SUFFICES ASSUME Loops' PROVE <<Remaining', Remaining>> \in Nearer
    OBVIOUS
  <1> DEFINE p == Remaining'
             q == Remaining
  <1>1. p \in [1 .. 4 -> Nat] /\ q \in [1 .. 4 -> Nat]
    BY RemainingCounts
  <1>2. /\ p[1] = Turn' /\ p[2] = Distance' /\ p[3] = Place' /\ p[4] = Digits'
        /\ q[1] = Turn  /\ q[2] = Distance  /\ q[3] = Place  /\ q[4] = Digits
    BY DEF Remaining
  <1> HIDE DEF p, q
  <1>3. \/ p[1] < q[1]
        \/ p[1] = q[1] /\ p[2] < q[2]
        \/ p[1] = q[1] /\ p[2] = q[2] /\ p[3] < q[3]
        \/ p[1] = q[1] /\ p[2] = q[2] /\ p[3] = q[3] /\ p[4] < q[4]
    BY <1>2 DEF Shorter
  <1>4. \E j \in 1 .. 4 : p[j] < q[j] /\ \A i \in 1 .. j - 1 : p[i] = q[i]
    BY <1>3
  <1>5. <<p, q>> \in Nearer
    BY <1>1, <1>4, NearerIn
  <1> QED BY <1>5 DEF p, q

LEMMA DigitShorter == ASSUME IInv, Works, Steady, PlusDigit \/ MinusDigit PROVE Steady' /\ Shorter
  <1>1. /\ pc = "digits" /\ sum.cnt < LastDigit(sum)
        /\ UNCHANGED <<pc, mul>>
        /\ sum' \in {AddDigit(sum), SubDigit(sum)}
    BY DEF PlusDigit, MinusDigit, InLoop
  <1>2. /\ sum'.to = sum.to /\ sum'.op = sum.op /\ sum'.a = sum.a /\ sum'.b = sum.b
        /\ sum'.cnt = sum.cnt + 1
    BY <1>1, ComputeTypes DEF AddDigit, SubDigit, SumsFine, Sums
  <1>3. Steady'
    BY <1>1, <1>2 DEF Steady, Climbing, Falling, Serves
  <1>4. Turn' = Turn /\ Distance' = Distance /\ Place' = Place
    BY <1>1, <1>2 DEF Turn, Distance, Place, Climbing, Falling
  <1>5. Digits' < Digits
    <2>1. sum.cnt \in Nat /\ sum.a \in Vectors /\ sum.b \in Vectors
      BY ComputeTypes, SumFields
    <2>2. LastDigit(sum) \in Nat
      BY <2>1, Elements DEF LastDigit
    <2>3. LastDigit(sum') = LastDigit(sum)
      BY <1>2 DEF LastDigit
    <2>4. Digits' = LastDigit(sum) - (sum.cnt + 1) /\ Digits = LastDigit(sum) - sum.cnt
      BY <1>1, <1>2, <2>3 DEF Digits
    <2> QED BY <2>1, <2>2, <2>4
  <1> QED BY <1>3, <1>4, <1>5 DEF Shorter

LEMMA DoublePowerShorter == ASSUME IInv, Steady, DoublePower PROVE Steady' /\ Shorter
  <1>1. /\ pc = "up" /\ Less(mul.power, mul.big) /\ mul' = mul /\ pc' = "digits"
        /\ sum' = Loop("+", mul.power, mul.power, "power")
    BY DEF DoublePower, StartSum
  <1>2. /\ sum'.to = "power" /\ sum'.op = "+" /\ sum'.a = mul.power /\ sum'.b = mul.power
    BY <1>1 DEF Loop
  <1>3. Climbing /\ Climbing'
    BY <1>1, <1>2 DEF Climbing
  <1>4. Value(mul.power) <= Limit(mul.big)
    <2>1. mul.power \in Vectors /\ mul.big \in Vectors
      BY ComputeTypes, Fields
    <2>2. Len(mul.power) <= Len(mul.big)
      BY <1>1, <2>1, Elements DEF Less
    <2> QED BY <1>3, <2>1, <2>2, NinesAreMost DEF Steady
  <1>5. Steady'
    BY <1>1, <1>2, <1>3, <1>4 DEF Steady, Serves
  <1>6. Turn' = Turn /\ Distance' = Distance
    BY <1>1, <1>3 DEF Turn, Distance
  <1>7. Place' = 1 /\ Place = 2
    BY <1>1, <1>2 DEF Place
  <1> QED BY <1>5, <1>6, <1>7 DEF Shorter

LEMMA DoubleSmallShorter == ASSUME IInv, Works, Steady, DoubleSmall PROVE Steady' /\ Shorter
  <1> DEFINE r == Result(sum)
             P == Value(mul.power)
             L == Limit(mul.big)
  <1>1. /\ pc = "digits" /\ sum.cnt = LastDigit(sum) /\ sum.to = "power" /\ pc' = "digits"
        /\ mul' = [mul EXCEPT !.power = r] /\ sum'.to = "small"
    BY DEF DoubleSmall, SumDone, StartSum, Loop
  <1>2. mul \in Products /\ mul.power \in Vectors /\ mul.big \in Vectors /\ r \in Vectors
    BY ComputeTypes, Fields
  <1>3. mul'.big = mul.big /\ mul'.power = r
    BY <1>1, <1>2 DEF Products
  <1>4. Climbing /\ Climbing' /\ ~(pc' = "digits" /\ sum'.to = "power")
    BY <1>1 DEF Climbing
  <1>5. /\ Plain(mul.power) /\ mul.power # <<>> /\ P > 0 /\ P <= L
        /\ sum.op = "+" /\ sum.a = mul.power /\ sum.b = mul.power
    BY <1>1, <1>4 DEF Steady, Serves
  <1>6. Plain(r) /\ Value(r) = P + P
    BY <1>1, <1>5, SumForProduct
  <1>7. L \in Nat /\ P \in Nat
    BY <1>2, <1>5, NinesAreMost, AboveStep, AboveNat DEF Plain
  <1> HIDE DEF P, L, r
  <1>8. r # <<>> /\ Value(r) > 0 /\ Value(r) <= 2 * L + 1
    BY <1>2, <1>5, <1>6, <1>7, SomeDigits
  <1>9. Steady'
    BY <1>3, <1>4, <1>6, <1>8 DEF Steady, L
  <1>10. Turn' = Turn
    BY <1>4 DEF Turn
  <1>11. Distance' = 2 * L + 1 - (P + P) /\ Distance = 2 * L + 1 - P
    BY <1>3, <1>4, <1>6 DEF Distance, P, L
  <1>12. Distance' < Distance
    BY <1>5, <1>7, <1>11
  <1> QED BY <1>9, <1>10, <1>12 DEF Shorter

LEMMA DoubledShorter == ASSUME IInv, Steady, Doubled PROVE Steady' /\ Shorter
  <1>1. /\ pc = "digits" /\ sum.to = "small" /\ pc' = "up"
        /\ mul' = [mul EXCEPT !.tmpSmall = Result(sum)]
    BY DEF Doubled, SumDone
  <1>2. mul'.big = mul.big /\ mul'.power = mul.power
    BY <1>1, ComputeTypes DEF Products
  <1>3. Climbing /\ Climbing'
    BY <1>1 DEF Climbing
  <1>4. Steady'
    BY <1>1, <1>2, <1>3 DEF Steady
  <1>5. Turn' = Turn /\ Distance' = Distance
    BY <1>2, <1>3 DEF Turn, Distance
  <1>6. Place' = 2 /\ Place = 3
    BY <1>1 DEF Place
  <1> QED BY <1>4, <1>5, <1>6 DEF Shorter

\* A halving makes the power less, or ends the program.
LEMMA HalvingShortens ==
  ASSUME IInv, Steady, Climbing \/ Falling, NEW m \in Products, HalveBoth(m), m.power = mul.power
  PROVE  Steady' /\ (pc' = "ended" \/ (pc' = "down" /\ Value(mul'.power) < Value(mul.power)))
  <1>1. CASE <<>> \in {m.power, m.tmpSmall}
    <2>1. pc' = "ended"
      BY <1>1 DEF HalveBoth
    <2> QED BY <2>1 DEF Steady, Climbing, Falling
  <1>2. CASE <<>> \notin {m.power, m.tmpSmall}
    <2> DEFINE h == Halve(mul.power)
    <2>1. /\ pc' = "down" /\ mul' = [m EXCEPT !.power = Halve(@), !.tmpSmall = Halve(@)]
          /\ mul.power # <<>>
      BY <1>2 DEF HalveBoth
    <2>2. mul'.power = h
      BY <2>1 DEF Products
    <2>3. mul.power \in Vectors /\ Plain(mul.power) /\ Value(mul.power) > 0
      BY <2>1, ComputeTypes DEF Steady
    <2>4. /\ h \in Vectors /\ Plain(h) /\ Value(h) \in Nat /\ Value(mul.power) \in Nat
          /\ h # <<>> => h[Len(h)] # 0
      BY <2>3, HalveType, HalveHalves DEF Plain
    <2>5. PICK odd \in {0, 1} : Value(mul.power) = 2 * Value(h) + odd
      BY <2>3, HalveHalves DEF Plain
    <2>6. Value(h) < Value(mul.power)
      BY <2>3, <2>4, <2>5
    <2>7. h # <<>> => Value(h) > 0
      BY <2>4, Lean DEF Plain
    <2> HIDE DEF h
    <2>8. Steady'
      BY <2>1, <2>2, <2>4, <2>7 DEF Steady, Climbing, Falling
    <2> QED BY <2>1, <2>2, <2>6, <2>8
  <1> QED BY <1>1, <1>2

LEMMA HalvingShorter == ASSUME IInv, Steady, UpDone \/ SkipPower \/ Taken PROVE Steady' /\ Shorter
  <1>1. mul \in Products /\ Result(sum) \in Vectors
    BY ComputeTypes
  <1>2. PICK m \in Products : m.power = mul.power /\ HalveBoth(m)
    <2> DEFINE m == [mul EXCEPT !.tmpBig = Result(sum)]
    <2>1. m \in Products /\ m.power = mul.power
      BY <1>1 DEF Products
    <2>2. HalveBoth(mul) \/ HalveBoth(m)
      BY DEF UpDone, SkipPower, Taken
    <2> HIDE DEF m
    <2> QED BY <1>1, <2>1, <2>2
  <1>3. \/ pc = "up" /\ Climbing
        \/ Falling /\ ~Climbing
    BY DEF UpDone, SkipPower, Taken, InDown, SumDone, Climbing, Falling
  <1>4. Steady' /\ (pc' = "ended" \/ (pc' = "down" /\ Value(mul'.power) < Value(mul.power)))
    BY <1>2, <1>3, HalvingShortens
  <1>5. CASE pc' = "ended"
    BY <1>4, <1>5 DEF Shorter, Loops
  <1>6. CASE pc' = "down"
    <2>1. Falling' /\ ~Climbing' /\ Turn' = 1 /\ Distance' = Value(mul'.power)
      BY <1>6 DEF Falling, Climbing, Turn, Distance
    <2>2. CASE Climbing
      BY <1>4, <2>1, <2>2 DEF Shorter, Turn
    <2>3. CASE Falling /\ ~Climbing
      BY <1>4, <1>6, <2>1, <2>3 DEF Shorter, Turn, Distance
    <2> QED BY <1>3, <2>2, <2>3
  <1> QED BY <1>4, <1>5, <1>6

LEMMA TakesShorter == ASSUME IInv, Steady, TakePower \/ SubtractPower PROVE Steady' /\ Shorter
  <1>1. Falling /\ ~Climbing /\ mul'.power = mul.power
    BY ComputeTypes
       DEF TakePower, SubtractPower, InDown, SumDone, Falling, Climbing, Products
  <1>2. CASE pc' = "ended"
    BY <1>2 DEF Steady, Shorter, Loops, Climbing, Falling
  <1>3. CASE pc' # "ended"
    <2>1. /\ pc' = "digits"
          /\ \/ pc = "down" /\ sum'.to = "result"
             \/ pc = "digits" /\ sum.to = "result" /\ sum'.to = "big"
      BY <1>3 DEF TakePower, SubtractPower, InDown, SumDone, StartSum, Loop
    <2>2. Falling' /\ ~Climbing' /\ ~(sum'.to = "power")
      BY <2>1 DEF Falling, Climbing
    <2>3. Steady'
      BY <1>1, <2>2 DEF Steady
    <2>4. Turn' = Turn /\ Distance' = Distance
      BY <1>1, <2>2 DEF Turn, Distance
    <2>5. Place' < Place
      BY <2>1 DEF Place
    <2> QED BY <2>3, <2>4, <2>5 DEF Shorter
  <1> QED BY <1>2, <1>3

LEMMA LoopShorter == ASSUME IInv, Works, Steady, Loops, Compute PROVE Steady' /\ Shorter
  <1>1. CASE ReturnBigint \/ ReturnProduct \/ ReturnPower \/ Square \/ Squared
    <2>1. pc' \in {"scan", "pow"}
      BY <1>1 DEF ReturnBigint, ReturnProduct, ReturnPower, Push, Square, Squared, Loops
    <2> QED BY <2>1 DEF Shorter, Loops, Steady, Climbing, Falling
  <1> QED BY <1>1, DigitShorter, DoublePowerShorter, DoubleSmallShorter, DoubledShorter,
             HalvingShorter, TakesShorter DEF Compute

LEMMA SteadyStart ==
  ASSUME NEW a \in Vectors, NEW b \in Vectors, StartProduct(a, b) PROVE Steady'
  <1>1. pc' = "up" /\ mul'.power = <<1>> /\ mul'.big \in Vectors
    BY DEF StartProduct
  <1>2. Value(<<1>>) = 1 /\ <<1>> # <<>> /\ Plain(<<1>>)
    BY OneDigit DEF Bytes, Plain, Proper
  <1>3. Limit(mul'.big) \in Nat
    BY <1>1, NinesAreMost
  <1>4. 1 <= 2 * Limit(mul'.big) + 1
    BY <1>3
  <1> QED BY <1>1, <1>2, <1>4 DEF Steady

LEMMA TokensSteady == ASSUME IInv, Tokens PROVE Steady'
  <1>1. CASE DoTimes
    <2>1. Left.mag \in Vectors /\ Right.mag \in Vectors
      BY <1>1, OperandsType DEF DoTimes, IInv, PopOperands, Bigints
    <2> QED BY <1>1, <2>1, SteadyStart DEF DoTimes
  <1>2. CASE DoPlus \/ DoMinus
    <2>1. pc' = "ended" \/ (pc' = "digits" /\ sum'.to = "bigint")
      BY <1>2 DEF DoPlus, DoMinus, StartSum, Loop
    <2> QED BY <2>1 DEF Steady, Climbing, Falling
  <1>3. CASE \/ PushNumber \/ Unimplemented \/ DoDebug \/ DoClear \/ DoPrintall \/ DoPrint
             \/ DoDup \/ StackEmpty \/ DoDivide
    <2>1. pc' = "scan"
      BY <1>3 DEF PushNumber, Unimplemented, DoDebug, DoClear, DoPrintall, DoPrint, DoDup,
                  StackEmpty, DoDivide, Scan, Say
    <2> QED BY <2>1 DEF Steady, Climbing, Falling
  <1>4. CASE DupOfNothing \/ DoQuit \/ DoPow
    <2>1. DoPow => pc' = "pow"
      BY DEF DoPow
    <2>2. DupOfNothing \/ DoQuit => pc' = "ended"
      BY DEF DupOfNothing, DoQuit, End
    <2> QED BY <1>4, <2>1, <2>2 DEF Steady, Climbing, Falling
  <1> QED BY <1>1, <1>2, <1>3, <1>4 DEF Tokens

LEMMA SteadyNext == ASSUME IInv, Works, Steady, [Next]_vars PROVE Steady'
  <1>1. CASE UNCHANGED vars
    BY <1>1 DEF vars, Steady, Climbing, Falling, Serves
  <1>2. CASE Tokens
    BY <1>2, TokensSteady
  <1>3. CASE Compute /\ Loops
    BY <1>3, LoopShorter
  <1>4. CASE Compute /\ ~Loops
    <2>1. Square \/ ReturnPower
      BY <1>4 DEF Compute, Loops, PlusDigit, MinusDigit, InLoop, ReturnBigint, SumDone, DoublePower,
                  DoubleSmall, Doubled, UpDone, TakePower, InDown, SubtractPower, Taken, SkipPower,
                  ReturnProduct, Squared
    <2>2. CASE Square
      <3>1. power.base.mag \in Vectors
        BY ComputeTypes DEF Bigints
      <3> QED BY <2>2, <3>1, SteadyStart DEF Square
    <2>3. CASE ReturnPower
      BY <2>3 DEF ReturnPower, Push, Steady, Climbing, Falling
    <2> QED BY <2>1, <2>2, <2>3
  <1> QED BY <1>1, <1>2, <1>3, <1>4 DEF Next

------------------------------------------------------------------------------
(* Theorems. *)

\* For factors of every length: the loops of operator* keep their product.
THEOREM ProductIsKept == Spec => []ProductKept
  <1>1. ASSUME IInv, Works PROVE ProductKept
    <2>1. SUFFICES ASSUME pc \in {"up", "down"}, Plain(mul.big), Plain(mul.small)
                   PROVE  /\ Kept(mul)
                          /\ mul.power # <<>> =>
                               Value(mul.tmpSmall) = Value(mul.power) * Value(mul.small)
      BY DEF ProductKept, Kept
    <2>2. CASE pc = "up"
      <3>1. Up(mul) /\ mul \in Products
        BY <1>1, <2>1, <2>2, ComputeTypes DEF Works, ProductWorks
      <3>2. Value(mul.big) * Value(mul.small) \in Int /\ Value(mul.result) = 0
        BY <3>1, Worths, NoDigits DEF Up
      <3> QED BY <3>1, <3>2 DEF Up, Kept, Multiple
    <2>3. CASE pc = "down"
      BY <1>1, <2>1, <2>3 DEF Works, ProductWorks, Down, Spent, Multiple
    <2> QED BY <2>1, <2>2, <2>3
  <1> QED BY AlwaysWorks, <1>1, PTL

\* For operands of every length: what +, -, * and ^ push, and when * ends the program.
THEOREM ArithmeticIsRight == Spec => Arithmetic
  <1>1. ASSUME IInv, IInv', Works, [Next]_vars PROVE [Returns => RightAnswer]_vars
    <2>1. NeverRefused'
      BY <1>1 DEF IInv
    <2> QED BY <1>1, <2>1, AnswersRight
  <1> QED BY AlwaysWorks, <1>1, PTL DEF Spec, Arithmetic

\* Whatever the operands' digits are: what +, - or * runs comes nearer to its end with every step,
\* in an order in which nothing falls forever.
LoopsShorten ==
  [][Loops /\ Compute => ~Loops' \/ <<Remaining', Remaining>> \in Nearer]_vars

\* The loops of ubigint's +, - and * cannot run forever, whatever the operands and their digits.
THEOREM LoopsRunOut == (Spec => LoopsShorten) /\ IsWellFoundedOn(Nearer, [1 .. 4 -> Nat])
  <1>1. IInv /\ Works /\ Steady /\ [Next]_vars => Steady'
    BY SteadyNext
  <1>2. Init => Steady
    BY DEF Init, Steady, Climbing, Falling
  <1>3. (IInv /\ Works /\ Steady /\ Loops => Remaining \in [1 .. 4 -> Nat])'
    BY RemainingCounts, PTL
  <1>4. ASSUME IInv, Works, Steady, IInv', Works', Steady', [Next]_vars
        PROVE  [Loops /\ Compute => ~Loops' \/ <<Remaining', Remaining>> \in Nearer]_vars
    <2>1. SUFFICES ASSUME Loops, Compute PROVE ~Loops' \/ <<Remaining', Remaining>> \in Nearer
      OBVIOUS
    <2>2. (Loops => Remaining \in [1 .. 4 -> Nat])'
      BY <1>3, <1>4
    <2>3. Shorter
      BY <1>4, <2>1, LoopShorter
    <2> QED BY <1>4, <2>1, <2>2, <2>3, ShorterIsNearer
  <1>5. Spec => LoopsShorten
    BY AlwaysWorks, <1>1, <1>2, <1>4, PTL DEF Spec, LoopsShorten
  <1> QED BY <1>5, NearerEnds
==============================================================================
