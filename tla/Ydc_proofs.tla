----------------------------- MODULE Ydc_proofs -----------------------------
(***************************************************************************)
(* Proofs about Ydc, for any numbers of any length: its types, that the    *)
(* digit loops add up, and that operator- is never asked for less than     *)
(* nothing.                                                                *)
(***************************************************************************)
EXTENDS Ydc, Ubigint_proofs

\* A digit per iteration, and a borrow is at most one.
Carries ==
  /\ Len(sum.digits) = sum.cnt
  /\ sum.op = "-" => sum.carry \in -1 .. 0

\* What the second loop takes, it has compared.
Compared == pc = "digits" /\ sum.to = "result" => ~Less(mul.tmpBig, mul.power)

\* All of it is inductive.
IInv == TypeOK /\ Carries /\ DigitsAddUp /\ Compared /\ NeverRefused

------------------------------------------------------------------------------
(* What the actions are made of. *)

LEMMA NumbersType == Numbers \subseteq Bigints
  <1>1. \A v \in Seq(0 .. 9) : v \in Seq(Bytes)
    BY DEF Bytes
  <1> QED BY <1>1, NumbersAssumption DEF Bigints, Vectors

LEMMA SmallType == ASSUME NEW n \in Int PROVE Small(n) \in Bigints /\ Nil \in Bigints
  <1>1. Byte(n - 48) \in Bytes
    BY ByteType
  <1>2. Raw(n) \in Seq(Bytes)
    BY <1>1 DEF Raw
  <1> QED BY <1>2 DEF Small, Nil, Bigints, Vectors

\* What do_arith pops, and what is left.
LEMMA OperandsType ==
  ASSUME TypeOK, Len(stack) >= 2
  PROVE  Left \in Bigints /\ Right \in Bigints /\ Popped \in Seq(Bigints)
  <1>0. stack \in Seq(Bigints)
    BY DEF TypeOK
  <1>1. stack \in Seq(Bigints) /\ Len(stack) \in Nat
    BY <1>0
  <1>2. \A i \in 1 .. Len(stack) - 2 : stack[i] \in Bigints
    BY <1>1
  <1>3. SubSeq(stack, 1, Len(stack) - 2) \in Seq(Bigints)
    BY <1>1, <1>2, SubSeqProperties
  <1> QED BY <1>1, <1>3 DEF Left, Right, Top, Popped

\* The call of ubigint that bigint's + and - make.
LEMMA PlusAsks ==
  ASSUME NEW l \in Bigints, NEW r \in Bigints
  PROVE  LET s == Plus(l, r)
         IN  /\ s.op \in {"+", "-"} /\ s.a \in Vectors /\ s.b \in Vectors /\ s.neg \in BOOLEAN
             /\ s.op = "-" => ~Less(s.a, s.b)
  <1>1. l.mag \in Vectors /\ r.mag \in Vectors /\ l.neg \in BOOLEAN /\ r.neg \in BOOLEAN
    BY DEF Bigints
  <1>2. CASE l.neg = r.neg
    BY <1>1, <1>2 DEF Plus
  <1>3. CASE l.neg # r.neg /\ l.mag = r.mag
    BY <1>1, <1>3, LessOneWay DEF Plus, Difference
  <1>4. CASE l.neg # r.neg /\ l.mag # r.mag /\ Less(r.mag, l.mag)
    BY <1>1, <1>4, LessOneWay DEF Plus, Difference
  <1>5. CASE l.neg # r.neg /\ l.mag # r.mag /\ ~Less(r.mag, l.mag)
    BY <1>1, <1>5 DEF Plus, Difference
  <1> QED BY <1>2, <1>3, <1>4, <1>5

LEMMA MinusAsks ==
  ASSUME NEW l \in Bigints, NEW r \in Bigints
  PROVE  LET s == Minus(l, r)
         IN  /\ s.op \in {"+", "-"} /\ s.a \in Vectors /\ s.b \in Vectors /\ s.neg \in BOOLEAN
             /\ s.op = "-" => ~Less(s.a, s.b)
  <1>1. l.mag \in Vectors /\ r.mag \in Vectors /\ l.neg \in BOOLEAN /\ r.neg \in BOOLEAN
    BY DEF Bigints
  <1>2. CASE l.neg # r.neg
    BY <1>1, <1>2 DEF Minus
  <1>3. CASE l.neg = r.neg /\ Less(l.mag, r.mag)
    BY <1>1, <1>3, LessOneWay DEF Minus, Difference
  <1>4. CASE l.neg = r.neg /\ ~Less(l.mag, r.mag)
    BY <1>1, <1>4 DEF Minus, Difference
  <1> QED BY <1>2, <1>3, <1>4

\* What is to be shown of the digit loop after a step.
SumsFine == sum \in Sums /\ tally \in [weight : Nat, seen : Int, made : Int]
            /\ Carries /\ DigitsAddUp

\* Where no loop runs, there is nothing to add up.
LEMMA NoSumFine == sum = NoSum /\ tally = NoTally => SumsFine
  <1>1. <<>> \in Vectors /\ 0 \in -10 .. 46
    BY DEF Vectors
  <1> QED BY <1>1 DEF SumsFine, Carries, DigitsAddUp, NoSum, NoTally, Sums, Takers, Loop

\* A loop that is not refused starts with nothing read and nothing made.
LEMMA SumStarts ==
  ASSUME NEW op \in {"+", "-"}, NEW a \in Vectors, NEW b \in Vectors, NEW to \in Takers,
         op = "-" => ~Less(a, b), StartSum(op, a, b, to)
  PROVE  pc' = "digits" /\ outcome' = outcome /\ sum'.to = to /\ SumsFine'
  <1>1. <<>> \in Vectors /\ 0 \in -10 .. 46
    BY DEF Vectors
  <1> QED BY <1>1 DEF StartSum, Loop, NoTally, SumsFine, Carries, DigitsAddUp, Sums

LEMMA Distributes ==
  ASSUME NEW w \in Int, NEW q \in Int, NEW r \in Int, NEW x \in Int, NEW c \in Int,
         x + c = 10 * q + r
  PROVE  w * r + (10 * w) * q = w * x + w * c
  <1>1. w * (x + c) = w * (10 * q + r)
    OBVIOUS
  <1>2. w * (x + c) = w * x + w * c
    OBVIOUS
  <1>3. w * (10 * q + r) = (10 * w) * q + w * r
    OBVIOUS
  <1> QED BY <1>1, <1>2, <1>3

LEMMA DigitType ==
  ASSUME NEW v \in Vectors, NEW i \in Nat \ {0}
  PROVE  Digit(v, i) \in Bytes /\ Digit(v, i) \in Int /\ (Proper(v) => Digit(v, i) \in 0 .. 9)
  <1>1. CASE i <= Len(v)
    BY <1>1, Elements DEF Digit, Proper
  <1>2. CASE ~(i <= Len(v))
    BY <1>2 DEF Digit, Bytes
  <1> QED BY <1>1, <1>2

\* The fields of a loop, and of its history.
LEMMA SumFields ==
  ASSUME SumsFine
  PROVE  /\ sum.op \in {"+", "-", "none"} /\ sum.a \in Vectors /\ sum.b \in Vectors
         /\ sum.to \in Takers \union {"none"} /\ sum.cnt \in Nat /\ sum.cnt + 1 \in Nat \ {0}
         /\ sum.carry \in -10 .. 46 /\ sum.carry \in Int /\ sum.digits \in Vectors
         /\ Len(sum.digits) = sum.cnt
         /\ tally.weight \in Nat /\ tally.seen \in Int /\ tally.made \in Int
  <1>1. sum \in Sums /\ tally \in [weight : Nat, seen : Int, made : Int]
    BY DEF SumsFine
  <1>2. Len(sum.digits) = sum.cnt
    BY DEF SumsFine, Carries
  <1>3. sum.cnt \in Nat /\ sum.carry \in -10 .. 46
    BY <1>1 DEF Sums
  <1>4. sum.cnt + 1 \in Nat \ {0} /\ sum.carry \in Int
    BY <1>3
  <1>5. /\ sum.op \in {"+", "-", "none"} /\ sum.a \in Vectors /\ sum.b \in Vectors
        /\ sum.to \in Takers \union {"none"} /\ sum.digits \in Vectors
    BY <1>1 DEF Sums
  <1>6. tally.weight \in Nat /\ tally.seen \in Int /\ tally.made \in Int
    BY <1>1
  <1> QED BY <1>2, <1>3, <1>4, <1>5, <1>6

LEMMA TotalBound ==
  ASSUME NEW a \in -48 .. 207, NEW b \in -48 .. 207, NEW c \in -10 .. 46
  PROVE  a + b \in Int /\ c \in Int /\ (a + b) + c \in Int /\ (a + b) + c \in -106 .. 460
  OBVIOUS

\* An iteration that reads x, writes d and carries q.
Makes(x, d, q) ==
  /\ sum' = [sum EXCEPT !.cnt = sum.cnt + 1, !.carry = q, !.digits = Append(sum.digits, d)]
  /\ tally' = [weight |-> 10 * tally.weight,
               seen   |-> tally.seen + tally.weight * x,
               made   |-> tally.made + tally.weight * d]

LEMMA MakesFields ==
  ASSUME SumsFine, NEW x \in Int, NEW d \in Bytes, NEW q \in -10 .. 46, Makes(x, d, q)
  PROVE  /\ sum' \in Sums /\ sum'.op = sum.op /\ sum'.a = sum.a /\ sum'.b = sum.b
         /\ sum'.to = sum.to /\ sum'.cnt = sum.cnt + 1 /\ sum'.carry = q
         /\ sum'.digits = Append(sum.digits, d) /\ sum'.digits[sum.cnt + 1] = d
         /\ Len(sum'.digits) = sum'.cnt
         /\ tally' \in [weight : Nat, seen : Int, made : Int]
         /\ tally'.weight = 10 * tally.weight
         /\ tally'.seen = tally.seen + tally.weight * x
         /\ tally'.made = tally.made + tally.weight * d
  <1>1. sum \in Sums /\ d \in Int
    BY DEF SumsFine, Bytes
  <1>2. /\ Append(sum.digits, d) \in Vectors /\ Len(Append(sum.digits, d)) = sum.cnt + 1
        /\ Append(sum.digits, d)[sum.cnt + 1] = d
    BY SumFields DEF Vectors
  <1>3. /\ sum' \in Sums /\ sum'.op = sum.op /\ sum'.a = sum.a /\ sum'.b = sum.b
        /\ sum'.to = sum.to /\ sum'.cnt = sum.cnt + 1 /\ sum'.carry = q
        /\ sum'.digits = Append(sum.digits, d)
    BY <1>1, <1>2, SumFields DEF Makes, Sums
  <1>4. /\ tally.weight * x \in Int /\ tally.weight * d \in Int /\ 10 * tally.weight \in Nat
        /\ tally.seen \in Int /\ tally.made \in Int
    BY <1>1, SumFields
  <1>5. tally' \in [weight : Nat, seen : Int, made : Int]
    BY <1>4 DEF Makes
  <1> QED BY <1>2, <1>3, <1>5 DEF Makes

\* What is read is made, or carried.
LEMMA PlusMakes ==
  ASSUME SumsFine, PlusDigit
  PROVE  \E q, r \in Int :
           LET x == Digit(sum.a, sum.cnt + 1) + Digit(sum.b, sum.cnt + 1)
           IN  /\ Makes(x, r, q) /\ x \in Int /\ q \in -10 .. 46 /\ r \in Bytes
               /\ x + sum.carry = 10 * q + r
               /\ x + sum.carry >= 0 => r \in 0 .. 9
  <1> DEFINE i == sum.cnt + 1
             x == Digit(sum.a, i) + Digit(sum.b, i)
             total == x + sum.carry
  <1>1. Digit(sum.a, i) \in -48 .. 207 /\ Digit(sum.b, i) \in -48 .. 207
    BY SumFields, DigitType DEF Bytes
  <1>2. x \in Int /\ sum.carry \in Int /\ total \in Int /\ total \in -106 .. 460
    <2>1. sum.carry \in -10 .. 46
      BY SumFields
    <2> QED BY <1>1, <2>1, TotalBound
  <1> HIDE DEF total
  <1> DEFINE q == Quot(total, 10)
             r == Rem(total, 10)
  <1>3. /\ q \in -10 .. 46 /\ r \in -9 .. 9 /\ total = 10 * q + r
        /\ total >= 0 => r \in 0 .. 9
    BY <1>2, Division
  <1>4. Byte(r) = r /\ r \in Bytes
    BY <1>3, ByteSame DEF Bytes
  <1> HIDE DEF q, r
  <1>5. sum' = [sum EXCEPT !.cnt = i, !.carry = q, !.digits = Append(sum.digits, r)]
    BY <1>4 DEF PlusDigit, AddDigit, PlusTotal, q, r, total
  <1>6. Append(sum.digits, r)[i] = r
    BY <1>4, SumFields DEF Vectors
  <1>7. sum'.digits[i] = r
    BY <1>5, <1>6 DEF SumsFine, Sums
  <1>8. Makes(x, r, q)
    BY <1>5, <1>7 DEF PlusDigit, Count, Makes
  <1> QED BY <1>2, <1>3, <1>4, <1>8 DEF total

LEMMA PlusDigitFine == ASSUME SumsFine, PlusDigit PROVE SumsFine'
  <1> DEFINE x == Digit(sum.a, sum.cnt + 1) + Digit(sum.b, sum.cnt + 1)
             w == tally.weight
  <1>1. PICK q, r \in Int :
          /\ Makes(x, r, q) /\ x \in Int /\ q \in -10 .. 46 /\ r \in Bytes
          /\ x + sum.carry = 10 * q + r
    BY PlusMakes
  <1>2. sum.op = "+" /\ tally.made + w * sum.carry = tally.seen
    BY DEF SumsFine, PlusDigit, InLoop, DigitsAddUp
  <1>3. w \in Nat /\ tally.seen \in Int /\ tally.made \in Int /\ sum.carry \in Int
    BY SumFields
  <1> HIDE DEF x, w
  <1>4. w * r + (10 * w) * q = w * x + w * sum.carry
    <2>1. /\ w \in Int /\ q \in Int /\ r \in Int /\ x \in Int /\ sum.carry \in Int
          /\ x + sum.carry = 10 * q + r
      BY <1>1, <1>3
    <2> QED BY <2>1, Distributes
  <1>5. /\ w * r \in Int /\ (10 * w) * q \in Int /\ w * x \in Int /\ w * sum.carry \in Int
    BY <1>1, <1>3
  <1>6. (tally.made + w * r) + (10 * w) * q = tally.seen + w * x
    <2> DEFINE wr == w * r
               wq == (10 * w) * q
               wx == w * x
               wc == w * sum.carry
    <2>1. wr + wq = wx + wc /\ tally.made + wc = tally.seen
      BY <1>2, <1>4
    <2>2. wr \in Int /\ wq \in Int /\ wx \in Int /\ wc \in Int
      BY <1>5
    <2> HIDE DEF wr, wq, wx, wc
    <2>3. (tally.made + wr) + wq = tally.seen + wx
      BY <1>3, <2>1, <2>2
    <2> QED BY <2>3 DEF wr, wq, wx
  <1>7. /\ sum' \in Sums /\ sum'.op = "+" /\ Len(sum'.digits) = sum'.cnt
        /\ tally' \in [weight : Nat, seen : Int, made : Int]
        /\ tally'.made + tally'.weight * sum'.carry = tally'.seen
    BY <1>1, <1>2, <1>6, MakesFields DEF w
  <1> QED BY <1>7 DEF SumsFine, Carries, DigitsAddUp

LEMMA MinusMakes ==
  ASSUME SumsFine, MinusDigit
  PROVE  \E q \in -1 .. 0, d \in Bytes :
           LET x == Digit(sum.a, sum.cnt + 1) - Digit(sum.b, sum.cnt + 1)
           IN  /\ Makes(x, d, q) /\ x \in Int
               /\ Proper(sum.a) /\ Proper(sum.b) => x + sum.carry = 10 * q + d /\ d \in 0 .. 9
  <1> DEFINE i == sum.cnt + 1
             x == Digit(sum.a, i) - Digit(sum.b, i)
             total == x + sum.carry
             q == IF total < 0 THEN -1 ELSE 0
             d == IF total < 0 THEN total + 10 ELSE total
  <1>1. sum.carry \in -1 .. 0
    BY DEF SumsFine, MinusDigit, InLoop, Carries
  <1>2. Digit(sum.a, i) \in Int /\ Digit(sum.b, i) \in Int
    BY SumFields, DigitType
  <1>3. x \in Int /\ sum.carry \in Int /\ total \in Int /\ q \in -1 .. 0 /\ d \in Int
    BY <1>1, <1>2, SumFields
  <1>4. total = 10 * q + d
    BY <1>3
  <1>5. Byte(d) \in Bytes
    BY <1>3, ByteType
  <1>6. Proper(sum.a) /\ Proper(sum.b) => Byte(d) = d /\ d \in 0 .. 9
    <2>1. ASSUME Proper(sum.a), Proper(sum.b) PROVE d \in 0 .. 9 /\ d \in -48 .. 207
      <3>1. Digit(sum.a, i) \in 0 .. 9 /\ Digit(sum.b, i) \in 0 .. 9
        BY <2>1, SumFields, DigitType
      <3> QED BY <3>1, <1>1
    <2> QED BY <2>1, ByteSame DEF Bytes
  <1> HIDE DEF q, d, total
  <1>7. sum' = [sum EXCEPT !.cnt = i, !.carry = q, !.digits = Append(sum.digits, Byte(d))]
    BY DEF MinusDigit, SubDigit, MinusTotal, q, d, total
  <1>8. Append(sum.digits, Byte(d))[i] = Byte(d)
    BY <1>5, SumFields DEF Vectors
  <1>9. sum'.digits[i] = Byte(d)
    BY <1>7, <1>8 DEF SumsFine, Sums
  <1>10. Makes(x, Byte(d), q)
    BY <1>7, <1>9 DEF MinusDigit, Count, Makes
  <1> QED BY <1>3, <1>4, <1>5, <1>6, <1>10 DEF total

LEMMA MinusDigitFine == ASSUME SumsFine, MinusDigit PROVE SumsFine'
  <1> DEFINE x == Digit(sum.a, sum.cnt + 1) - Digit(sum.b, sum.cnt + 1)
             w == tally.weight
  <1>1. PICK q \in -1 .. 0, d \in Bytes :
          /\ Makes(x, d, q) /\ x \in Int
          /\ Proper(sum.a) /\ Proper(sum.b) => x + sum.carry = 10 * q + d
    BY MinusMakes
  <1>2. sum.op = "-" /\ (Proper(sum.a) /\ Proper(sum.b) => tally.made + w * sum.carry = tally.seen)
    BY DEF SumsFine, MinusDigit, InLoop, DigitsAddUp
  <1>3. w \in Nat /\ tally.seen \in Int /\ tally.made \in Int /\ sum.carry \in Int /\ d \in Int
    BY SumFields DEF Bytes
  <1> HIDE DEF x, w
  <1>4. Proper(sum.a) /\ Proper(sum.b) => w * d + (10 * w) * q = w * x + w * sum.carry
    <2>1. /\ w \in Int /\ q \in Int /\ d \in Int /\ x \in Int /\ sum.carry \in Int
          /\ Proper(sum.a) /\ Proper(sum.b) => x + sum.carry = 10 * q + d
      BY <1>1, <1>3
    <2> QED BY <2>1, Distributes
  <1>5. /\ w * d \in Int /\ (10 * w) * q \in Int /\ w * x \in Int /\ w * sum.carry \in Int
    BY <1>1, <1>3
  <1>6. Proper(sum.a) /\ Proper(sum.b) =>
          (tally.made + w * d) + (10 * w) * q = tally.seen + w * x
    BY <1>2, <1>3, <1>4, <1>5
  <1>7. q \in -10 .. 46 /\ q \in -1 .. 0
    BY <1>1
  <1>8. /\ sum' \in Sums /\ sum'.op = "-" /\ sum'.a = sum.a /\ sum'.b = sum.b
        /\ sum'.carry \in -1 .. 0 /\ Len(sum'.digits) = sum'.cnt
        /\ tally' \in [weight : Nat, seen : Int, made : Int]
        /\ Proper(sum'.a) /\ Proper(sum'.b)
             => tally'.made + tally'.weight * sum'.carry = tally'.seen
    BY <1>1, <1>2, <1>6, <1>7, MakesFields DEF w
  <1> QED BY <1>8 DEF SumsFine, Carries, DigitsAddUp

------------------------------------------------------------------------------
(* The invariant. *)

\* The other conjuncts, in the parts that actions leave alone together.
MachineFine ==
  /\ stack \in Seq(Bigints)
  /\ said \in {"nothing", "stack empty", "unimplemented", "not implemented", "numbers"}
  /\ tokens \in Nat
Rest ==
  /\ pc \in {"scan", "digits", "up", "down", "pow", "ended"}
  /\ outcome \in {"running", "quit", "out_of_range", "undefined"}
  /\ power \in [base : Bigints, exponent : Bigints]

LEMMA Parts ==
  IInv <=> MachineFine /\ call \in Calls /\ SumsFine /\ mul \in Products /\ Compared /\ Rest
  BY DEF IInv, TypeOK, MachineFine, SumsFine, Rest, NeverRefused

LEMMA PartsNext ==
  (IInv <=> MachineFine /\ call \in Calls /\ SumsFine /\ mul \in Products /\ Compared /\ Rest)'
  BY Parts, PTL

LEMMA MachineType == IInv => stack \in Seq(Bigints) /\ tokens \in Nat
  BY Parts DEF MachineFine

LEMMA Initially == Init => IInv
  <1> SUFFICES ASSUME Init PROVE IInv
    OBVIOUS
  <1>1. <<>> \in Vectors /\ Nil \in Bigints /\ <<>> \in Seq(Bigints)
    BY SmallType DEF Vectors
  <1>2. NoCall \in Calls /\ NoMul \in Products /\ NoPower \in [base : Bigints, exponent : Bigints]
    BY <1>1 DEF NoCall, Calls, NoMul, Products, NoPower
  <1>3. SumsFine
    BY NoSumFine DEF Init
  <1> QED BY <1>1, <1>2, <1>3, Parts DEF Init, MachineFine, Rest, Compared

LEMMA Stutters == ASSUME IInv, UNCHANGED vars PROVE IInv'
  <1>1. MachineFine' /\ SumsFine' /\ Rest' /\ Compared' /\ call' \in Calls /\ mul' \in Products
    BY Parts DEF vars, machine, MachineFine, SumsFine, Carries, DigitsAddUp, Rest, Compared
  <1> QED BY <1>1, PartsNext

LEMMA ScanCounts == ASSUME IInv, Scan PROVE tokens' \in Nat
  <1>1. tokens \in Nat
    BY MachineType
  <1> QED BY <1>1 DEF Scan

LEMMA SaysFine ==
  ASSUME IInv, Scan, NEW what, Say(what), stack' \in Seq(Bigints),
         what \in {"nothing", "stack empty", "unimplemented", "not implemented", "numbers"}
  PROVE  IInv'
  <1>1. tokens' \in Nat
    BY ScanCounts
  <1>2. MachineFine'
    BY <1>1 DEF MachineFine, Say
  <1>3. SumsFine' /\ Rest' /\ Compared' /\ call' \in Calls /\ mul' \in Products
    BY Parts DEF Scan, Say, SumsFine, Carries, DigitsAddUp, Rest, Compared
  <1> QED BY <1>2, <1>3, PartsNext

LEMMA EndsFine ==
  ASSUME IInv, NEW how \in {"quit", "undefined"}, End(how) PROVE IInv'
  <1>1. MachineFine' /\ SumsFine' /\ Rest' /\ Compared' /\ call' \in Calls /\ mul' \in Products
    BY Parts DEF End, MachineFine, SumsFine, Carries, DigitsAddUp, Rest, Compared
  <1> QED BY <1>1, PartsNext

LEMMA PushFine == ASSUME IInv, NEW n \in Bigints, Push(n) PROVE IInv'
  <1>1. <<>> \in Vectors /\ Nil \in Bigints
    BY SmallType DEF Vectors
  <1>2. call' \in Calls /\ mul' \in Products /\ power' \in [base : Bigints, exponent : Bigints]
    BY <1>1 DEF Push, NoCall, Calls, NoMul, Products, NoPower
  <1>3. Append(stack, n) \in Seq(Bigints)
    BY MachineType
  <1>4. MachineFine' /\ Rest' /\ Compared'
    BY <1>2, <1>3, Parts DEF Push, MachineFine, Rest, Compared
  <1>5. SumsFine'
    <2>1. (sum = NoSum /\ tally = NoTally => SumsFine)'
      BY NoSumFine, PTL
    <2> QED BY <2>1 DEF Push
  <1> QED BY <1>2, <1>4, <1>5, PartsNext

\* do_arith's operands, its stack and its call.
LEMMA PopsFine ==
  ASSUME IInv, NEW oper \in ArithOps, NEW neg \in BOOLEAN, PopOperands(oper, neg)
  PROVE  MachineFine' /\ call' \in Calls /\ Left \in Bigints /\ Right \in Bigints
  <1>1. TypeOK /\ Len(stack) >= 2
    BY DEF IInv, PopOperands
  <1>2. Left \in Bigints /\ Right \in Bigints /\ Popped \in Seq(Bigints)
    BY <1>1, OperandsType
  <1>3. tokens' \in Nat
    BY ScanCounts DEF PopOperands
  <1> QED BY <1>2, <1>3 DEF PopOperands, MachineFine, Calls

\* A sum or a difference of two operands starts.
LEMMA DoSumFine ==
  ASSUME IInv, NEW oper \in {"+", "-"},
         NEW op \in {"+", "-"}, NEW a \in Vectors, NEW b \in Vectors, NEW neg \in BOOLEAN,
         op = "-" => ~Less(a, b),
         PopOperands(oper, neg), StartSum(op, a, b, "bigint"), UNCHANGED <<mul, power>>
  PROVE  IInv'
  <1>1. MachineFine' /\ call' \in Calls
    BY PopsFine DEF ArithOps
  <1>2. pc' = "digits" /\ outcome' = outcome /\ sum'.to = "bigint" /\ SumsFine'
    BY SumStarts DEF Takers
  <1>3. Rest' /\ Compared' /\ mul' \in Products
    BY <1>2, Parts DEF Rest, Compared
  <1> QED BY <1>1, <1>2, <1>3, PartsNext

LEMMA DoPlusFine == ASSUME IInv, DoPlus PROVE IInv'
  <1> DEFINE s == Plus(Left, Right)
  <1>1. /\ PopOperands("+", s.neg) /\ StartSum(s.op, s.a, s.b, "bigint")
        /\ UNCHANGED <<mul, power>>
    BY DEF DoPlus
  <1>2. Left \in Bigints /\ Right \in Bigints
    BY <1>1, OperandsType DEF IInv, PopOperands
  <1>3. /\ s.op \in {"+", "-"} /\ s.a \in Vectors /\ s.b \in Vectors /\ s.neg \in BOOLEAN
        /\ s.op = "-" => ~Less(s.a, s.b)
    BY <1>2, PlusAsks
  <1> HIDE DEF s
  <1> QED BY <1>1, <1>3, DoSumFine

LEMMA DoMinusFine == ASSUME IInv, DoMinus PROVE IInv'
  <1> DEFINE s == Minus(Left, Right)
  <1>1. /\ PopOperands("-", s.neg) /\ StartSum(s.op, s.a, s.b, "bigint")
        /\ UNCHANGED <<mul, power>>
    BY DEF DoMinus
  <1>2. Left \in Bigints /\ Right \in Bigints
    BY <1>1, OperandsType DEF IInv, PopOperands
  <1>3. /\ s.op \in {"+", "-"} /\ s.a \in Vectors /\ s.b \in Vectors /\ s.neg \in BOOLEAN
        /\ s.op = "-" => ~Less(s.a, s.b)
    BY <1>2, MinusAsks
  <1> HIDE DEF s
  <1> QED BY <1>1, <1>3, DoSumFine

\* A product starts.
LEMMA ProductStarts ==
  ASSUME NEW a \in Vectors, NEW b \in Vectors, StartProduct(a, b)
  PROVE  pc' = "up" /\ mul' \in Products
  <1>1. <<1>> \in Vectors /\ <<>> \in Vectors
    BY DEF Vectors, Bytes
  <1> QED BY <1>1 DEF StartProduct, Products

LEMMA DoTimesFine == ASSUME IInv, DoTimes PROVE IInv'
  <1>1. PopOperands("*", Left.neg # Right.neg) /\ StartProduct(Left.mag, Right.mag)
        /\ UNCHANGED <<sum, power, outcome, tally>>
    BY DEF DoTimes
  <1>2. MachineFine' /\ call' \in Calls /\ Left \in Bigints /\ Right \in Bigints
    BY <1>1, PopsFine DEF ArithOps
  <1>3. pc' = "up" /\ mul' \in Products
    BY <1>1, <1>2, ProductStarts DEF Bigints
  <1>4. SumsFine' /\ Rest' /\ Compared'
    BY <1>1, <1>3, Parts DEF SumsFine, Carries, DigitsAddUp, Rest, Compared
  <1> QED BY <1>2, <1>3, <1>4, PartsNext

LEMMA DoDivideFine == ASSUME IInv, DoDivide PROVE IInv'
  <1>1. Right \in Bigints /\ Popped \in Seq(Bigints)
    BY OperandsType DEF IInv, DoDivide
  <1>2. Append(Popped, Right) \in Seq(Bigints)
    BY <1>1
  <1> QED BY <1>2, SaysFine DEF DoDivide

LEMMA DoPowFine == ASSUME IInv, DoPow PROVE IInv'
  <1>1. MachineFine' /\ call' \in Calls /\ Left \in Bigints /\ Right \in Bigints
    BY PopsFine DEF DoPow, ArithOps
  <1>2. [Right EXCEPT !.neg = ~@] \in Bigints
    BY <1>1 DEF Bigints
  <1>3. power' \in [base : Bigints, exponent : Bigints]
    BY <1>1, <1>2 DEF DoPow
  <1>4. SumsFine' /\ Rest' /\ Compared' /\ mul' \in Products
    BY <1>3, Parts DEF DoPow, SumsFine, Carries, DigitsAddUp, Rest, Compared
  <1> QED BY <1>1, <1>4, PartsNext

\* The types of what a loop of ubigint works on.
LEMMA ComputeTypes ==
  ASSUME IInv
  PROVE  /\ SumsFine /\ mul \in Products /\ call.neg \in BOOLEAN /\ Result(sum) \in Vectors
         /\ power.base \in Bigints /\ power.exponent \in Bigints
         /\ mul.power \in Vectors /\ mul.tmpBig \in Vectors /\ mul.tmpSmall \in Vectors
         /\ mul.result \in Vectors
  <1>1. /\ SumsFine /\ mul \in Products /\ call \in Calls
        /\ power \in [base : Bigints, exponent : Bigints]
    BY Parts DEF Rest
  <1>2. Result(sum) \in Vectors
    BY <1>1, SumFields, ResultType
  <1> QED BY <1>1, <1>2 DEF Products, Calls

LEMMA DigitFine == ASSUME IInv, PlusDigit \/ MinusDigit PROVE IInv'
  <1>1. SumsFine'
    BY PlusDigitFine, MinusDigitFine, ComputeTypes
  <1>2. sum'.to = sum.to
    BY ComputeTypes DEF PlusDigit, MinusDigit, AddDigit, SubDigit, SumsFine, Sums
  <1>3. UNCHANGED <<pc, stack, said, tokens, outcome, call, mul, power>>
    BY DEF PlusDigit, MinusDigit, machine
  <1>4. MachineFine' /\ call' \in Calls /\ mul' \in Products /\ Rest' /\ Compared'
    BY <1>2, <1>3, Parts DEF MachineFine, Rest, Compared
  <1> QED BY <1>1, <1>4, PartsNext

LEMMA ReturnBigintFine == ASSUME IInv, ReturnBigint PROVE IInv'
  <1>1. [neg |-> call.neg, mag |-> Result(sum)] \in Bigints
    BY ComputeTypes DEF Bigints
  <1> QED BY <1>1, PushFine DEF ReturnBigint

LEMMA HalveBothFine == ASSUME IInv, NEW m \in Products, HalveBoth(m) PROVE IInv'
  <1>1. SumsFine'
    <2>1. (sum = NoSum /\ tally = NoTally => SumsFine)'
      BY NoSumFine, PTL
    <2> QED BY <2>1 DEF HalveBoth
  <1>2. MachineFine' /\ call' \in Calls
    BY Parts DEF HalveBoth, MachineFine
  <1>3. Halve(m.power) \in Vectors /\ Halve(m.tmpSmall) \in Vectors
    BY HalveType DEF Products
  <1>4. [m EXCEPT !.power = Halve(@), !.tmpSmall = Halve(@)] \in Products
    BY <1>3 DEF Products
  <1>5. mul' \in Products /\ pc' \in {"ended", "down"}
    BY <1>4 DEF HalveBoth
  <1>6. outcome' \in {outcome, "out_of_range"}
    BY DEF HalveBoth
  <1>7. Rest' /\ Compared'
    BY <1>5, <1>6, Parts DEF HalveBoth, Rest, Compared
  <1> QED BY <1>1, <1>2, <1>5, <1>7, PartsNext

\* A product asks for a sum or a difference.
LEMMA ProductSumFine ==
  ASSUME IInv, InProduct, mul' \in Products,
         NEW op \in {"+", "-"}, NEW a \in Vectors, NEW b \in Vectors, NEW to \in Takers,
         op = "-" => ~Less(a, b), StartSum(op, a, b, to),
         to = "result" => ~Less(mul'.tmpBig, mul'.power)
  PROVE  IInv'
  <1>1. pc' = "digits" /\ outcome' = outcome /\ sum'.to = to /\ SumsFine'
    BY SumStarts
  <1>2. MachineFine' /\ call' \in Calls /\ Rest' /\ Compared'
    BY <1>1, Parts DEF InProduct, MachineFine, Rest, Compared
  <1> QED BY <1>1, <1>2, PartsNext

LEMMA DoublePowerFine == ASSUME IInv, DoublePower PROVE IInv'
  BY ComputeTypes, ProductSumFine DEF DoublePower, Takers

LEMMA DoubleSmallFine == ASSUME IInv, DoubleSmall PROVE IInv'
  <1>1. mul' \in Products
    BY ComputeTypes DEF DoubleSmall, Products
  <1> QED BY <1>1, ComputeTypes, ProductSumFine DEF DoubleSmall, Takers

LEMMA DoubledFine == ASSUME IInv, Doubled PROVE IInv'
  <1>1. mul' \in Products
    BY ComputeTypes DEF Doubled, Products
  <1>2. SumsFine'
    <2>1. (sum = NoSum /\ tally = NoTally => SumsFine)'
      BY NoSumFine, PTL
    <2> QED BY <2>1 DEF Doubled
  <1>3. MachineFine' /\ call' \in Calls /\ Rest' /\ Compared'
    BY Parts DEF Doubled, InProduct, MachineFine, Rest, Compared
  <1> QED BY <1>1, <1>2, <1>3, PartsNext

LEMMA TakePowerFine == ASSUME IInv, TakePower PROVE IInv'
  <1>1. ~Less(mul.tmpBig, mul.power)
    BY ComputeTypes, LessOneWay DEF TakePower, Fits
  <1>2. InProduct /\ mul' = mul /\ StartSum("+", mul.result, mul.tmpSmall, "result")
    BY DEF TakePower
  <1> QED BY <1>1, <1>2, ComputeTypes, ProductSumFine DEF Takers

LEMMA SubtractPowerFine == ASSUME IInv, SubtractPower PROVE IInv'
  <1>1. mul' \in Products
    BY ComputeTypes DEF SubtractPower, Products
  <1>2. ~Less(mul.tmpBig, mul.power)
    BY Parts DEF SubtractPower, SumDone, Compared
  <1> QED BY <1>1, <1>2, ComputeTypes, ProductSumFine DEF SubtractPower, Takers

LEMMA TakenFine == ASSUME IInv, Taken PROVE IInv'
  <1>1. [mul EXCEPT !.tmpBig = Result(sum)] \in Products
    BY ComputeTypes DEF Products
  <1> QED BY <1>1, HalveBothFine DEF Taken

LEMMA ReturnProductFine == ASSUME IInv, ReturnProduct PROVE IInv'
  <1>1. [neg |-> call.neg, mag |-> mul.result] \in Bigints
    BY ComputeTypes DEF Bigints
  <1> QED BY <1>1, PushFine DEF ReturnProduct

LEMMA SquareFine == ASSUME IInv, Square PROVE IInv'
  <1>1. pc' = "up" /\ mul' \in Products
    BY ComputeTypes, ProductStarts DEF Square, Bigints
  <1>2. MachineFine' /\ call' \in Calls /\ SumsFine' /\ Rest' /\ Compared'
    BY <1>1, Parts DEF Square, MachineFine, SumsFine, Carries, DigitsAddUp, Rest, Compared
  <1> QED BY <1>1, <1>2, PartsNext

LEMMA SquaredFine == ASSUME IInv, Squared PROVE IInv'
  <1>1. power' \in [base : Bigints, exponent : Bigints]
    BY ComputeTypes, SmallType DEF Squared, Bigints
  <1>2. mul' \in Products
    <2>1. <<>> \in Vectors
      BY DEF Vectors
    <2> QED BY <2>1 DEF Squared, NoMul, Products
  <1>3. MachineFine' /\ call' \in Calls /\ SumsFine' /\ Rest' /\ Compared'
    BY <1>1, Parts DEF Squared, MachineFine, SumsFine, Carries, DigitsAddUp, Rest, Compared
  <1> QED BY <1>2, <1>3, PartsNext

LEMMA ReturnPowerFine == ASSUME IInv, ReturnPower PROVE IInv'
  BY SmallType, PushFine DEF ReturnPower

LEMMA TokensFine == ASSUME IInv, Tokens PROVE IInv'
  <1>1. CASE PushNumber
    <2>1. PICK n \in Numbers : Scan /\ stack' = Append(stack, n) /\ Say("nothing")
      BY <1>1 DEF PushNumber
    <2>2. Append(stack, n) \in Seq(Bigints)
      BY NumbersType, MachineType
    <2> QED BY <2>1, <2>2, SaysFine
  <1>2. CASE Unimplemented \/ DoDebug \/ DoPrintall \/ DoPrint \/ StackEmpty
    BY <1>2, MachineType, SaysFine
       DEF Unimplemented, DoDebug, DoPrintall, DoPrint, StackEmpty
  <1>3. CASE DoClear
    <2>1. <<>> \in Seq(Bigints)
      OBVIOUS
    <2> QED BY <2>1, <1>3, SaysFine DEF DoClear
  <1>4. CASE DoDup
    <2>1. stack \in Seq(Bigints) /\ stack # <<>>
      BY <1>4, MachineType DEF DoDup
    <2>2. Append(stack, stack[Len(stack)]) \in Seq(Bigints)
      BY <2>1
    <2> QED BY <2>2, <1>4, SaysFine DEF DoDup, Top
  <1>5. CASE DupOfNothing \/ DoQuit
    BY <1>5, EndsFine DEF DupOfNothing, DoQuit
  <1>6. CASE DoPlus \/ DoMinus \/ DoTimes \/ DoDivide \/ DoPow
    BY <1>6, DoPlusFine, DoMinusFine, DoTimesFine, DoDivideFine, DoPowFine
  <1> QED BY <1>1, <1>2, <1>3, <1>4, <1>5, <1>6 DEF Tokens

LEMMA ComputeFine == ASSUME IInv, Compute PROVE IInv'
  <1>1. CASE UpDone \/ SkipPower
    BY <1>1, ComputeTypes, HalveBothFine DEF UpDone, SkipPower
  <1> QED BY <1>1, DigitFine, ReturnBigintFine, DoublePowerFine, DoubleSmallFine, DoubledFine,
             TakePowerFine, SubtractPowerFine, TakenFine, ReturnProductFine, SquareFine,
             SquaredFine, ReturnPowerFine DEF Compute

------------------------------------------------------------------------------
(* Theorems. *)

LEMMA Invariance == Spec => []IInv
  <1>1. IInv /\ [Next]_vars => IInv'
    BY TokensFine, ComputeFine, Stutters DEF Next
  <1> QED BY Initially, <1>1, PTL DEF Spec

\* Stack, operands and every vector in between are of their types: whatever is added,
\* subtracted, doubled and halved, no digit leaves its byte and no carry its range.
THEOREM TypeCorrect == Spec => []TypeOK
  <1>1. IInv => TypeOK
    BY DEF IInv
  <1> QED BY Invariance, <1>1, PTL

\* For operands of every length: what the digit loops of operator+ and operator- have made,
\* with the carry, is what they have read.
THEOREM LoopsAddUp == Spec => []DigitsAddUp
  <1>1. IInv => DigitsAddUp
    BY DEF IInv
  <1> QED BY Invariance, <1>1, PTL

\* For operands of every length, with leading zeros or without: no difference is refused.
THEOREM NothingIsRefused == Spec => []NeverRefused
  <1>1. IInv => NeverRefused
    BY DEF IInv
  <1> QED BY Invariance, <1>1, PTL
==============================================================================
