-------------------------------- MODULE Ydc --------------------------------
(***************************************************************************)
(* ydc (asg1-dc-bigint/code): a desk calculator.  main reads tokens, the   *)
(* operators work on a stack of bigints, and bigint and pow call ubigint.  *)
(* One action is one token, or one iteration of a loop of the arithmetic:  *)
(* a digit of a sum, a doubling or a halving of a product, a squaring of a *)
(* power.                                                                  *)
(***************************************************************************)
EXTENDS Ubigint

CONSTANTS
  Numbers,     \* the numbers that are typed
  MaxTokens,   \* bound: the tokens that are typed
  MaxDigits    \* bound: the digits of the operands of a product

\* The tokens that scan makes numbers of: an underscore, which is a minus sign, or a
\* digit, and the digits after it.
ASSUME NumbersAssumption ==
  /\ Numbers \subseteq [neg : BOOLEAN, mag : Seq(0 .. 9)]
  /\ \A n \in Numbers : n.neg \/ n.mag # <<>>
ASSUME BoundsAssumption == MaxTokens \in Nat /\ MaxDigits \in Nat

VARIABLES
  pc,       \* main's loop ("scan"), or the arithmetic's loop that runs
  stack,    \* operand_stack, its top last
  said,     \* what the last token's line of output was
  tokens,   \* how many tokens were read
  call,     \* do_arith: the operator, its operands, and the result's sign
  sum,      \* ubigint's operator+ or operator-, and who takes its result
  mul,      \* ubigint's operator*
  power,    \* pow
  outcome,  \* how the program ended: nobody catches the two errors
  tally     \* history: the value of sum's digits so far, read and made

machine == <<stack, said, tokens, outcome>>
vars == <<pc, machine, call, sum, mul, power, tally>>

ArithOps == {"+", "-", "*", "/", "%", "^"}
Bigints  == [neg : BOOLEAN, mag : Vectors]

Small(n) == [neg |-> FALSE, mag |-> Raw(n)]     \* ZERO, ONE and TWO of pow
Nil      == [neg |-> FALSE, mag |-> <<>>]       \* bigint()

NoCall  == [oper |-> "none", left |-> Nil, right |-> Nil, neg |-> FALSE]
NoSum   == Loop("none", <<>>, <<>>, "none")
NoMul   == [big |-> <<>>, small |-> <<>>, power |-> <<>>,
            tmpBig |-> <<>>, tmpSmall |-> <<>>, result |-> <<>>]
NoPower == [base |-> Nil, exponent |-> Nil]
NoTally == [weight |-> 1, seen |-> 0, made |-> 0]

Calls    == [oper : ArithOps \union {"none"}, left : Bigints, right : Bigints, neg : BOOLEAN]
Takers   == {"bigint", "power", "small", "result", "big"}
Sums     == [op : {"+", "-", "none"}, a : Vectors, b : Vectors, to : Takers \union {"none"},
             cnt : Nat, carry : -10 .. 46, digits : Vectors]
Products == [big : Vectors, small : Vectors, power : Vectors,
             tmpBig : Vectors, tmpSmall : Vectors, result : Vectors]

TypeOK ==
  /\ pc \in {"scan", "digits", "up", "down", "pow", "ended"}
  /\ stack \in Seq(Bigints)
  /\ said \in {"nothing", "stack empty", "unimplemented", "not implemented", "numbers"}
  /\ tokens \in Nat
  /\ call \in Calls /\ sum \in Sums /\ mul \in Products
  /\ power \in [base : Bigints, exponent : Bigints]
  /\ outcome \in {"running", "quit", "domain_error", "out_of_range", "undefined"}
  /\ tally \in [weight : Nat, seen : Int, made : Int]

Init ==
  /\ pc = "scan" /\ stack = <<>> /\ said = "nothing" /\ tokens = 0
  /\ call = NoCall /\ sum = NoSum /\ mul = NoMul /\ power = NoPower
  /\ outcome = "running" /\ tally = NoTally

------------------------------------------------------------------------------
(* main: a token at a time.  ydc_exn is caught, and its message printed. *)

Scan == pc = "scan" /\ tokens < MaxTokens /\ tokens' = tokens + 1

\* A token that is done with at once.
Say(what) == said' = what /\ UNCHANGED <<pc, call, sum, mul, power, outcome, tally>>

End(how) ==
  /\ pc' = "ended" /\ outcome' = how
  /\ UNCHANGED <<stack, said, tokens, call, sum, mul, power, tally>>

PushNumber ==
  \E n \in Numbers : Scan /\ stack' = Append(stack, n) /\ Say("nothing")

\* A character that is no operator, and Y, which is one.
Unimplemented  == Scan /\ Say("unimplemented") /\ UNCHANGED stack
DoDebug        == Scan /\ Say("not implemented") /\ UNCHANGED stack
DoClear        == Scan /\ stack' = <<>> /\ Say("nothing")
DoPrintall     == Scan /\ Say(IF stack = <<>> THEN "nothing" ELSE "numbers") /\ UNCHANGED stack
DoPrint        == Scan /\ Say(IF stack = <<>> THEN "stack empty" ELSE "numbers") /\ UNCHANGED stack

Top == stack[Len(stack)]

DoDup == Scan /\ stack # <<>> /\ stack' = Append(stack, Top) /\ Say("nothing")
\* back () of an empty vector: what the program does from here on is undefined.
DupOfNothing == pc = "scan" /\ stack = <<>> /\ End("undefined")

\* q, or the end of the input.
DoQuit == pc = "scan" /\ End("quit")

------------------------------------------------------------------------------
(* do_arith: two operands are popped, and a result is pushed later on. *)

StackEmpty == Scan /\ Len(stack) < 2 /\ Say("stack empty") /\ UNCHANGED stack

\* The loop of ubigint's a op b starts.  The difference of a smaller number is refused.
StartSum(op, a, b, to) ==
  /\ sum' = Loop(op, a, b, to) /\ tally' = NoTally
  /\ IF op = "-" /\ Less(a, b) THEN pc' = "ended" /\ outcome' = "domain_error"
                               ELSE pc' = "digits" /\ UNCHANGED outcome

\* operator*: powers of two up to the larger operand, the right one if it is larger.
StartProduct(a, b) ==
  /\ Len(a) <= MaxDigits /\ Len(b) <= MaxDigits
  /\ LET big == IF Less(a, b) THEN b ELSE a
         small == IF Less(a, b) THEN a ELSE b
     IN  mul' = [big |-> big, small |-> small, power |-> <<1>>,
                 tmpBig |-> big, tmpSmall |-> small, result |-> <<>>]
  /\ pc' = "up"

\* What bigint's operator+ and operator- ask of ubigint, and the sign they give.
Difference(a, b, neg) == [op |-> "-", a |-> a, b |-> b, neg |-> neg]
Plus(l, r) ==
  IF l.neg = r.neg THEN [op |-> "+", a |-> l.mag, b |-> r.mag, neg |-> l.neg]
  ELSE IF l.mag = r.mag THEN Difference(l.mag, r.mag, FALSE)
  ELSE IF Less(r.mag, l.mag) THEN Difference(l.mag, r.mag, l.neg)
  ELSE Difference(r.mag, l.mag, r.neg)

\* Mutant: the lengths alone decide which operand is larger.
Minus_ByLength(l, r) ==
  IF l.neg # r.neg
  THEN [op |-> "+", a |-> r.mag, b |-> l.mag, neg |-> l.neg /\ ~Less(l.mag, r.mag)]
  ELSE IF Len(l.mag) < Len(r.mag) THEN Difference(r.mag, l.mag, ~l.neg)
  ELSE Difference(l.mag, r.mag, l.neg)

Minus(l, r) ==
  IF l.neg # r.neg
  THEN [op |-> "+", a |-> r.mag, b |-> l.mag, neg |-> l.neg /\ ~Less(l.mag, r.mag)]
  ELSE IF Less(l.mag, r.mag) THEN Difference(r.mag, l.mag, ~l.neg)
  ELSE Difference(l.mag, r.mag, l.neg)

\* operator<
Below(l, r) ==
  IF l.neg # r.neg THEN l.neg
  ELSE IF l.neg THEN Less(r.mag, l.mag) ELSE Less(l.mag, r.mag)

Left  == stack[Len(stack) - 1]
Right == Top
Popped == SubSeq(stack, 1, Len(stack) - 2)

PopOperands(oper, neg) ==
  /\ Scan /\ Len(stack) >= 2
  /\ stack' = Popped /\ said' = "nothing"
  /\ call' = [oper |-> oper, left |-> Left, right |-> Right, neg |-> neg]

Push(n) ==
  /\ pc' = "scan" /\ stack' = Append(stack, n)
  /\ call' = NoCall /\ sum' = NoSum /\ mul' = NoMul /\ power' = NoPower /\ tally' = NoTally
  /\ UNCHANGED <<said, tokens, outcome>>

DoPlus ==
  LET s == Plus(Left, Right)
  IN  /\ PopOperands("+", s.neg) /\ StartSum(s.op, s.a, s.b, "bigint")
      /\ UNCHANGED <<mul, power>>

DoMinus ==
  LET s == Minus(Left, Right)
  IN  /\ PopOperands("-", s.neg) /\ StartSum(s.op, s.a, s.b, "bigint")
      /\ UNCHANGED <<mul, power>>

DoTimes ==
  /\ PopOperands("*", Left.neg # Right.neg) /\ StartProduct(Left.mag, Right.mag)
  /\ UNCHANGED <<sum, power, outcome, tally>>

\* Both operators of bigint, / and %, return their right operand.
DoDivide ==
  /\ Scan /\ Len(stack) >= 2
  /\ stack' = Append(Popped, Right)
  /\ Say("nothing")

\* 1 / base is base.
DoPow ==
  /\ PopOperands("^", FALSE)
  /\ power' = [base |-> Left,
               exponent |-> IF Below(Right, Small(0)) THEN [Right EXCEPT !.neg = ~@] ELSE Right]
  /\ pc' = "pow"
  /\ UNCHANGED <<sum, mul, outcome, tally>>

------------------------------------------------------------------------------
(* ubigint's operator+ and operator-. *)

InLoop(op) == pc = "digits" /\ sum.op = op /\ sum.cnt < LastDigit(sum)

Count(operands) ==
  tally' = [weight |-> 10 * tally.weight,
            seen   |-> tally.seen + tally.weight * operands,
            made   |-> tally.made + tally.weight * sum'.digits[sum.cnt + 1]]

PlusDigit ==
  /\ InLoop("+") /\ sum' = AddDigit(sum)
  /\ Count(Digit(sum.a, sum.cnt + 1) + Digit(sum.b, sum.cnt + 1))
  /\ UNCHANGED <<pc, machine, call, mul, power>>

MinusDigit ==
  /\ InLoop("-") /\ sum' = SubDigit(sum)
  /\ Count(Digit(sum.a, sum.cnt + 1) - Digit(sum.b, sum.cnt + 1))
  /\ UNCHANGED <<pc, machine, call, mul, power>>

SumDone(to) == pc = "digits" /\ sum.cnt = LastDigit(sum) /\ sum.to = to

ReturnBigint == SumDone("bigint") /\ Push([neg |-> call.neg, mag |-> Result(sum)])

------------------------------------------------------------------------------
(* ubigint's operator*. *)

\* Mutant: half of no digits is no digits.
HalveBoth_OfNothing(m) ==
  /\ sum' = NoSum /\ tally' = NoTally
  /\ pc' = "down" /\ UNCHANGED outcome
  /\ mul' = [m EXCEPT !.power = Halve(@), !.tmpSmall = Halve(@)]
  /\ UNCHANGED <<stack, said, tokens, call, power>>

\* power_of_2 and the smaller operand are halved; of no digits that is out_of_range,
\* which nobody catches.
HalveBoth(m) ==
  /\ sum' = NoSum /\ tally' = NoTally
  /\ IF <<>> \in {m.power, m.tmpSmall}
     THEN pc' = "ended" /\ outcome' = "out_of_range" /\ mul' = m
     ELSE /\ pc' = "down" /\ UNCHANGED outcome
          /\ mul' = [m EXCEPT !.power = Halve(@), !.tmpSmall = Halve(@)]
  /\ UNCHANGED <<stack, said, tokens, call, power>>

InProduct == UNCHANGED <<stack, said, tokens, call, power>>

\* The first loop doubles both.
DoublePower ==
  /\ pc = "up" /\ Less(mul.power, mul.big)
  /\ StartSum("+", mul.power, mul.power, "power")
  /\ InProduct /\ UNCHANGED mul

DoubleSmall ==
  /\ SumDone("power")
  /\ mul' = [mul EXCEPT !.power = Result(sum)]
  /\ StartSum("+", mul.tmpSmall, mul.tmpSmall, "small")
  /\ InProduct

Doubled ==
  /\ SumDone("small")
  /\ mul' = [mul EXCEPT !.tmpSmall = Result(sum)]
  /\ pc' = "up" /\ sum' = NoSum /\ tally' = NoTally
  /\ InProduct /\ UNCHANGED outcome

UpDone == pc = "up" /\ ~Less(mul.power, mul.big) /\ HalveBoth(mul)

\* The second loop takes the powers out of the larger operand.
InDown == pc = "down" /\ mul.tmpBig # <<>>

\* Mutant: a power that is all that is left is not taken.
Fits_Strict == Less(mul.power, mul.tmpBig)
Fits == Less(mul.power, mul.tmpBig) \/ mul.power = mul.tmpBig

TakePower ==
  /\ InDown /\ Fits = TRUE
  /\ StartSum("+", mul.result, mul.tmpSmall, "result")
  /\ InProduct /\ UNCHANGED mul

SubtractPower ==
  /\ SumDone("result")
  /\ mul' = [mul EXCEPT !.result = Result(sum)]
  /\ StartSum("-", mul.tmpBig, mul.power, "big")
  /\ InProduct

Taken == SumDone("big") /\ HalveBoth([mul EXCEPT !.tmpBig = Result(sum)])

SkipPower == InDown /\ Fits = FALSE /\ HalveBoth(mul)

ReturnProduct ==
  /\ pc = "down" /\ mul.tmpBig = <<>> /\ call.oper = "*"
  /\ Push([neg |-> call.neg, mag |-> mul.result])

------------------------------------------------------------------------------
(* pow.  exponent % TWO is TWO and never ONE, so that the loop only ever squares, and *)
(* exponent / 2 is 2.                                                               *)

PowLoops == call.left # Small(0) /\ Below(Small(0), power.exponent)

Square ==
  /\ pc = "pow" /\ PowLoops = TRUE
  /\ StartProduct(power.base.mag, power.base.mag)
  /\ UNCHANGED <<stack, said, tokens, call, sum, power, outcome, tally>>

Squared ==
  /\ pc = "down" /\ mul.tmpBig = <<>> /\ call.oper = "^"
  /\ power' = [base |-> [neg |-> FALSE, mag |-> mul.result], exponent |-> Small(2)]
  /\ pc' = "pow" /\ mul' = NoMul
  /\ UNCHANGED <<stack, said, tokens, call, sum, outcome, tally>>

ReturnPower ==
  /\ pc = "pow" /\ PowLoops = FALSE
  /\ Push(IF call.left = Small(0) THEN Small(0) ELSE Small(1))

------------------------------------------------------------------------------

Tokens ==
  \/ PushNumber \/ Unimplemented \/ DoDebug \/ DoClear \/ DoPrintall \/ DoPrint \/ DoDup
  \/ DupOfNothing \/ DoQuit \/ StackEmpty
  \/ DoPlus \/ DoMinus \/ DoTimes \/ DoDivide \/ DoPow

Compute ==
  \/ PlusDigit \/ MinusDigit \/ ReturnBigint
  \/ DoublePower \/ DoubleSmall \/ Doubled \/ UpDone
  \/ TakePower \/ SubtractPower \/ Taken \/ SkipPower \/ ReturnProduct
  \/ Square \/ Squared \/ ReturnPower

Next == Tokens \/ Compute

Spec == Init /\ [][Next]_vars

\* The user may stop typing, the program does not stop computing.
FairSpec == Spec /\ WF_vars(Compute)

------------------------------------------------------------------------------
(* Properties. *)

\* Whatever the operands' lengths and carries, what the digit loop of ubigint's operator+
\* or operator- has made, with the carry at its place, is what it has read of its
\* operands; a difference only if all digits are decimal ones.
DigitsAddUp ==
  (sum.op = "-" => Proper(sum.a) /\ Proper(sum.b))
    => tally.made + tally.weight * sum.carry = tally.seen

\* The loops of operator* keep the product of its operands, if both are written without
\* leading zeros: what is added up, and what is left of the larger operand times the
\* smaller, is the product.  The smaller's multiple is that of the power of two, until
\* the power is halved away.
ProductKept ==
  pc \in {"up", "down"} /\ Plain(mul.big) /\ Plain(mul.small) =>
    /\ Value(mul.result) + Value(mul.tmpBig) * Value(mul.small)
         = Value(mul.big) * Value(mul.small)
    /\ mul.power # <<>> => Value(mul.tmpSmall) = Value(mul.power) * Value(mul.small)

SignedValue(n) == IF n.neg THEN - Value(n.mag) ELSE Value(n.mag)
Written(n) == Plain(n.mag)
Returns == pc \in {"digits", "up", "down", "pow"} /\ pc' \in {"scan", "ended"}
Larger == IF Less(call.left.mag, call.right.mag) THEN call.right.mag ELSE call.left.mag

\* What +, -, * or ^ pushed, or that it ended the program, is what it should be.
RightAnswer ==
  LET l == SignedValue(call.left)
      r == SignedValue(call.right)
      n == stack'[Len(stack')]
      hopeless == 0 \in {l, r} \/ PowerOfTwo(Value(Larger))
  IN  IF call.oper = "^"
      THEN pc' = "scan" => call.right.mag \in {<<>>, Raw(0)} \/ call.left = Small(0)
      ELSE IF ~Written(call.left) \/ ~Written(call.right) THEN TRUE
      ELSE IF pc' = "ended" THEN call.oper = "*" /\ hopeless
      ELSE /\ Written(n)
           /\ call.oper = "+" => SignedValue(n) = l + r
           /\ call.oper = "*" => SignedValue(n) = l * r /\ ~hopeless
           /\ call.oper = "-" => SignedValue(n)
                = IF call.left.neg /\ ~call.right.neg /\ -l < r THEN r - l ELSE l - r

\* Of numbers without leading zeros the sum, the difference and the product that +, - and *
\* push are the right ones, and again without leading zeros; but a negative number less a
\* greater positive one has the wrong sign.  Only operator* ends the program instead, and
\* that of all operands that are one with a zero, or whose larger is a power of two.  pow
\* returns only if its exponent has no digits, or if one of its operands is the byte 0 that
\* bigint (long) makes of 0: of every other its loop does not end, or operator* ends the
\* program.
Arithmetic == [][Returns => RightAnswer]_vars

\* operator- of ubigint, which refuses a smaller left operand, is never asked for one,
\* whatever the digits and the leading zeros: bigint and operator* have compared before.
NeverRefused == outcome # "domain_error"

\* What a sum, a difference or a product runs always ends, whatever the operands' digits.
LoopsEnd == pc \in {"digits", "up", "down"} ~> pc \in {"scan", "pow", "ended"}

\* dc (1) is the assignment's reference, and ydc "must produce exactly the same output":
\* a sum, a difference and a product of numbers without leading zeros are pushed, and are
\* the right ones.  Violated.
SameAsDc ==
  [][ Returns /\ call.oper \in {"+", "-", "*"} /\ Written(call.left) /\ Written(call.right) =>
        /\ pc' = "scan"
        /\ LET l == SignedValue(call.left)
               r == SignedValue(call.right)
           IN  SignedValue(stack'[Len(stack')])
                 = CASE call.oper = "+" -> l + r [] call.oper = "-" -> l - r
                     [] call.oper = "*" -> l * r
    ]_vars
==============================================================================
