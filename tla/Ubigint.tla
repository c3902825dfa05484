------------------------------ MODULE Ubigint ------------------------------
(***************************************************************************)
(* ubigint (asg1-dc-bigint/code/ubigint.cpp): an unsigned number is a      *)
(* vector of characters, its lowest digit first.  A digit is written here  *)
(* as its byte less '0', so that the characters '0' to '9' are 0 to 9 and  *)
(* the byte 0 is -48.                                                      *)
(***************************************************************************)
EXTENDS Integers, Sequences

Bytes   == -48 .. 207
Byte(x) == ((x + 48) % 256) - 48
Vectors == Seq(Bytes)

\* C++ division, which drops the fraction on either side of zero.
Quot(x, n) == IF x >= 0 THEN x \div n ELSE - ((- x) \div n)
Rem(x, n)  == x - n * Quot(x, n)

\* The vector that bigint (long) makes: one byte, and not a character.
Raw(n) == <<Byte(n - 48)>>

\* operator<: lengths first, and then from the highest digit down.
Less(a, b) ==
  \/ Len(a) < Len(b)
  \/ /\ Len(a) = Len(b)
     /\ \E i \in 1 .. Len(a) : a[i] < b[i] /\ \A j \in i + 1 .. Len(a) : a[j] = b[j]

Trim(v) ==
  SubSeq(v, 1, CHOOSE n \in 0 .. Len(v) :
                 (n > 0 => v[n] # 0) /\ \A i \in n + 1 .. Len(v) : v[i] = 0)

\* Mutant: the odd next digit is forgotten.
Halve_NoRemainder(v) == Trim([i \in 1 .. Len(v) |-> Byte(Quot(v[i], 2))])

\* divide_by_2.  A vector with no digits throws out_of_range instead.
Halve(v) ==
  Trim([i \in 1 .. Len(v) |->
          Byte(Quot(v[i], 2) + IF i < Len(v) /\ Rem(v[i + 1], 2) # 0 THEN 5 ELSE 0)])

------------------------------------------------------------------------------
(* operator+ and operator-.  A record is the loop of one call: its operands, *)
(* how many digits it has done, the carry, the digits of the result, and who *)
(* takes that.                                                               *)

Digit(v, i) == IF i <= Len(v) THEN v[i] ELSE 0

Loop(op, a, b, to) ==
  [op |-> op, a |-> a, b |-> b, to |-> to, cnt |-> 0, carry |-> 0, digits |-> <<>>]

\* The longer operand of a sum, the left one of a difference.
LastDigit(s) == IF s.op = "+" /\ Len(s.a) < Len(s.b) THEN Len(s.b) ELSE Len(s.a)

PlusTotal(s)  == Digit(s.a, s.cnt + 1) + Digit(s.b, s.cnt + 1) + s.carry
MinusTotal(s) == Digit(s.a, s.cnt + 1) - Digit(s.b, s.cnt + 1) + s.carry

\* Mutant: the carry is the whole total.
AddDigit_WholeCarry(s) ==
  [s EXCEPT !.cnt = @ + 1, !.carry = PlusTotal(s), !.digits = Append(@, Byte(Rem(PlusTotal(s), 10)))]

AddDigit(s) ==
  [s EXCEPT !.cnt = @ + 1,
            !.carry = Quot(PlusTotal(s), 10),
            !.digits = Append(@, Byte(Rem(PlusTotal(s), 10)))]

\* Mutant: a borrow is never given back.
SubDigit_StickyBorrow(s) ==
  [s EXCEPT !.cnt = @ + 1,
            !.carry = IF MinusTotal(s) < 0 THEN -1 ELSE @,
            !.digits = Append(@, Byte(IF MinusTotal(s) < 0 THEN MinusTotal(s) + 10
                                                           ELSE MinusTotal(s)))]

SubDigit(s) ==
  [s EXCEPT !.cnt = @ + 1,
            !.carry = IF MinusTotal(s) < 0 THEN -1 ELSE 0,
            !.digits = Append(@, Byte(IF MinusTotal(s) < 0 THEN MinusTotal(s) + 10
                                                           ELSE MinusTotal(s)))]

\* What the call returns after its last digit.
Result(s) ==
  IF s.op = "-" THEN Trim(s.digits)
  ELSE IF s.carry # 0 THEN Append(s.digits, Byte(s.carry)) ELSE s.digits

------------------------------------------------------------------------------
(* What a vector stands for: for the properties. *)

Value(v) ==
  LET from[i \in 1 .. Len(v) + 1] == IF i > Len(v) THEN 0 ELSE v[i] + 10 * from[i + 1]
  IN  from[1]

Proper(v)  == \A i \in 1 .. Len(v) : v[i] \in 0 .. 9
\* A number as one writes it: no zeros in front.
Plain(v)   == Proper(v) /\ (Len(v) > 1 => v[Len(v)] # 0)
\* No odd number divides it but 1.
PowerOfTwo(n) == n > 0 /\ \A d \in 2 .. n : n % d = 0 => d % 2 = 0
==============================================================================
