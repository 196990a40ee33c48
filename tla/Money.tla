-------------------------------- MODULE Money --------------------------------
(***************************************************************************)
(* Amounts of money: whole cents in a signed integer, written for reading, *)
(* written for an input field, and read from what somebody typed.  A text  *)
(* is a sequence of digits 0 .. 9 and of the signs below.  The integer has *)
(* any width, so that its limits can be in reach.  The amount and the text *)
(* are the state, so that TLC names those that go wrong.                   *)
(***************************************************************************)
EXTENDS Integers, Sequences, Texts

CONSTANTS
  MaxCents,  \* largest amount the integer holds; the smallest is one more below zero
  Quoted,   \* bound: the amounts that are written
  Leading,   \* bound: how the texts that are typed begin
  Following, \* bound: the characters that follow
  MaxTyped   \* bound: how many of them

Digits == 0 .. 9
Minus == 10
Point == 11
Comma == 12
Dollar == 13
Plus == 14
Signs == Digits \cup {Minus, Point, Comma, Dollar, Plus}

\* What the constants have to be.
MoneyInstance ==
  /\ MaxCents \in Nat \ {0} /\ Quoted \subseteq -MaxCents .. MaxCents
  /\ Leading \subseteq Seq(Signs) /\ Following \subseteq Signs /\ MaxTyped \in Nat

VARIABLES
  amount,  \* an amount that is written
  entered  \* what somebody typed for one

money == <<amount, entered>>

Bad == [ok |-> FALSE, cents |-> 0]
Good(c) == [ok |-> TRUE, cents |-> c]

Holdable(n) == -MaxCents - 1 <= n /\ n <= MaxCents
Abs(n) == IF n < 0 THEN -n ELSE n

-----------------------------------------------------------------------------
(* Writing.                                                                *)

\* The decimal digits of a natural number.
Decimal[n \in Nat] == IF n < 10 THEN <<n>> ELSE Append(Decimal[n \div 10], n % 10)

\* Mutation: the digit before a separator is counted with the group.
GroupedByFour(digits) ==
  FlattenSeq([i \in 1 .. Len(digits) |->
                IF i > 1 /\ (Len(digits) - i + 1) % 4 = 0 THEN <<Comma, digits[i]>> ELSE <<digits[i]>>])

\* A separator before every third digit, counting from the right.
Grouped(digits) ==
  FlattenSeq([i \in 1 .. Len(digits) |->
                IF i > 1 /\ (Len(digits) - i + 1) % 3 = 0 THEN <<Comma, digits[i]>> ELSE <<digits[i]>>])

Cents(c) == <<Point, (Abs(c) % 100) \div 10, Abs(c) % 10>>
Sign(c) == IF c < 0 THEN <<Minus>> ELSE <<>>

format_money(c) == Sign(c) \o <<Dollar>> \o Grouped(Decimal[Abs(c) \div 100]) \o Cents(c)
money_input_value(c) == Sign(c) \o Decimal[Abs(c) \div 100] \o Cents(c)

-----------------------------------------------------------------------------
(* Reading.                                                                *)

\* The separators and the currency are dropped.
kept == [ch \in Signs |-> IF ch \in {Dollar, Comma} THEN <<>> ELSE <<ch>>]

shifted == [d \in Digits |-> [n \in Nat |-> 10 * n + d]]
Value(digits) == Folded(shifted, 0, digits)

AllDigits(text) == \A i \in DOMAIN text : text[i] \in Digits

\* The integer parser of the standard library: one sign and then digits only.
Signed(text) == text # <<>> /\ Head(text) \in {Minus, Plus}
ParseInt(text) ==
  LET digits == IF Signed(text) THEN Tail(text) ELSE text
      n == IF Signed(text) /\ Head(text) = Minus THEN - Value(digits) ELSE Value(digits)
  IN  IF digits # <<>> /\ AllDigits(digits) /\ Holdable(n) THEN Good(n) ELSE Bad

Digit(fraction, i) == IF i <= Len(fraction) THEN fraction[i] ELSE 0

\* Mutation: rounding is not checked against the width.
SumUnchecked(whole, fraction) ==
  LET hundredths == 100 * whole + (10 * Digit(fraction, 1) + Digit(fraction, 2))
      sum == hundredths + IF Digit(fraction, 3) >= 5 THEN 1 ELSE 0
  IN  IF Holdable(100 * whole) /\ Holdable(hundredths) THEN Good(sum) ELSE Bad

\* Every step is checked against the width of the integer.
Sum(whole, fraction) ==
  LET hundredths == 100 * whole + (10 * Digit(fraction, 1) + Digit(fraction, 2))
      sum == hundredths + IF Digit(fraction, 3) >= 5 THEN 1 ELSE 0
  IN  IF Holdable(100 * whole) /\ Holdable(hundredths) /\ Holdable(sum) THEN Good(sum) ELSE Bad

\* Where digits are split, and what is read of them.
Cut(digits) == CHOOSE i \in 1 .. Len(digits) + 1 :
                 /\ i <= Len(digits) => digits[i] = Point
                 /\ \A j \in 1 .. i - 1 : digits[j] # Point
Read(digits) ==
  LET whole == IF Cut(digits) = 1 THEN Good(0) ELSE ParseInt(SubSeq(digits, 1, Cut(digits) - 1))
      fraction == SubSeq(digits, Cut(digits) + 1, Len(digits))
  IN  IF whole.ok /\ AllDigits(fraction) THEN Sum(whole.cents, fraction) ELSE Bad

Negative(text) == text # <<>> /\ Head(text) = Minus
Unsigned(text) == IF Negative(text) THEN Tail(text) ELSE text

parse_money(text) ==
  LET cleaned == Each(kept, text)
      sum == Read(Unsigned(cleaned))
  IN  IF cleaned = <<>> \/ ~ sum.ok THEN Bad
      ELSE Good(IF Negative(cleaned) THEN - sum.cents ELSE sum.cents)

-----------------------------------------------------------------------------
Entries ==
  {start \o rest : start \in Leading, rest \in UNION {[1 .. n -> Following] : n \in 0 .. MaxTyped}}
MoneyInit == amount \in Quoted /\ entered \in Entries
MoneySpec == MoneyInit /\ [][FALSE]_money

\* Counting from the point to the left, every fourth character is a separator
\* and no other is; the sign and the currency stay in front.
GroupedByThree(text) ==
  LET point == CHOOSE i \in DOMAIN text : text[i] = Point
      dollar == CHOOSE i \in DOMAIN text : text[i] = Dollar
  IN  /\ \A i \in dollar + 1 .. point - 1 : (text[i] = Comma) <=> ((point - i) % 4 = 0)
      /\ text[dollar + 1] # Comma

(* Every amount that can be entered reads back as itself, from the input   *)
(* field and from the page, whose thousands are set apart (domain.rs:      *)
(* format_money, money_input_value, parse_money).                          *)
MoneyRoundTrips ==
  /\ parse_money(money_input_value(amount)) = Good(amount)
  /\ parse_money(format_money(amount)) = Good(amount)
  /\ GroupedByThree(format_money(amount))

\* Plain decimal numbers, at most one sign in front of them.
PlainNumber(text) ==
  LET body == Unsigned(text)
  IN  /\ body # <<>>
      /\ \A i \in DOMAIN body : body[i] \in Digits \cup {Point}
      /\ \A i, j \in DOMAIN body : body[i] = Point /\ body[j] = Point => i = j

\* The nearest cent to the number a plain text stands for, its sign aside.
Nearest(text) ==
  LET body == Unsigned(text)
      points == {i \in DOMAIN body : body[i] = Point}
      cut == IF points = {} THEN Len(body) + 1 ELSE CHOOSE i \in points : TRUE
      thousandths == Value(SubSeq(SubSeq(body, cut + 1, Len(body)) \o <<0, 0, 0>>, 1, 3))
  IN  100 * Value(SubSeq(body, 1, cut - 1)) + (thousandths + 5) \div 10

(* A plain decimal number is read as the nearest cent, halves upward, and  *)
(* is refused exactly when that cent is more than the integer holds: no    *)
(* amount is wrapped, cut or doubled (domain.rs: parse_money).             *)
MoneyNearest ==
  PlainNumber(entered) =>
    parse_money(entered) =
      IF Nearest(entered) > MaxCents THEN Bad
      ELSE Good(IF Negative(entered) THEN - Nearest(entered) ELSE Nearest(entered))
=============================================================================
