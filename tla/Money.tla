------------------------------- MODULE Money -------------------------------
(***************************************************************************)
(* The decimal amounts of pkg/money/money.go, which no service imports.    *)
(*                                                                         *)
(* A value is counted in hundredths of a cent: the library's decimals are  *)
(* exact, and so is every operation here on amounts of whole cents.  Mul   *)
(* and Div by any decimal, JSON and strings are left out.                  *)
(***************************************************************************)
EXTENDS Integers

Currencies == {"USD", "EUR", "GBP", "RUB", "BTC", "ETH"}

Amount == [value : Int, currency : Currencies]

Errors == {"negative amount", "insufficient funds", "currency mismatch"}

Money(value, currency) == [value |-> value, currency |-> currency]

Zero(currency) == Money(0, currency)

IsNegative(value) == value < 0

\* New, FromDecimal and UnmarshalJSON refuse what is negative ...
FromDecimal(value, currency) ==
  IF IsNegative(value) THEN "negative amount" ELSE Money(value, currency)

\* ... FromCents, and Scan when a row is read, do not.
FromCents(cents, currency) == Money(100 * cents, currency)

Scan(a, value) == [a EXCEPT !.value = value]

\* IntPart drops what is left of a cent.
Cents(a) ==
  IF a.value >= 0 THEN a.value \div 100 ELSE -((-a.value) \div 100)

Add(a, b) ==
  IF a.currency # b.currency THEN "currency mismatch"
  ELSE Money(a.value + b.value, a.currency)

Sub(a, b) ==
  IF a.currency # b.currency THEN "currency mismatch"
  ELSE IF IsNegative(a.value - b.value) THEN "insufficient funds"
  ELSE Money(a.value - b.value, a.currency)

MulInt(a, n) == Money(a.value * n, a.currency)

\* Of an amount of whole cents.
Percent(a, percent) == Money((a.value \div 100) * percent, a.currency)

\* The comparisons do not look at the currency.
GreaterThan(a, b) == a.value > b.value
LessThan(a, b) == a.value < b.value
Equal(a, b) == a = b
Min(a, b) == IF LessThan(a, b) THEN a ELSE b
Max(a, b) == IF GreaterThan(a, b) THEN a ELSE b
=============================================================================
