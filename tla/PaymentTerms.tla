---------------------------- MODULE PaymentTerms ----------------------------
(***************************************************************************)
(* The payment terms calculator.  What the patterns find in the text of    *)
(* the terms is the record                                                 *)
(*   [receipt, cod : BOOLEAN, discount : [percent, days, net] or none,     *)
(*    eom : the days after the end of the month or none, net : or none]    *)
(* where a text may match several patterns.  Amounts are in 1/1000 of the  *)
(* currency (an amount may have more than two decimals), results in cents, *)
(* percents in tenths.  A date is [year, month, day]; Ordinal numbers the  *)
(* days as the calendar of the library does.                               *)
(***************************************************************************)
EXTENDS Integers, Sequences

CONSTANT NoTerm     \* a pattern that does not match, an absent amount or date

-----------------------------------------------------------------------------
(* The calendar                                                            *)

Leap(year) == year % 4 = 0 /\ (year % 100 # 0 \/ year % 400 = 0)
MonthLength(year, month) ==
    IF month = 2 THEN (IF Leap(year) THEN 29 ELSE 28)
    ELSE IF month \in {4, 6, 9, 11} THEN 30 ELSE 31
DaysBeforeMonth == <<0, 31, 59, 90, 120, 151, 181, 212, 243, 273, 304, 334>>
Ordinal(year, month, day) ==
    LET y == year - 1
    IN  365 * y + y \div 4 - y \div 100 + y \div 400
          + DaysBeforeMonth[month] + (IF month > 2 /\ Leap(year) THEN 1 ELSE 0) + day
Day(date) == Ordinal(date.year, date.month, date.day)

IsDate(date) ==
    /\ date.year \in Nat \ {0} /\ date.month \in 1..12
    /\ date.day \in 1..MonthLength(date.year, date.month)

EndOfMonth(date) ==
    IF date.month = 12 THEN Ordinal(date.year, 12, 31)
    ELSE Ordinal(date.year, date.month + 1, 1) - 1

-----------------------------------------------------------------------------
(* The calculation                                                         *)

TermType(terms) ==
    IF terms.receipt THEN "due_on_receipt"
    ELSE IF terms.cod THEN "cod"
    ELSE IF terms.discount # NoTerm THEN "discount"
    ELSE IF terms.eom # NoTerm THEN "eom"
    ELSE IF terms.net # NoTerm THEN "net"
    ELSE "unknown"

DueDay(terms, date) ==
    CASE TermType(terms) = "discount" -> Day(date) + terms.discount.net
      [] TermType(terms) = "eom" -> EndOfMonth(date) + terms.eom
      [] TermType(terms) = "net" -> Day(date) + terms.net
      [] OTHER -> Day(date)

NetDays(terms, date) ==
    CASE TermType(terms) = "discount" -> terms.discount.net
      [] TermType(terms) = "eom" -> DueDay(terms, date) - Day(date)
      [] TermType(terms) = "net" -> terms.net
      [] OTHER -> 0

\* n / d rounded to the nearest, a half away from zero (ROUND_HALF_UP).
HalfUp(n, d) == IF n < 0 THEN -((-2 * n + d) \div (2 * d)) ELSE (2 * n + d) \div (2 * d)

DiscountAmount(amount, percent) == HalfUp(amount * percent, 10000)

\* Mutant: what is left is a percentage of its own.
AfterByPercent(amount, percent) == HalfUp(amount * (1000 - percent), 10000)

AmountAfterDiscount(amount, percent) ==
    HalfUp(amount - 10 * DiscountAmount(amount, percent), 10)

NotParsed == [termType |-> "unknown"]

\* The calendar ends in 9999: a later day is an OverflowError, and no answer.
LastDay == Ordinal(9999, 12, 31)
OutOfRange(terms, date) ==
    \/ DueDay(terms, date) > LastDay
    \/ TermType(terms) = "discount" /\ Day(date) + terms.discount.days > LastDay
Failed == [termType |-> "failed"]

CalculatePaymentTerms(request) ==
    LET terms == request.terms
        asOf == IF request.asOf = NoTerm THEN request.date ELSE request.asOf
        discounted == /\ TermType(terms) = "discount"
                      /\ request.amount # NoTerm /\ request.amount > 0
        deadline == Day(request.date) + terms.discount.days
        due == DueDay(terms, request.date)
    IN  IF TermType(terms) = "unknown" THEN NotParsed
        ELSE IF OutOfRange(terms, request.date) THEN Failed
        ELSE [termType |-> TermType(terms),
              netDays |-> NetDays(terms, request.date),
              due |-> due,
              daysUntilDue |-> due - Day(asOf),
              deadline |-> IF TermType(terms) = "discount" THEN deadline ELSE NoTerm,
              daysUntilDeadline |->
                  IF TermType(terms) = "discount" THEN deadline - Day(asOf) ELSE NoTerm,
              discount |-> IF discounted
                  THEN DiscountAmount(request.amount, terms.discount.percent) ELSE NoTerm,
              afterDiscount |-> IF discounted
                  THEN AmountAfterDiscount(request.amount, terms.discount.percent) ELSE NoTerm]
=============================================================================
