------------------------------- MODULE Money -------------------------------
(***************************************************************************)
(* Money in integer minor units and the tax taken from a rate in basis     *)
(* points. The three places that tax an amount are here side by side: the  *)
(* folio's posting, the night audit's room charge and the quote.           *)
(***************************************************************************)
EXTENDS Integers, Functions

NoThreshold == -1

\* A row of property.taxes.
Tax == [name: STRING, type: {"INCLUSIVE", "EXCLUSIVE"}, rateBps: Nat, above: Int]

RoundedDiv(n, d) == IF n < 0 THEN -((2 * (-n) + d) \div (2 * d))
                             ELSE (2 * n + d) \div (2 * d)

\* Math.round on the magnitude: halves go away from zero.
TaxFromBps(amount, t) ==
  RoundedDiv(amount * t.rateBps,
             IF t.type = "EXCLUSIVE" THEN 10000 ELSE 10000 + t.rateBps)

\* The part of a price that is tax already inside it.
CarvedOut(taxes, gross) ==
  SumFunction([t \in {t \in taxes : t.type = "INCLUSIVE"} |-> TaxFromBps(gross, t)])

OnTop(taxes, gross) ==
  SumFunction([t \in {t \in taxes : t.type = "EXCLUSIVE"} |-> TaxFromBps(gross, t)])

\* A slab tax applies only above its threshold; the folio's posting honours it.
Relevant(taxes, gross) ==
  {t \in taxes : t.above = NoThreshold \/ gross > t.above}

\* The quote taxes the whole subtotal once, with every row of the table.
QuoteTotal(taxes, subtotal) == subtotal + OnTop(taxes, subtotal)

\* allocate(): n parts that differ by at most one unit, larger parts first.
Allocate(amount, parts) ==
  LET sign == IF amount < 0 THEN -1 ELSE 1
      base == (sign * amount) \div parts
      left == (sign * amount) % parts
  IN  [i \in 1 .. parts |-> sign * (base + IF i <= left THEN 1 ELSE 0)]
=============================================================================
