------------------------------ MODULE Pricing -------------------------------
(***************************************************************************)
(* QuotationCalculator.calculate, for a cart that can be calculated.       *)
(* Amounts are in cents, catalogue prices in parts of a cent and rates in  *)
(* parts of a whole, so that all of them are natural numbers; Decimal is   *)
(* exact for them, up to its 28 digits.                                    *)
(***************************************************************************)
EXTENDS Integers, FiniteSets, Functions

CONSTANTS
  Fraction,  \* parts of a cent in a catalogue price
  Whole      \* parts of a rate that are 100 percent

ASSUME PartsAssumption == Fraction \in Nat \ {0} /\ Whole \in Nat \ {0}

\* A line of the cart, with the current price of its product.
Item == [price : Nat, quantity : Nat \ {0}]

\* Mutant: a discount may be more than all.
AnyDiscount == 0..(3 * Whole)

\* cap_default_discount.
DiscountRate == 0..Whole

Rules == [discount : DiscountRate, tax : Nat]

\* Mutant: the part of a cent is dropped.
MoneyTruncated(parts, unit) == parts \div unit

\* money: half a cent is rounded up.
Money(parts, unit) == (2 * parts + unit) \div (2 * unit)

Sum(amounts) == FoldFunction(+, 0, amounts)

LineSubtotal(item) == Money(item.price * item.quantity, Fraction)
Subtotal(cart) == Sum([i \in DOMAIN cart |-> LineSubtotal(cart[i])])

Discount(subtotal, rules) == Money(subtotal * rules.discount, Whole)
Taxable(subtotal, rules) == subtotal - Discount(subtotal, rules)
Tax(subtotal, rules) == Money(Taxable(subtotal, rules) * rules.tax, Whole)
Total(subtotal, rules) == Taxable(subtotal, rules) + Tax(subtotal, rules)
-----------------------------------------------------------------------------
(* What the amounts of one quotation, and of two, have to do with each     *)
(* other.                                                                  *)

\* The total without any rounding, in parts of 1 / (Fraction * Whole * Whole).
Exact(cart, rules) ==
  Sum([i \in DOMAIN cart |-> cart[i].price * cart[i].quantity])
    * (Whole - rules.discount) * (Whole + rules.tax)

Parts == Fraction * Whole * Whole

\* Half a cent for each line, which discount and tax then scale; half a cent
\* for the discount, which tax scales; and half a cent for the tax.
WithinRounding(cart, rules) ==
  LET off == 2 * (Total(Subtotal(cart), rules) * Parts - Exact(cart, rules))
      lines == Fraction * Cardinality(DOMAIN cart)
                 * (Whole - rules.discount) * (Whole + rules.tax)
      allowed == lines + Fraction * Whole * (Whole + rules.tax) + Parts
  IN -allowed <= off /\ off <= allowed

CostsNoLess(more, cart, rules) ==
  Total(Subtotal(more), rules) >= Total(Subtotal(cart), rules)
=============================================================================
