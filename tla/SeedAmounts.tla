----------------------------- MODULE SeedAmounts -----------------------------
(***************************************************************************)
(* seed/tenant_seed.go: the arithmetic of one document.  The price is a    *)
(* float64 drawn between two bounds and cut to cents; the tax and the      *)
(* total are float64 too, and the driver writes each of them as the        *)
(* shortest decimal that reads back as the same float.  The columns of     *)
(* acc_trans are plain NUMERIC and keep every digit.                       *)
(*                                                                         *)
(* A float is <<m, k>> for m / 2^k with m of Bits bits, rounded half to    *)
(* even.  The instance that is checked has 13 Bits for the 53 of float64:  *)
(* hundredths look alike in both, as 53 and 13 differ by a multiple of the *)
(* period of 1/25.  The names of this module are its own, so that          *)
(* TenantSeedProofs extends it beside TenantSeed.                          *)
(***************************************************************************)
EXTENDS Integers, FiniteSetsExt

CONSTANTS
    Bits,      \* width of the mantissa
    Unit,      \* prices are multiples of 1 / Unit
    Rate,      \* the tax is 1 / Rate of the net
    Digits,    \* places of the longest decimal written
    Scale,     \* places of the amounts that are compared
    MinPrice,  \* bounds of the prices of the services, in units
    MaxPrice,
    Steps      \* bound: prices drawn between two units

ASSUME AmountsAssumption ==
    /\ \A c \in {Bits, Unit, Rate, Digits, MinPrice, MaxPrice, Steps} : c \in Nat \ {0}
    /\ Scale \in 0..Digits
    /\ MinPrice <= MaxPrice

VARIABLES
    low, high,  \* min_price and max_price of the service at hand, in units
    price,      \* the price as drawn
    net, gst, gross,
    step        \* the statement to come

amountVars == <<low, high, price, net, gst, gross, step>>

-----------------------------------------------------------------------------
(* Floats. *)

\* Powers of two and of ten.
Two[n \in Nat] == IF n = 0 THEN 1 ELSE 2 * Two[n - 1]
Ten[n \in Nat] == IF n = 0 THEN 1 ELSE 10 * Ten[n - 1]

\* p / q to the nearest integer, ties to the even one.
HalfEven(p, q) ==
    LET n == p \div q
        r == 2 * (p % q)
    IN  IF r > q \/ (r = q /\ n % 2 = 1) THEN n + 1 ELSE n

\* The float nearest to p / q.
Round(p, q) ==
    LET k == CHOOSE j \in 0..(2 * Bits) :
                 p * Two[j] >= q * Two[Bits - 1] /\ p * Two[j] < q * Two[Bits]
    IN  IF p = 0 THEN <<0, 0>> ELSE <<HalfEven(p * Two[k], q), k>>

\* The float nearest to n / 2^k, for an n that may be too wide.
Narrow(n, k) ==
    LET s == Min({j \in 0..Bits + 1 : n < Two[Bits + j]})
    IN  <<HalfEven(n, Two[s]), k - s>>

Times(x, y) == Narrow(x[1] * y[1], x[2] + y[2])

Plus(x, y) ==
    LET k == Max({x[2], y[2]})
    IN  Narrow(x[1] * Two[k - x[2]] + y[1] * Two[k - y[2]], k)

Floor(x) == x[1] \div Two[x[2]]

SameFloat(x, y) ==
    LET k == Max({x[2], y[2]})
    IN  x[1] * Two[k - x[2]] = y[1] * Two[k - y[2]]

\* x to d places; the driver's text of x, in 1 / 10^Digits: the fewest places that
\* read back as x, or Digits.
ToPlaces(x, d) == (2 * x[1] * Ten[d] + Two[x[2]]) \div Two[x[2] + 1]

Decimal(x) ==
    LET d == Min({e \in 0..Digits : e = Digits \/ SameFloat(Round(ToPlaces(x, e), Ten[e]), x)})
    IN  ToPlaces(x, d) * Ten[Digits - d]

-----------------------------------------------------------------------------
Zero == <<0, 0>>

\* The services of a dataset: any bounds, a single price among them.
AmountsInit ==
    /\ low \in MinPrice..MaxPrice
    /\ high \in low..MaxPrice
    /\ price = Zero /\ net = Zero /\ gst = Zero /\ gross = Zero
    /\ step = "draw"

\* price := MinPrice + rng.Float64() * (MaxPrice - MinPrice)
Draw ==
    /\ step = "draw"
    /\ \E j \in (low * Steps)..(high * Steps) :
          /\ j < high * Steps \/ low = high
          /\ price' = Round(j, Unit * Steps)
    /\ step' = "cut"
    /\ UNCHANGED <<low, high, net, gst, gross>>

\* Mutant of Cut: the price is left as it was drawn.
CutNothing ==
    /\ step = "cut"
    /\ net' = price
    /\ step' = "tax"
    /\ UNCHANGED <<low, high, price, gst, gross>>

\* price = float64(int(price*100)) / 100
Cut ==
    /\ step = "cut"
    /\ net' = Round(Floor(Times(price, Round(Unit, 1))), Unit)
    /\ step' = "tax"
    /\ UNCHANGED <<low, high, price, gst, gross>>

\* gst := net * gstRate
Tax ==
    /\ step = "tax"
    /\ gst' = Times(net, Round(1, Rate))
    /\ step' = "total"
    /\ UNCHANGED <<low, high, price, net, gross>>

\* gross := net + gst, and the three postings.
Total ==
    /\ step = "total"
    /\ gross' = Plus(net, gst)
    /\ step' = "booked"
    /\ UNCHANGED <<low, high, price, net, gst>>

AmountsNext == Draw \/ Cut \/ Tax \/ Total

AmountsSpec == AmountsInit /\ [][AmountsNext]_amountVars

-----------------------------------------------------------------------------
(* Properties. *)

\* An amount as a column of Scale places would hold it.
AtScale(x) == (2 * Decimal(x) + Ten[Digits - Scale]) \div (2 * Ten[Digits - Scale])

\* The postings of a document balance once they are rounded to the places that
\* a tenth of a cent needs, although the decimals that are stored need not add
\* up to zero: the price is whole cents, and the tax a whole number of tenths.
BalancesAtScale == step = "booked" => AtScale(gross) = AtScale(net) + AtScale(gst)
=============================================================================
