------------------------------- MODULE Precision -------------------------------
(***************************************************************************)
(* fixgateway/fix/precision.py: rounding to a tick, the average price of   *)
(* some fills and the PnL of the position they make up when it is closed.  *)
(*                                                                         *)
(* Prices, ticks and quantities are Decimals written in a common unit, so  *)
(* integers.  A result that does not fit the digits of its context is      *)
(* rounded half to even to as many as do: the average in a context of its  *)
(* own (50 digits), the difference and the product of pnl() in the default *)
(* one (28 digits).  The sums and the PnL of single fills fit (SumsFit).   *)
(***************************************************************************)
EXTENDS Integers, Sequences

CONSTANTS
    Prices, Quantities, Ticks,
    AverageLimit,   \* ten to the digits of the context of the average
    WorkingLimit,   \* ten to those of the default context
    PowersOfTen,    \* the fractions of a unit a last digit may stand for
    MaxFills        \* fills of a position (bound)

ASSUME PrecisionAssumption ==
    /\ Prices \subseteq Int
    /\ Quantities \subseteq Nat \ {0}
    /\ Ticks \subseteq Nat \ {0}
    /\ AverageLimit \in Nat
    /\ WorkingLimit \in 1 .. AverageLimit
    /\ PowersOfTen \subseteq Nat \ {0}
    /\ 1 \in PowersOfTen
    /\ \E finest \in PowersOfTen : \A power \in PowersOfTen : power <= finest
    /\ MaxFills \in Nat

VARIABLES
    fills,              \* those averaged so far
    total_notional, total_quantity,
    exit_price,         \* at which the position is to be closed
    realized            \* PnL of the fills if each is closed on its own

precisionVars == <<fills, total_notional, total_quantity, exit_price, realized>>

Magnitude(n) == IF n < 0 THEN -n ELSE n

ASSUME SumsFit ==
    \A price, exit \in Prices, quantity \in Quantities :
        /\ MaxFills * Magnitude(price) * quantity < WorkingLimit
        /\ MaxFills * Magnitude(exit - price) * quantity < WorkingLimit

(* The whole number next to n / d, the even one of two: quantize(1,        *)
(* ROUND_HALF_EVEN), and what an operation does to its last digit.         *)
HalfEven(n, d) ==
    LET below == n \div d
        twice == 2 * (n % d)
    IN  IF twice < d \/ (twice = d /\ below % 2 = 0) THEN below ELSE below + 1

RoundToTick(price, tick) == HalfEven(price, tick) * tick

(* The finest last digit with which n / d has fewer digits than limit.     *)
Fits(n, d, limit, power) == power = 1 \/ Magnitude(n) * power < limit * d

LastDigit(n, d, limit) ==
    CHOOSE power \in PowersOfTen :
        /\ Fits(n, d, limit, power)
        /\ \A finer \in PowersOfTen : Fits(n, d, limit, finer) => finer <= power

(* n / d as a Decimal: an amount of fractions of a unit.                   *)
Rounded(n, d, limit) ==
    LET power == LastDigit(n, d, limit)
    IN  [amount |-> HalfEven(n * power, d), power |-> power]

Notional(price, quantity) == price * quantity

Direction == [buy |-> 1, sell |-> -1]

(* pnl() of a fill, of which nothing is rounded.                           *)
FillPnL(entry, exit, quantity, side) == (exit - entry) * quantity * Direction[side]

(* pnl() of an entry price that is an average: the difference is rounded,  *)
(* and then the product.                                                   *)
PnL(entry, exit, quantity, side) ==
    LET difference == Rounded(exit * entry.power - entry.amount, entry.power, WorkingLimit)
        product == Rounded(difference.amount * quantity, difference.power, WorkingLimit)
    IN  [amount |-> product.amount * Direction[side], power |-> product.power]

(* Mutant: the average is left to the default context.                     *)
AverageInDefaultContext == Rounded(total_notional, total_quantity, WorkingLimit)

Average == Rounded(total_notional, total_quantity, AverageLimit)

PrecisionInit ==
    /\ fills = <<>>
    /\ total_notional = 0
    /\ total_quantity = 0
    /\ exit_price \in Prices
    /\ realized = [side \in {"buy", "sell"} |-> 0]

AddFill(price, quantity) ==
    /\ Len(fills) < MaxFills
    /\ fills' = Append(fills, [price |-> price, quantity |-> quantity])
    /\ total_notional' = total_notional + Notional(price, quantity)
    /\ total_quantity' = total_quantity + quantity
    /\ realized' = [side \in DOMAIN realized |->
                       realized[side] + FillPnL(price, exit_price, quantity, side)]
    /\ UNCHANGED exit_price

PrecisionNext == \E price \in Prices, quantity \in Quantities : AddFill(price, quantity)

PrecisionSpec == PrecisionInit /\ [][PrecisionNext]_precisionVars

-------------------------------------------------------------------------------
(* A rounded price is a whole number of ticks and at most half a tick off; *)
(* it does not depend on the sign, so a price and the amount owed for it   *)
(* round alike, and rounding it again changes nothing.                     *)
RoundsToNearest(price, tick) ==
    /\ RoundToTick(price, tick) % tick = 0
    /\ 2 * Magnitude(RoundToTick(price, tick) - price) <= tick
    /\ RoundToTick(-price, tick) = -RoundToTick(price, tick)
    /\ RoundToTick(RoundToTick(price, tick), tick) = RoundToTick(price, tick)

PricesRoundToNearest ==
    \A i \in DOMAIN fills, tick \in Ticks : RoundsToNearest(fills[i].price, tick)

(* The average times the quantity gives the notional back but for five     *)
(* units of the digit after the last of the average's context, relative to *)
(* the notional, also when its digits never end and however large the      *)
(* quantity; where the digits considered here do not reach that far, but   *)
(* for half a last digit per share.                                        *)
AverageKeepsTheNotional ==
    LET off == Magnitude(Average.amount * total_quantity - total_notional * Average.power)
    IN  total_quantity > 0 =>
            /\ 2 * off <= total_quantity
            /\ 10 * Average.power \in PowersOfTen =>
                  off * AverageLimit <= 5 * Magnitude(total_notional) * Average.power

(* Closing a position at its average price settles to the same amount as   *)
(* closing every fill on its own, on either side, but for the digits lost  *)
(* on the way: half the last digit of the average and half of that of the  *)
(* difference for every share, and half of the last digit of the amount.   *)
AverageSettlesTheFills ==
    \A side \in DOMAIN realized :
        LET average == Average
            difference == Rounded(exit_price * average.power - average.amount, average.power,
                                  WorkingLimit)
            settled == PnL(average, exit_price, total_quantity, side)
        IN  total_quantity > 0 =>
                2 * Magnitude(settled.amount - realized[side] * settled.power)
                      * average.power * difference.power
                    <= average.power * difference.power
                       + total_quantity * settled.power * average.power
                       + total_quantity * settled.power * difference.power

(* Neither rounding nor averaging moves money from one side to the other,  *)
(* beyond the digits the two contexts cannot hold.                         *)
MoneyIsKept == PricesRoundToNearest /\ AverageKeepsTheNotional /\ AverageSettlesTheFills

===============================================================================
