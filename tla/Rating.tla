------------------------------- MODULE Rating -------------------------------
(***************************************************************************)
(* The arithmetic of internal/domain and internal/billing: what a call     *)
(* costs, how long a balance lets one talk, what a month of a DID costs,   *)
(* and when the next month is due.                                         *)
(*                                                                         *)
(* Money is in cents.  A per-minute rate is in units of 1/RateUnit cent,   *)
(* the four decimals of rate_cards.per_minute_cents.  The code computes    *)
(* with float64: where the exact result is on the edge of a rounding, the  *)
(* float result may fall on either side, so those operators return the set *)
(* of results the program can produce.                                     *)
(*                                                                         *)
(* Time is counted in days; every month has MonthLength of them.           *)
(***************************************************************************)
EXTENDS Integers

CONSTANT MonthLength
ASSUME MonthAssumption == MonthLength \in Nat \ {0}

RateUnit == 10000
DefaultIncrement == 60
LastAnniversary == 28
IncludedChannels == 2     \* the MRC pays for these
FreeCallSeconds == 14400  \* authorized when the rate is zero
Increments == {1, 6, 15, 30, 60}   \* what the CHECKs on rate_cards allow

-----------------------------------------------------------------------------
(* Calls *)

OrDefault(seconds) == IF seconds <= 0 THEN DefaultIncrement ELSE seconds

\* The connection minimum, then rounded up to a whole number of increments.
BilledSeconds(billsec, minimum, increment) ==
    LET least == OrDefault(minimum)
        step == OrDefault(increment)
    IN IF billsec < least THEN least
       ELSE IF billsec % step = 0 THEN billsec
       ELSE billsec + (step - (billsec % step))

CeilDiv(a, b) == IF a % b = 0 THEN a \div b ELSE a \div b + 1

\* What billed seconds come to at rate, and what math.Ceil of the float product
\* may say: a product that is a whole number of cents may come out a shade above it.
CeilCents(billed, rate) ==
    LET exact == CeilDiv(billed * rate, 60 * RateUnit) IN
    IF (billed * rate) % (60 * RateUnit) = 0 THEN {exact, exact + 1} ELSE {exact}

ChargeForCall(billsec, minimum, increment, rate) ==
    IF billsec <= 0 THEN {0} ELSE CeilCents(BilledSeconds(billsec, minimum, increment), rate)

SupplierChargeForCall(billsec, minimum, increment, rate) ==
    IF rate <= 0 THEN {0} ELSE ChargeForCall(billsec, minimum, increment, rate)

\* Whole minutes only; a quotient that is whole may come out a shade below it.
MaxSecondsForBalance(cents, rate) ==
    IF rate <= 0 THEN {FreeCallSeconds}
    ELSE LET minutes == (cents * RateUnit) \div rate
             float == IF (cents * RateUnit) % rate = 0 THEN {minutes, minutes - 1} ELSE {minutes}
         IN {IF m < 0 THEN 0 ELSE 60 * m : m \in float}

-----------------------------------------------------------------------------
(* Months *)

FeeAt(price, channels) ==
    price.mrc + (IF channels > IncludedChannels THEN channels - IncludedChannels ELSE 0) * price.chan

\* The rungs of processOne's ladder that the balance pays for.
Affordable(cents, price, channels) == {n \in 0..channels : FeeAt(price, n) <= cents}

\* It walks down from the order's own count and stops at the first of them.
LadderStop(rungs) == CHOOSE n \in rungs : \A m \in rungs : m <= n

MonthOf(time) == time \div MonthLength

OnDay(month, day) ==
    month * MonthLength + (IF day < 1 THEN 1 ELSE IF day > LastAnniversary THEN LastAnniversary ELSE day) - 1

\* Mutant: an anniversary that falls on from itself counts as the next one.
NextAnniversaryOrToday(from, day) ==
    LET candidate == OnDay(MonthOf(from), day) IN
    IF candidate >= from THEN candidate ELSE candidate + MonthLength

NextAnniversary(from, day) ==
    LET candidate == OnDay(MonthOf(from), day) IN
    IF candidate > from THEN candidate ELSE candidate + MonthLength
===============================================================================
