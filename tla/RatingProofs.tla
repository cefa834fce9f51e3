------------------------------ MODULE RatingProofs ------------------------------
(* What the arithmetic of Rating guarantees for every rate, balance and day. *)
EXTENDS Rating, TLAPS, WellFoundedInduction

-----------------------------------------------------------------------------
(* Calls *)

\* What is billed is a positive number of seconds, no fewer than were talked.
LEMMA BilledCoversCall ==
    ASSUME NEW billsec \in Nat, NEW minimum \in Int, NEW increment \in Int
    PROVE  /\ BilledSeconds(billsec, minimum, increment) \in Nat
           /\ BilledSeconds(billsec, minimum, increment) >= billsec
<1>1. OrDefault(minimum) \in Nat \ {0} /\ OrDefault(increment) \in Nat \ {0}
    BY DEF OrDefault, DefaultIncrement
<1>2. \A step \in Nat \ {0} : billsec % step \in 0..(step - 1)
    OBVIOUS
<1>3. billsec % OrDefault(increment) \in 0..(OrDefault(increment) - 1)
    BY <1>1, <1>2
<1> QED BY <1>1, <1>3 DEF BilledSeconds

\* A whole number of authorized minutes is not outgrown by the rounding of a call that
\* fits into it, because every increment divides a minute.
LEMMA BilledWithinMinutes ==
    ASSUME NEW minutes \in Nat \ {0}, NEW billsec \in 1..(60 * minutes),
           NEW minimum \in 0..60, NEW increment \in Increments
    PROVE  BilledSeconds(billsec, minimum, increment) <= 60 * minutes
<1>1. OrDefault(minimum) \in 1..60 /\ OrDefault(increment) = increment
    BY DEF OrDefault, DefaultIncrement, Increments
<1>2. CASE increment = 1
    BY <1>1, <1>2 DEF BilledSeconds
<1>3. CASE increment = 6
    BY <1>1, <1>3 DEF BilledSeconds
<1>4. CASE increment = 15
    BY <1>1, <1>4 DEF BilledSeconds
<1>5. CASE increment = 30
    BY <1>1, <1>5 DEF BilledSeconds
<1>6. CASE increment = 60
    BY <1>1, <1>6 DEF BilledSeconds
<1> QED BY <1>2, <1>3, <1>4, <1>5, <1>6 DEF Increments

\* Rounded up, a quotient stays within any whole number that bounds it.
LEMMA CeilWithin ==
    ASSUME NEW product \in Nat, NEW cents \in Nat, product <= 60 * RateUnit * cents
    PROVE  CeilDiv(product, 60 * RateUnit) <= cents
BY DEF CeilDiv, RateUnit

\* A call that /authorize admitted on a paid rate and that is cut when its time is up
\* costs at most the balance it was admitted with, and the one cent that the float
\* product may round up by; so the balance a single call leaves is not below -1.
THEOREM AuthorizedCallIsPaid ==
    ASSUME NEW cents \in Nat, NEW rate \in Nat \ {0},
           NEW allowed \in MaxSecondsForBalance(cents, rate), NEW billsec \in 1..allowed,
           NEW minimum \in 0..60, NEW increment \in Increments,
           NEW charge \in ChargeForCall(billsec, minimum, increment, rate)
    PROVE  charge <= cents + 1
<1> DEFINE billed == BilledSeconds(billsec, minimum, increment)
<1>1. PICK minutes \in Nat : allowed = 60 * minutes /\ minutes * rate <= cents * RateUnit
    <2>1. /\ (cents * RateUnit) \div rate \in Nat
          /\ ((cents * RateUnit) \div rate) * rate <= cents * RateUnit
        BY DEF RateUnit
    <2> DEFINE q == (cents * RateUnit) \div rate
    <2>2. PICK m \in {q, q - 1} : allowed = IF m < 0 THEN 0 ELSE 60 * m
        BY DEF MaxSecondsForBalance
    <2>3. CASE m < 0
        <3>1. allowed = 60 * 0 /\ 0 * rate <= cents * RateUnit
            BY <2>2, <2>3 DEF RateUnit
        <3> QED BY <3>1
    <2>4. CASE m >= 0
        <3>1. m \in Nat /\ m <= q
            BY <2>1, <2>2, <2>4
        <3>2. m * rate <= q * rate
            <4>1. m = q \/ m = q - 1
                BY <2>2
            <4>2. (q - 1) * rate = q * rate - rate
                BY <2>1
            <4> QED BY <2>1, <4>1, <4>2
        <3>3. m * rate \in Int /\ q * rate \in Int /\ cents * RateUnit \in Int
            BY <3>1, <2>1 DEF RateUnit
        <3> QED BY <2>1, <2>2, <2>4, <3>1, <3>2, <3>3
    <2>5. q \in Int /\ m \in Int
        BY <2>1, <2>2
    <2> QED BY <2>3, <2>4, <2>5
<1>2. minutes # 0 /\ billsec \in Nat
    BY <1>1
<1>3. billed \in Nat /\ billed <= 60 * minutes
    <2>1. increment \in Int /\ minimum \in Int
        BY DEF Increments
    <2>2. billed \in Nat
        BY <1>2, <2>1, BilledCoversCall
    <2>3. billed <= 60 * minutes
        BY <1>1, <1>2, BilledWithinMinutes
    <2> QED BY <2>2, <2>3
<1>4. billed * rate \in Nat /\ billed * rate <= 60 * RateUnit * cents
    <2>1. billed * rate <= (60 * minutes) * rate
        BY <1>3
    <2>2. (60 * minutes) * rate = 60 * (minutes * rate)
        OBVIOUS
    <2>3. minutes * rate \in Nat /\ billed * rate \in Nat
        BY <1>3
    <2> QED BY <1>1, <2>1, <2>2, <2>3 DEF RateUnit
<1>5. CeilDiv(billed * rate, 60 * RateUnit) <= cents
    BY <1>4, CeilWithin
<1>6. CeilDiv(billed * rate, 60 * RateUnit) \in Int
    BY <1>4 DEF CeilDiv, RateUnit
<1>7. charge \in CeilCents(billed, rate)
    BY <1>2 DEF ChargeForCall
<1> HIDE DEF billed
<1>8. charge \in {CeilDiv(billed * rate, 60 * RateUnit), CeilDiv(billed * rate, 60 * RateUnit) + 1}
    BY <1>7 DEF CeilCents
<1> QED BY <1>5, <1>6, <1>8

-----------------------------------------------------------------------------
(* Months *)

\* Consecutive anniversaries are a month apart.
LEMMA OnDayStep ==
    ASSUME NEW month \in Int, NEW after \in Int, after = month + 1, NEW day \in Int
    PROVE  /\ OnDay(month, day) \in Int /\ OnDay(after, day) \in Int
           /\ OnDay(after, day) = OnDay(month, day) + MonthLength
<1>1. MonthLength \in Int
    BY MonthAssumption
<1>2. after * MonthLength = month * MonthLength + MonthLength
    BY <1>1
<1>3. month * MonthLength \in Int /\ after * MonthLength \in Int
    BY <1>1
<1> QED BY <1>1, <1>2, <1>3 DEF OnDay, LastAnniversary

\* An anniversary is in the first 28 days of its month.
LEMMA OnDayInMonth ==
    ASSUME NEW month \in Int, NEW day \in Int
    PROVE  /\ OnDay(month, day) \in Int /\ month * MonthLength \in Int
           /\ month * MonthLength <= OnDay(month, day)
           /\ OnDay(month, day) < month * MonthLength + LastAnniversary
<1>1. month * MonthLength \in Int
    BY MonthAssumption
<1> QED BY <1>1 DEF OnDay, LastAnniversary

\* Later months have later anniversaries.
LEMMA OnDayMonotone ==
    ASSUME NEW k \in Int, NEW m \in Int, k <= m, NEW day \in Int
    PROVE  OnDay(k, day) <= OnDay(m, day)
<1>1. MonthLength \in Nat
    BY MonthAssumption
<1>2. m - k \in Nat /\ (m - k) * MonthLength \in Nat
    BY <1>1
<1>3. (m - k) * MonthLength = m * MonthLength - k * MonthLength
    BY <1>1
<1>4. m * MonthLength \in Int /\ k * MonthLength \in Int
    BY <1>1
<1>5. k * MonthLength <= m * MonthLength
    BY <1>2, <1>3, <1>4
<1> QED BY <1>4, <1>5 DEF OnDay, LastAnniversary

\* The month a day is in begins on it or before, and ends after it.
LEMMA MonthAround ==
    ASSUME NEW time \in Nat
    PROVE  /\ MonthOf(time) \in Nat
           /\ MonthOf(time) * MonthLength \in Nat
           /\ MonthOf(time) * MonthLength <= time
           /\ time < MonthOf(time) * MonthLength + MonthLength
<1>1. MonthLength \in Nat \ {0}
    BY MonthAssumption
<1>2. \A n \in Nat \ {0} : /\ time \div n \in Nat
                           /\ n * (time \div n) <= time
                           /\ time < n * (time \div n) + n
    OBVIOUS
<1>3. MonthOf(time) * MonthLength = MonthLength * MonthOf(time)
    BY <1>1, <1>2 DEF MonthOf
<1> QED BY <1>1, <1>2, <1>3 DEF MonthOf

\* The next anniversary is a day to come: an order is never due again on the day it
\* was charged.
LEMMA NextAnniversaryLater ==
    ASSUME NEW time \in Nat, NEW day \in Int
    PROVE  NextAnniversary(time, day) \in Nat /\ NextAnniversary(time, day) > time
<1> DEFINE candidate == OnDay(MonthOf(time), day)
           begin == MonthOf(time) * MonthLength
<1>1. MonthLength \in Nat \ {0}
    BY MonthAssumption
<1>2. begin \in Nat /\ begin <= time /\ time < begin + MonthLength
    BY MonthAround
<1>3. candidate \in Int /\ begin <= candidate
    BY MonthAround, OnDayInMonth
<1>4. NextAnniversary(time, day) = IF candidate > time THEN candidate ELSE candidate + MonthLength
    BY DEF NextAnniversary
<1> HIDE DEF candidate, begin
<1> QED BY <1>1, <1>2, <1>3, <1>4

\* In months of 28 days or more it is the first of the anniversaries to come: none is
\* skipped, at the end of a month as little as on the anniversary itself.
THEOREM NextAnniversaryIsFirst ==
    ASSUME MonthLength >= LastAnniversary, NEW time \in Nat, NEW day \in Int
    PROVE  /\ NextAnniversary(time, day) > time
           /\ \E month \in Nat : NextAnniversary(time, day) = OnDay(month, day)
           /\ \A month \in Int :
                 OnDay(month, day) > time => NextAnniversary(time, day) <= OnDay(month, day)
<1>1. PICK m \in Nat : m = MonthOf(time)
    BY MonthAround
<1>2. PICK before \in Int, after \in Nat : before = m - 1 /\ after = m + 1
    OBVIOUS
<1>3. OnDay(m, day) \in Int /\ OnDay(before, day) \in Int /\ OnDay(after, day) \in Int
    BY <1>2, OnDayInMonth
<1>4. OnDay(after, day) = OnDay(m, day) + MonthLength
    BY <1>2, OnDayStep
<1>5. OnDay(m, day) = OnDay(before, day) + MonthLength
    <2>1. m = before + 1
        BY <1>2
    <2> QED BY <2>1, OnDayStep
<1>6. NextAnniversary(time, day) = IF OnDay(m, day) > time THEN OnDay(m, day) ELSE OnDay(after, day)
    BY <1>1, <1>4 DEF NextAnniversary
<1>7. \E month \in Nat : NextAnniversary(time, day) = OnDay(month, day)
    BY <1>6
<1>8. OnDay(before, day) <= time
    <2>1. MonthLength \in Nat /\ LastAnniversary \in Nat
        BY MonthAssumption DEF LastAnniversary
    <2>2. m * MonthLength \in Int /\ m * MonthLength <= time
        BY <1>1, MonthAround
    <2>3. OnDay(m, day) < m * MonthLength + LastAnniversary
        BY OnDayInMonth
    <2> QED BY <1>3, <1>5, <2>1, <2>2, <2>3
<1>9. ASSUME NEW month \in Int, OnDay(month, day) > time
      PROVE  NextAnniversary(time, day) <= OnDay(month, day)
    <2>1. OnDay(month, day) \in Int
        BY OnDayInMonth
    <2>2. month > before
        <3> SUFFICES ASSUME month <= before PROVE FALSE
            OBVIOUS
        <3>1. OnDay(month, day) <= OnDay(before, day)
            BY OnDayMonotone
        <3> QED BY <1>3, <1>8, <1>9, <2>1, <3>1
    <2>3. CASE OnDay(m, day) > time
        <3>1. m <= month
            BY <1>2, <2>2
        <3>2. OnDay(m, day) <= OnDay(month, day)
            BY <3>1, OnDayMonotone
        <3> QED BY <1>6, <2>3, <3>2
    <2>4. CASE ~(OnDay(m, day) > time)
        <3>1. month # m
            BY <1>9, <2>4
        <3>2. after <= month
            BY <1>2, <2>2, <3>1
        <3>3. OnDay(after, day) <= OnDay(month, day)
            BY <3>2, OnDayMonotone
        <3> QED BY <1>6, <2>4, <3>3
    <2> QED BY <2>3, <2>4
<1> QED BY <1>7, <1>9, NextAnniversaryLater

\* A month's fee is a whole number of cents.
LEMMA FeeIsNat ==
    ASSUME NEW price \in [nrc : Nat, mrc : Nat, chan : Nat], NEW n \in Nat
    PROVE  FeeAt(price, n) \in Nat
<1>1. \A a, b \in Nat : a * b \in Nat
    OBVIOUS
<1>2. (IF n > IncludedChannels THEN n - IncludedChannels ELSE 0) \in Nat
    BY DEF IncludedChannels
<1> QED BY <1>1, <1>2 DEF FeeAt

\* The order of the naturals, as a set of pairs.
LEMMA NatOrder ==
    ASSUME NEW R, R = {ss \in Nat \X Nat : ss[1] < ss[2]}
    PROVE  IsWellFoundedOn(R, Nat)
<1>1. OpToRel(<, Nat) = {ss \in Nat \X Nat : ss[1] < ss[2]}
    BY DEF OpToRel
<1> QED BY <1>1, NatLessThanWellFounded

\* A set of naturals has a least one.
LEMMA Least ==
    ASSUME NEW T, T \subseteq Nat, T # {}
    PROVE  \E x \in T : \A y \in T : x <= y
<1>1. PICK R : R = {ss \in Nat \X Nat : ss[1] < ss[2]}
    OBVIOUS
<1>2. IsWellFoundedOn(R, Nat)
    BY <1>1, NatOrder
<1>3. \A x, y \in Nat : x < y => <<x, y>> \in R
    BY <1>1
<1>4. PICK x \in T : \A y \in T : ~ (<<y, x>> \in R)
    BY <1>2, WFMin
<1>5. \A y \in T : ~(y < x)
    BY <1>3, <1>4
<1> QED BY <1>5

\* Of some rungs of the ladder one is the highest, and that is where it stops.
LEMMA HighestRung ==
    ASSUME NEW channels \in Nat, NEW rungs, rungs \subseteq 0..channels, rungs # {}
    PROVE  LadderStop(rungs) \in rungs /\ \A n \in rungs : n <= LadderStop(rungs)
<1> DEFINE depths == {channels - n : n \in rungs}
<1>1. depths \subseteq Nat /\ depths # {}
    <2>1. \A n \in rungs : channels - n \in Nat
        OBVIOUS
    <2>2. depths \subseteq Nat
        BY <2>1
    <2>3. PICK n \in rungs : TRUE
        OBVIOUS
    <2>4. channels - n \in depths
        BY <2>3
    <2> QED BY <2>2, <2>4
<1>2. PICK x \in depths : \A y \in depths : x <= y
    BY <1>1, Least
<1>3. PICK top \in rungs : x = channels - top
    OBVIOUS
<1>4. \A n \in rungs : channels - top <= channels - n
    BY <1>2, <1>3
<1>5. \A n \in rungs : n <= top
    BY <1>4
<1> QED BY <1>5 DEF LadderStop

\* The month is charged for as many of the order's channels as the balance pays for, and
\* the balance does pay for them: didbill neither overdraws nor cuts too deep.
THEOREM LadderPays ==
    ASSUME NEW price \in [nrc : Nat, mrc : Nat, chan : Nat], NEW channels \in Nat, NEW cents \in Int,
           Affordable(cents, price, channels) # {}
    PROVE  LET n == LadderStop(Affordable(cents, price, channels)) IN
           /\ n \in 0..channels
           /\ FeeAt(price, n) <= cents
           /\ \A m \in 0..channels : FeeAt(price, m) <= cents => m <= n
<1> DEFINE rungs == Affordable(cents, price, channels)
<1>1. rungs \subseteq 0..channels /\ \A n \in rungs : FeeAt(price, n) <= cents
    BY DEF Affordable
<1>2. \A m \in 0..channels : FeeAt(price, m) <= cents => m \in rungs
    BY DEF Affordable
<1> HIDE DEF rungs
<1>3. rungs # {}
    BY DEF rungs
<1>4. LadderStop(rungs) \in rungs /\ \A n \in rungs : n <= LadderStop(rungs)
    BY <1>1, <1>3, HighestRung
<1>5. /\ LadderStop(rungs) \in 0..channels
      /\ FeeAt(price, LadderStop(rungs)) <= cents
      /\ \A m \in 0..channels : FeeAt(price, m) <= cents => m <= LadderStop(rungs)
    BY <1>1, <1>2, <1>4
<1> QED BY <1>5 DEF rungs
===============================================================================
