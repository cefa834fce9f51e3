----------------------------- MODULE BillingProofs -----------------------------
(* What holds of didbill beside everything Rentals lets happen meanwhile, for any number *)
(* of orders, runs, failures and months.                                               *)
EXTENDS Billing, RentalsProofs

-----------------------------------------------------------------------------
(* The invariant *)

\* The next charge of an order falls on its anniversary, and there is a month between
\* its first charge and the next for every charge there was.
OnSchedule(o) ==
    /\ \E month \in Int : o.next = OnDay(month, o.day)
    /\ o.first + o.bills * MonthLength <= o.next

\* The last of its charges was due by then.
ChargesDue(o, time) == o.bills = 0 \/ o.first + o.bills * MonthLength <= time + MonthLength

Scheduled ==
    \A i \in DOMAIN orders : ~orders[i].moved => OnSchedule(orders[i]) /\ ChargesDue(orders[i], now)

\* Without an overlap one process runs, and the date it read is still the order's.
Alone ==
    /\ \A r, s \in Runners : run[r].on /\ run[s].on => r = s
    /\ \A r \in Runners : run[r].at <= now
    /\ \A r \in Runners : \A x \in run[r].due :
          x.next = orders[x.order].next /\ x.next <= run[r].at

BillingInv ==
    /\ RentalsInv
    /\ BillingTypeOK
    /\ ~overlapped => Scheduled /\ Alone

-----------------------------------------------------------------------------
(* Dates *)

\* The next anniversary is on the day.
LEMMA NextIsOnDay ==
    ASSUME NEW time \in Nat, NEW day \in Int
    PROVE  \E month \in Int : NextAnniversary(time, day) = OnDay(month, day)
<1>1. PICK m \in Nat : m = MonthOf(time)
    BY MonthAround
<1>2. PICK after \in Int : after = m + 1
    OBVIOUS
<1>3. OnDay(after, day) = OnDay(m, day) + MonthLength
    BY <1>1, <1>2, OnDayStep
<1> QED BY <1>1, <1>2, <1>3 DEF NextAnniversary

\* Between an anniversary that has come and the next one after that lies a month at least.
LEMMA MonthBetween ==
    ASSUME NEW month \in Int, NEW day \in Int, NEW at \in Nat, OnDay(month, day) <= at
    PROVE  OnDay(month, day) + MonthLength <= NextAnniversary(at, day)
<1>1. NextAnniversary(at, day) \in Nat /\ NextAnniversary(at, day) > at
    BY NextAnniversaryLater
<1>2. PICK m \in Int : NextAnniversary(at, day) = OnDay(m, day)
    BY NextIsOnDay
<1>3. OnDay(month, day) \in Int /\ OnDay(m, day) \in Int
    BY OnDayInMonth
<1>4. ~(m <= month)
    <2>1. ASSUME m <= month PROVE OnDay(m, day) <= OnDay(month, day)
        BY <2>1, OnDayMonotone
    <2> QED BY <1>1, <1>2, <1>3, <2>1
<1>5. PICK after \in Int : after = month + 1
    OBVIOUS
<1>6. after <= m
    BY <1>4, <1>5
<1>7. OnDay(after, day) <= OnDay(m, day)
    BY <1>6, OnDayMonotone
<1>8. OnDay(after, day) = OnDay(month, day) + MonthLength
    BY <1>5, OnDayStep
<1> QED BY <1>2, <1>7, <1>8

\* A charge more is a month more.
LEMMA OneMonthMore ==
    ASSUME NEW bills \in Nat
    PROVE  /\ bills * MonthLength \in Nat
           /\ (bills + 1) * MonthLength = bills * MonthLength + MonthLength
<1>1. MonthLength \in Nat
    BY MonthAssumption
<1>2. \A m \in Nat : bills * m \in Nat /\ (bills + 1) * m = bills * m + m
    OBVIOUS
<1> QED BY <1>1, <1>2

\* Months that begin before now are counted by Anniversaries.
LEMMA CountedMonths ==
    ASSUME NEW o, o.bills \in Nat, o.first \in Nat, now \in Nat, ChargesDue(o, now)
    PROVE  o.bills <= Anniversaries(o)
<1>1. MonthLength \in Nat \ {0}
    BY MonthAssumption
<1>2. CASE o.bills = 0
    <2>1. \A a \in Nat, m \in Nat \ {0} : a \div m \in Nat
        OBVIOUS
    <2>2. CASE now < o.first
        BY <1>2, <2>2 DEF Anniversaries
    <2>3. CASE ~(now < o.first)
        <3>1. now - o.first \in Nat
            BY <2>3
        <3>2. (now - o.first) \div MonthLength \in Nat
            BY <1>1, <2>1, <3>1
        <3> QED BY <1>2, <2>3, <3>2 DEF Anniversaries
    <2> QED BY <2>2, <2>3
<1>3. CASE o.bills # 0
    <2>1. PICK b \in Nat : o.bills = b + 1
        <3>1. o.bills - 1 \in Nat /\ o.bills = (o.bills - 1) + 1
            BY <1>3
        <3> QED BY <3>1
    <2>2. b * MonthLength \in Nat /\ o.bills * MonthLength = b * MonthLength + MonthLength
        BY <2>1, OneMonthMore
    <2>3. o.first + b * MonthLength <= now
        BY <1>1, <1>3, <2>2 DEF ChargesDue
    <2>4. now - o.first \in Nat /\ b * MonthLength <= now - o.first
        BY <2>2, <2>3
    <2>5. \A a, k \in Nat, m \in Nat \ {0} : k * m <= a => k <= a \div m
        <3> SUFFICES ASSUME NEW a \in Nat, NEW k \in Nat, NEW m \in Nat \ {0}, k * m <= a
                     PROVE  k <= a \div m
            OBVIOUS
        <3>1. a \div m \in Nat /\ a < m * (a \div m) + m
            OBVIOUS
        <3> DEFINE q == a \div m
        <3>2. k * m < m * q + m
            BY <3>1
        <3> HIDE DEF q
        <3>3. q \in Nat
            BY <3>1 DEF q
        <3>4. ASSUME q + 1 <= k PROVE FALSE
            <4>1. PICK e \in Nat : k = q + 1 + e
                <5>1. k - (q + 1) \in Nat
                    BY <3>3, <3>4
                <5> QED BY <3>3, <5>1
            <4>2. k * m = m * q + m + e * m /\ e * m \in Nat
                BY <3>3, <4>1
            <4> QED BY <3>2, <3>3, <4>2
        <3> QED BY <3>3, <3>4 DEF q
    <2>6. b <= (now - o.first) \div MonthLength
        BY <1>1, <2>4, <2>5
    <2>7. (now - o.first) \div MonthLength \in Int
        BY <1>1, <2>4
    <2>8. ~(now < o.first)
        BY <2>4
    <2> QED BY <2>1, <2>6, <2>7, <2>8 DEF Anniversaries
<1> QED BY <1>2, <1>3

-----------------------------------------------------------------------------
(* The handlers beside didbill *)

\* They write no order's dates, and a change of its day shows.
DatesKept(i) ==
    /\ i \in DOMAIN orders'
    /\ orders'[i].next = orders[i].next /\ orders'[i].first = orders[i].first
    /\ orders'[i].bills = orders[i].bills
    /\ ~orders'[i].moved => ~orders[i].moved /\ orders'[i].day = orders[i].day

\* But for the first, in the row they insert.
DatesNew(n) ==
    /\ orders'[n].bills = 0 /\ orders'[n].first = orders'[n].next
    /\ \E month \in Int : orders'[n].next = OnDay(month, orders'[n].day)

\* Dates stand still for every row a handler replaces by one with the same dates.
LEMMA OneRowDates ==
    ASSUME orders \in Seq(Orders), NEW i \in DOMAIN orders, NEW row,
           orders' = [orders EXCEPT ![i] = row],
           row.next = orders[i].next, row.first = orders[i].first, row.bills = orders[i].bills,
           ~row.moved => ~orders[i].moved /\ row.day = orders[i].day
    PROVE  /\ \A k \in DOMAIN orders : DatesKept(k)
           /\ DOMAIN orders' = DOMAIN orders
BY DEF DatesKept

LEMMA HandlersDates ==
    ASSUME RentalsInv, RentalsNext
    PROVE  /\ \A i \in DOMAIN orders : DatesKept(i)
           /\ \A n \in DOMAIN orders' \ DOMAIN orders : DatesNew(n)
<1>0. orders \in Seq(Orders) /\ \A i \in DOMAIN orders : orders[i] \in Orders
    BY DEF RentalsInv, RentalsTypeOK
<1>1. ASSUME NEW u \in Users, Block(u) \/ Unblock(u)
      PROVE  /\ \A i \in DOMAIN orders : DatesKept(i)
             /\ DOMAIN orders' = DOMAIN orders
    <2>1. DOMAIN orders' = DOMAIN orders
        BY <1>1 DEF Block, Unblock
    <2> SUFFICES ASSUME NEW i \in DOMAIN orders PROVE DatesKept(i)
        BY <2>1
    <2>2. orders[i] \in Orders
        BY <1>0
    <2>3. \/ orders'[i] = orders[i]
          \/ \E s \in {"quarantined", "active"} : orders'[i] = [orders[i] EXCEPT !.status = s]
        BY <1>1 DEF Block, Unblock
    <2> QED BY <2>1, <2>2, <2>3 DEF DatesKept, Orders
<1>2. ASSUME NEW b \in Bundles, Approve(b)
      PROVE  /\ \A i \in DOMAIN orders : DatesKept(i)
             /\ DOMAIN orders' = DOMAIN orders
    <2>1. DOMAIN orders' = DOMAIN orders
        BY <1>2 DEF Approve
    <2> SUFFICES ASSUME NEW i \in DOMAIN orders PROVE DatesKept(i)
        BY <2>1
    <2>2. orders[i] \in Orders
        BY <1>0
    <2>3. orders'[i] = orders[i] \/ orders'[i] = [orders[i] EXCEPT !.status = "active"]
        BY <1>2 DEF Approve
    <2> QED BY <2>1, <2>2, <2>3 DEF DatesKept, Orders
<1>3. ASSUME NEW c \in Clerks, EditWrite(c)
      PROVE  /\ \A i \in DOMAIN orders : DatesKept(i)
             /\ DOMAIN orders' = DOMAIN orders
    <2> DEFINE e == job[c].order
               row == Edited(orders[e], job[c])
    <2>1. job[c] \in Jobs /\ job[c].kind = "edit" /\ e \in DOMAIN orders
        BY <1>3 DEF EditWrite, RentalsInv, RentalsTypeOK, EditsAgree
    <2>2. orders[e] \in Orders
        BY <1>0, <2>1
    <2>3. /\ row.next = orders[e].next /\ row.first = orders[e].first /\ row.bills = orders[e].bills
          /\ ~row.moved => ~orders[e].moved /\ row.day = orders[e].day
        BY <2>2 DEF Edited, Orders
    <2>4. orders' = [orders EXCEPT ![e] = row]
        BY <1>3 DEF EditWrite
    <2> HIDE DEF row, e
    <2> QED BY <1>0, <2>1, <2>3, <2>4, OneRowDates
<1>4. ASSUME NEW i \in DOMAIN orders, Cancel(i)
      PROVE  /\ \A k \in DOMAIN orders : DatesKept(k)
             /\ DOMAIN orders' = DOMAIN orders
    <2> DEFINE row == [orders[i] EXCEPT !.status = "cancelled"]
    <2>1. orders[i] \in Orders /\ orders' = [orders EXCEPT ![i] = row]
        BY <1>0, <1>4 DEF Cancel
    <2>2. /\ row.next = orders[i].next /\ row.first = orders[i].first /\ row.bills = orders[i].bills
          /\ row.moved = orders[i].moved /\ row.day = orders[i].day
        BY <2>1 DEF Orders
    <2> HIDE DEF row
    <2> QED BY <1>0, <2>1, <2>2, OneRowDates
<1>5. ASSUME NEW i \in DOMAIN orders, NEW d \in Dids, Swap(i, d)
      PROVE  /\ \A k \in DOMAIN orders : DatesKept(k)
             /\ DOMAIN orders' = DOMAIN orders
    <2> DEFINE row == [orders[i] EXCEPT !.did = d]
    <2>1. orders[i] \in Orders /\ orders' = [orders EXCEPT ![i] = row]
        BY <1>0, <1>5 DEF Swap
    <2>2. /\ row.next = orders[i].next /\ row.first = orders[i].first /\ row.bills = orders[i].bills
          /\ row.moved = orders[i].moved /\ row.day = orders[i].day
        BY <2>1 DEF Orders
    <2> HIDE DEF row
    <2> QED BY <1>0, <2>1, <2>2, OneRowDates
<1>6. ASSUME NEW c \in Clerks, CreateFinish(c)
      PROVE  /\ \A i \in DOMAIN orders : DatesKept(i)
             /\ \A n \in DOMAIN orders' \ DOMAIN orders : DatesNew(n)
    <2> DEFINE row == NewOrder(job[c])
    <2>1. job[c] \in Jobs /\ job[c].kind = "create" /\ orders' = Append(orders, row)
        BY <1>6 DEF CreateFinish, RentalsInv, RentalsTypeOK
    <2>2. row \in Orders
        BY <2>1, NewOrderType DEF RentalsInv
    <2>3. row.bills = 0 /\ row.first = row.next /\ \E month \in Int : row.next = OnDay(month, row.day)
        <3>1. job[c].day \in Days /\ Days \subseteq 1..LastAnniversary /\ now \in Nat
            BY <2>1, JobFields, RentalsAssumption DEF RentalsInv, RentalsTypeOK, Times
        <3>2. \A d \in 1..LastAnniversary : d \in Int
            BY DEF LastAnniversary
        <3>3. job[c].day \in Int
            BY <3>1, <3>2
        <3>4. \E month \in Int : NextAnniversary(now, job[c].day) = OnDay(month, job[c].day)
            BY <3>1, <3>3, NextIsOnDay
        <3> QED BY <3>4 DEF NewOrder
    <2> HIDE DEF row
    <2>4. /\ DOMAIN orders' = DOMAIN orders \cup {Len(orders) + 1}
          /\ \A k \in DOMAIN orders : orders'[k] = orders[k]
          /\ orders'[Len(orders) + 1] = row
        BY <1>0, <2>1, <2>2, NewRowType
    <2> QED BY <2>3, <2>4 DEF DatesKept, DatesNew
<1>7. ASSUME UNCHANGED orders
      PROVE  /\ \A i \in DOMAIN orders : DatesKept(i)
             /\ DOMAIN orders' = DOMAIN orders
    BY <1>7 DEF DatesKept
<1>8. \/ \E u \in Users : Block(u) \/ Unblock(u)
      \/ \E b \in Bundles : Approve(b)
      \/ \E c \in Clerks : CreateFinish(c) \/ EditWrite(c)
      \/ \E i \in DOMAIN orders : Cancel(i) \/ \E d \in Dids : Swap(i, d)
      \/ UNCHANGED orders
    BY Movers DEF RetireWrite, Reserve, Release
<1> QED BY <1>1, <1>2, <1>3, <1>4, <1>5, <1>6, <1>7, <1>8

\* Nor do they move the clock.
LEMMA HandlersClock ==
    ASSUME RentalsNext
    PROVE  now' = now
<1>1. ASSUME UserNext \/ BundleNext PROVE now' = now
    BY <1>1 DEF UserNext, UserCreate, UserSave, UserDelete, Topup, TopupByReseller, CallCharged, Block,
                Unblock, BundleNext, BundleCreate, BundleCreateByReseller, Approve, Reject
<1>2. ASSUME DidNext \/ CardNext PROVE now' = now
    BY <1>2 DEF DidNext, RetireOpen, RetireWrite, Reserve, Release, CardNext, RateCardCreate,
                RateCardCreateBulk, AddCard, RateCardExpire, PriceOpen, PriceWrite
<1> QED BY <1>1, <1>2, OrderFrame DEF RentalsNext

LEMMA HandlersStep ==
    ASSUME BillingInv, RentalsNext, UNCHANGED <<run, failures, overlapped>>
    PROVE  BillingInv'
<1>0. RentalsInv /\ RentalsInv' /\ now' = now
    BY RentalsStepInv, HandlersClock DEF BillingInv
<1>1. DOMAIN orders \subseteq DOMAIN orders'
    BY <1>0, HandlersDates DEF DatesKept
<1>2. BillingTypeOK'
    BY <1>0, <1>1 DEF BillingInv, BillingTypeOK, RentalsInv
<1>3. ASSUME ~overlapped PROVE Scheduled' /\ Alone'
    <2>1. Scheduled /\ Alone
        BY <1>3 DEF BillingInv
    <2>2. ASSUME NEW i \in DOMAIN orders, ~orders'[i].moved
          PROVE  OnSchedule(orders'[i]) /\ ChargesDue(orders'[i], now')
        <3>1. /\ orders'[i].next = orders[i].next /\ orders'[i].first = orders[i].first
              /\ orders'[i].bills = orders[i].bills /\ orders'[i].day = orders[i].day /\ ~orders[i].moved
            BY <2>2, HandlersDates, <1>0 DEF DatesKept
        <3>2. OnSchedule(orders[i]) /\ ChargesDue(orders[i], now)
            BY <2>1, <3>1 DEF Scheduled
        <3> QED BY <1>0, <3>1, <3>2 DEF OnSchedule, ChargesDue
    <2>3. ASSUME NEW n \in DOMAIN orders' \ DOMAIN orders
          PROVE  OnSchedule(orders'[n]) /\ ChargesDue(orders'[n], now')
        <3>1. DatesNew(n) /\ orders'[n] \in Orders
            BY <1>0, <2>3, HandlersDates DEF RentalsInv, RentalsTypeOK
        <3>2. orders'[n].first \in Int /\ orders'[n].bills * MonthLength = 0
            BY <3>1, MonthAssumption DEF DatesNew, Orders, Times
        <3> QED BY <3>1, <3>2 DEF DatesNew, OnSchedule, ChargesDue
    <2>4. Scheduled'
        BY <2>2, <2>3 DEF Scheduled
    <2>5. ASSUME NEW r \in Runners, NEW x \in run'[r].due
          PROVE  x.next = orders'[x.order].next /\ x.next <= run'[r].at
        <3>1. x \in run[r].due /\ x.order \in DOMAIN orders
            BY <2>5 DEF BillingInv, BillingTypeOK
        <3>2. orders'[x.order].next = orders[x.order].next
            BY <1>0, <3>1, HandlersDates DEF DatesKept
        <3> QED BY <2>1, <3>1, <3>2 DEF Alone
    <2>6. Alone'
        BY <1>0, <2>1, <2>5 DEF Alone
    <2> QED BY <2>4, <2>6
<1> QED BY <1>0, <1>2, <1>3 DEF BillingInv

-----------------------------------------------------------------------------
(* One order of a run *)

\* A charge or a suspension changes one row, and the balance of its user, whom no create
\* has locked.
LEMMA BilledKeeps ==
    ASSUME RentalsInv, NEW i \in DOMAIN orders, orders[i].status = "active",
           NEW row \in Orders,
           row.did = orders[i].did, row.user = orders[i].user, row.card = orders[i].card,
           row.bundle = orders[i].bundle, row.status \in {"active", "suspended"},
           orders' = [orders EXCEPT ![i] = row],
           balance' \in [Users -> Int], ledger' \in [Users -> Lines], LedgerBalances',
           \A w \in Users : w # orders[i].user => balance'[w] = balance[w],
           ~Locked(orders[i].user),
           UNCHANGED <<userStatus, didStatus, bundles, cards, job, now, postings, vetted,
                       overridden, unguarded>>
    PROVE  RentalsInv'
<1>0. orders \in Seq(Orders) /\ OneActivePerDid(orders) /\ job \in [Clerks -> Jobs]
    BY DEF RentalsInv, RentalsTypeOK
<1>1. /\ orders' \in Seq(Orders) /\ Len(orders') = Len(orders) /\ DOMAIN orders' = DOMAIN orders
      /\ \A k \in DOMAIN orders \ {i} : orders'[k] = orders[k]
      /\ orders'[i] = row
    BY <1>0, RowType
<1>2. OneActivePerDid(orders')
    BY <1>0, <1>1 DEF OneActivePerDid
<1>3. \A k \in DOMAIN orders' : orders'[k].card \in DOMAIN cards'
    BY <1>1 DEF RentalsInv, RentalsTypeOK
<1>4. RentalsTypeOK'
    BY <1>1, <1>2, <1>3 DEF RentalsInv, RentalsTypeOK, LiveCards
<1>5. DidAgrees'
    <2>1. \A d \in Dids : HeldOn(d)' = HeldOn(d)
        BY <1>1 DEF HeldOn, Held, Editable
    <2> QED BY <2>1 DEF RentalsInv, DidAgrees
<1>6. KycGate' /\ QuarantineFollowsBlock'
    BY <1>1 DEF RentalsInv, KycGate, QuarantineFollowsBlock
<1>7. ApprovedVetted' /\ OwnersExist'
    BY <1>1 DEF RentalsInv, ApprovedVetted, OwnersExist, Exists
<1>8. OneCreate' /\ EditsAgree'
    BY <1>1 DEF RentalsInv, OneCreate, EditsAgree
<1>9. CreatesAgree'
    <2> SUFFICES ASSUME NEW c \in Clerks, job[c].kind = "create" PROVE CreateAgrees(job[c])'
        BY DEF CreatesAgree, CreateAgrees
    <2>1. job[c] \in Jobs
        BY <1>0
    <2>2. job[c].user \in Users /\ job[c].user # orders[i].user
        BY <2>1, JobFields DEF Locked
    <2>3. CreateAgrees(job[c])
        BY DEF RentalsInv, CreatesAgree
    <2> QED BY <2>2, <2>3 DEF CreateAgrees, Exists
<1> QED BY <1>4, <1>5, <1>6, <1>7, <1>8, <1>9 DEF RentalsInv

\* A month is charged from what the balance holds, on a later date than it was due.
LEMMA ChargeRow ==
    ASSUME RentalsInv, NEW i \in DOMAIN orders, NEW at \in Nat, ChargeMonth(i, at), NEW row, row = orders'[i]
    PROVE  /\ orders[i] \in Orders /\ row \in Orders
           /\ orders' = [orders EXCEPT ![i] = row]
           /\ row.did = orders[i].did /\ row.user = orders[i].user /\ row.card = orders[i].card
           /\ row.bundle = orders[i].bundle /\ row.status = orders[i].status
           /\ row.first = orders[i].first /\ row.day = orders[i].day /\ row.moved = orders[i].moved
           /\ row.bills = orders[i].bills + 1 /\ row.next = NextAnniversary(at, orders[i].day)
           /\ balance' \in [Users -> Int] /\ ledger' \in [Users -> Lines] /\ LedgerBalances'
           /\ \A w \in Users : w # orders[i].user => balance'[w] = balance[w]
           /\ balance'[orders[i].user] >= 0
<1> DEFINE o == orders[i]
           price == cards[o.card].price
           n == LadderStop(Affordable(balance[o.user], price, o.channels))
           fee == FeeAt(price, n)
           left == balance[o.user] - fee
<1>1. /\ o \in Orders /\ orders \in Seq(Orders) /\ cards[o.card] \in Cards
      /\ balance \in [Users -> Int] /\ ledger \in [Users -> Lines] /\ LedgerBalances
    BY DEF RentalsInv, RentalsTypeOK
<1>2. /\ o.user \in Users /\ o.channels \in Nat /\ o.bills \in Nat /\ o.day \in Days
      /\ price \in [nrc : Nat, mrc : Nat, chan : Nat]
    BY <1>1 DEF Orders, Cards
<1>3. balance[o.user] \in Int
    BY <1>1, <1>2
<1>4. Affordable(balance[o.user], price, o.channels) # {}
    BY DEF ChargeMonth
<1>5. n \in 0..o.channels /\ fee <= balance[o.user]
    BY <1>2, <1>3, <1>4, LadderPays
<1>6. n \in Nat /\ fee \in Nat
    BY <1>2, <1>5, FeeIsNat
<1>7. /\ balance' = [balance EXCEPT ![o.user] = left]
      /\ ledger' = IF fee = 0 THEN ledger
                   ELSE [ledger EXCEPT ![o.user] = [sum |-> @.sum - fee, after |-> left]]
      /\ orders' = [orders EXCEPT ![i].channels = n, ![i].bills = @ + 1,
                                  ![i].next = NextAnniversary(at, o.day)]
    BY DEF ChargeMonth
<1>8. NextAnniversary(at, o.day) \in Times
    <2>1. \A d \in 1..LastAnniversary : d \in Int
        BY DEF LastAnniversary
    <2>2. o.day \in Int
        BY <1>2, <2>1, RentalsAssumption
    <2> QED BY <2>2, NextAnniversaryLater DEF Times
<1> HIDE DEF n, fee
<1>9. left \in Int /\ left >= 0
    BY <1>3, <1>5, <1>6
<1>10. /\ row \in Orders /\ orders' = [orders EXCEPT ![i] = row]
       /\ row.did = o.did /\ row.user = o.user /\ row.card = o.card
       /\ row.bundle = o.bundle /\ row.status = o.status
       /\ row.first = o.first /\ row.day = o.day /\ row.moved = o.moved
       /\ row.bills = o.bills + 1 /\ row.next = NextAnniversary(at, o.day)
    <2> DEFINE new == [o EXCEPT !.channels = n, !.bills = @ + 1, !.next = NextAnniversary(at, o.day)]
    <2>1. orders' = [orders EXCEPT ![i] = new]
        BY <1>1, <1>7
    <2>2. row = new
        BY <1>1, <2>1
    <2>3. new \in Orders
        <3>1. PICK next \in Times, bills \in Nat : next = NextAnniversary(at, o.day) /\ bills = o.bills + 1
            BY <1>2, <1>8
        <3>2. new = [o EXCEPT !.channels = n, !.bills = bills, !.next = next]
            BY <1>1, <3>1 DEF Orders
        <3> HIDE DEF new
        <3> QED BY <1>1, <1>6, <3>1, <3>2 DEF Orders
    <2>4. /\ new.did = o.did /\ new.user = o.user /\ new.card = o.card
          /\ new.bundle = o.bundle /\ new.status = o.status
          /\ new.first = o.first /\ new.day = o.day /\ new.moved = o.moved
          /\ new.bills = o.bills + 1 /\ new.next = NextAnniversary(at, o.day)
        BY <1>1 DEF Orders
    <2> HIDE DEF new
    <2> QED BY <2>1, <2>2, <2>3, <2>4
<1>11. balance' \in [Users -> Int] /\ \A w \in Users : w # o.user => balance'[w] = balance[w]
    BY <1>1, <1>7, <1>9
<1>12. balance'[o.user] = left
    BY <1>1, <1>2, <1>7
<1> HIDE DEF left
<1>13. ledger' \in [Users -> Lines] /\ LedgerBalances'
    <2>1. CASE fee = 0
        <3>1. left = balance[o.user] /\ ledger' = ledger
            BY <1>3, <1>7, <2>1 DEF left
        <3> QED BY <1>1, <1>11, <1>12, <3>1 DEF LedgerBalances
    <2>2. CASE fee # 0
        <3>1. ledger[o.user].sum \in Int /\ ledger[o.user].sum = balance[o.user]
            BY <1>1, <1>2 DEF Lines, LedgerBalances
        <3>2. ledger' = [ledger EXCEPT ![o.user] = [sum |-> left, after |-> left]]
            BY <1>7, <2>2, <3>1 DEF left
        <3>3. [sum |-> left, after |-> left] \in Lines
            BY <1>9 DEF Lines
        <3> QED BY <1>1, <1>2, <1>11, <1>12, <3>2, <3>3 DEF LedgerBalances
    <2> QED BY <2>1, <2>2
<1> QED BY <1>1, <1>9, <1>10, <1>11, <1>12, <1>13

\* A suspension changes nothing but the status.
LEMMA SuspendRow ==
    ASSUME RentalsInv, NEW i \in DOMAIN orders, Suspend(i), NEW row, row = orders'[i]
    PROVE  /\ orders[i] \in Orders /\ row \in Orders
           /\ orders' = [orders EXCEPT ![i] = row]
           /\ row = [orders[i] EXCEPT !.status = "suspended"]
<1>1. orders[i] \in Orders /\ orders \in Seq(Orders)
    BY DEF RentalsInv, RentalsTypeOK
<1>2. orders' = [orders EXCEPT ![i] = [orders[i] EXCEPT !.status = "suspended"]]
    BY DEF Suspend
<1> QED BY <1>1, <1>2 DEF Orders, OrderStatus, Held

\* What processOne leaves of the list of its run.
LEMMA ListShrinks ==
    ASSUME BillingTypeOK, NEW r \in Runners, NEW x \in run[r].due,
           run' = [run EXCEPT ![r].due = @ \ {x}]
    PROVE  /\ run' \in [Runners -> [on : BOOLEAN, at : Times, due : SUBSET Due]]
           /\ \A s \in Runners : /\ run'[s].on = run[s].on /\ run'[s].at = run[s].at
                                 /\ run'[s].due \subseteq run[s].due
           /\ x \notin run'[r].due
<1>1. run[r] \in [on : BOOLEAN, at : Times, due : SUBSET Due] /\ run[r].due \ {x} \in SUBSET Due
    BY DEF BillingTypeOK
<1>2. [run[r] EXCEPT !.due = @ \ {x}] \in [on : BOOLEAN, at : Times, due : SUBSET Due]
    BY <1>1
<1> QED BY <1>1, <1>2 DEF BillingTypeOK

\* The rows and the history are in order after an order of the list is done, if they were.
LEMMA ProcessStep ==
    ASSUME BillingInv, NEW r \in Runners, ProcessOne(r)
    PROVE  BillingInv'
<1>1. PICK x \in Earliest(run[r].due) :
          /\ ~Locked(orders[x.order].user)
          /\ IF StillCharged(x.order)
             THEN ChargeMonth(x.order, run[r].at) \/ Suspend(x.order)
             ELSE UNCHANGED <<orders, balance, ledger>>
          /\ run' = [run EXCEPT ![r].due = @ \ {x}]
          /\ UNCHANGED <<userStatus, didStatus, bundles, cards, job, now, postings, vetted,
                         overridden, unguarded, failures, overlapped>>
    BY DEF ProcessOne
<1> DEFINE i == x.order
           at == run[r].at
<1>2. /\ x \in run[r].due /\ i \in DOMAIN orders /\ run[r].on /\ at \in Nat /\ x \in Due
      /\ RentalsInv /\ orders[i] \in Orders /\ orders \in Seq(Orders)
      /\ balance \in [Users -> Int] /\ ledger \in [Users -> Lines] /\ LedgerBalances
    BY DEF Earliest, BillingInv, BillingTypeOK, RentalsInv, RentalsTypeOK, Times
<1>3. /\ run' \in [Runners -> [on : BOOLEAN, at : Times, due : SUBSET Due]]
      /\ \A s \in Runners : /\ run'[s].on = run[s].on /\ run'[s].at = run[s].at
                            /\ run'[s].due \subseteq run[s].due
      /\ x \notin run'[r].due
    BY <1>1, <1>2, ListShrinks DEF BillingInv
<1>4. ASSUME UNCHANGED <<orders, balance, ledger>>
      PROVE  BillingInv'
    <2>1. UNCHANGED rentVars
        BY <1>1, <1>4 DEF rentVars
    <2>2. RentalsInv'
        BY <1>2, <2>1, RentalsStutterInv
    <2>3. BillingTypeOK'
        BY <1>1, <1>3, <1>4, <2>2 DEF BillingInv, BillingTypeOK, RentalsInv
    <2>4. ASSUME ~overlapped PROVE Scheduled' /\ Alone'
        <3>1. Scheduled /\ Alone
            BY <2>4 DEF BillingInv
        <3>2. Scheduled'
            BY <1>1, <1>4, <3>1 DEF Scheduled, OnSchedule, ChargesDue
        <3>3. Alone'
            BY <1>1, <1>3, <1>4, <3>1 DEF Alone
        <3> QED BY <3>2, <3>3
    <2> QED BY <1>1, <2>2, <2>3, <2>4 DEF BillingInv
\* From here on the order is active, and its row is replaced by another.
<1>5. ASSUME StillCharged(i), NEW row, row = orders'[i], row \in Orders, orders' = [orders EXCEPT ![i] = row],
             RentalsInv',
             ~overlapped /\ ~row.moved => OnSchedule(row) /\ ChargesDue(row, now)
      PROVE  BillingInv'
    <2>1. DOMAIN orders' = DOMAIN orders /\ \A k \in DOMAIN orders \ {i} : orders'[k] = orders[k]
        BY <1>5
    <2>2. BillingTypeOK'
        BY <1>1, <1>3, <1>5, <2>1 DEF BillingInv, BillingTypeOK, RentalsInv
    <2>3. ASSUME ~overlapped PROVE Scheduled' /\ Alone'
        <3>1. Scheduled /\ Alone
            BY <2>3 DEF BillingInv
        <3>2. Scheduled'
            BY <1>1, <1>5, <2>1, <2>3, <3>1 DEF Scheduled, ChargesDue
        <3>3. ASSUME NEW s \in Runners, NEW y \in run'[s].due
              PROVE  y.next = orders'[y.order].next /\ y.next <= run'[s].at
            <4>1. y \in run[s].due /\ run[s].on /\ y.order \in DOMAIN orders /\ y \in Due
                BY <1>3, <3>3 DEF BillingInv, BillingTypeOK
            <4>2. s = r
                BY <1>2, <3>1, <4>1 DEF Alone
            <4>3. y.next = orders[y.order].next /\ y.next <= run[s].at /\ x.next = orders[i].next
                BY <1>2, <3>1, <4>1 DEF Alone
            <4>4. y # x
                BY <1>3, <3>3, <4>2
            <4>5. y.order # i
                BY <1>2, <4>1, <4>3, <4>4 DEF Due
            <4> QED BY <1>3, <2>1, <4>1, <4>3, <4>5
        <3>4. Alone'
            BY <1>1, <1>3, <3>1, <3>3 DEF Alone
        <3> QED BY <3>2, <3>4
    <2> QED BY <1>1, <1>5, <2>2, <2>3 DEF BillingInv
<1>6. CASE StillCharged(i) /\ ChargeMonth(i, at)
    <2> DEFINE row == orders'[i]
    <2>1. /\ row \in Orders /\ orders' = [orders EXCEPT ![i] = row]
          /\ row.did = orders[i].did /\ row.user = orders[i].user /\ row.card = orders[i].card
          /\ row.bundle = orders[i].bundle /\ row.status = orders[i].status
          /\ row.first = orders[i].first /\ row.day = orders[i].day /\ row.moved = orders[i].moved
          /\ row.bills = orders[i].bills + 1 /\ row.next = NextAnniversary(at, orders[i].day)
          /\ balance' \in [Users -> Int] /\ ledger' \in [Users -> Lines] /\ LedgerBalances'
          /\ \A w \in Users : w # orders[i].user => balance'[w] = balance[w]
        BY <1>2, <1>6, ChargeRow
    <2> HIDE DEF row
    <2>2. orders[i].status = "active"
        BY <1>6 DEF StillCharged
    <2>3. RentalsInv'
        <3>1. ~Locked(orders[i].user)
            BY <1>1
        <3> QED BY <1>1, <1>2, <2>1, <2>2, <3>1, BilledKeeps
    <2>4. ASSUME ~overlapped, ~row.moved PROVE OnSchedule(row) /\ ChargesDue(row, now)
        <3>1. /\ orders[i].next <= at /\ at <= now
              /\ \E month \in Int : orders[i].next = OnDay(month, orders[i].day)
              /\ orders[i].first + orders[i].bills * MonthLength <= orders[i].next
            BY <1>2, <2>1, <2>4 DEF BillingInv, Alone, Scheduled, OnSchedule
        <3>2. orders[i].day \in Int
            <4>1. orders[i].day \in Days /\ Days \subseteq 1..LastAnniversary
                BY <1>2, RentalsAssumption DEF Orders
            <4>2. \A d \in 1..LastAnniversary : d \in Int
                BY DEF LastAnniversary
            <4> QED BY <4>1, <4>2
        <3>3. orders[i].next + MonthLength <= row.next
            BY <1>2, <2>1, <3>1, <3>2, MonthBetween
        <3>4. /\ orders[i].bills \in Nat /\ orders[i].first \in Nat /\ orders[i].next \in Nat
              /\ row.next \in Nat /\ now \in Nat /\ MonthLength \in Nat
            BY <1>2, <2>1, MonthAssumption DEF Orders, Times, RentalsInv, RentalsTypeOK
        <3>5. /\ orders[i].bills * MonthLength \in Nat
              /\ (orders[i].bills + 1) * MonthLength = orders[i].bills * MonthLength + MonthLength
            BY <3>4, OneMonthMore
        <3>6. row.first + row.bills * MonthLength <= orders[i].next + MonthLength
            BY <2>1, <3>1, <3>4, <3>5
        <3>7. \E month \in Int : row.next = OnDay(month, row.day)
            <4>1. PICK month \in Int : NextAnniversary(at, orders[i].day) = OnDay(month, orders[i].day)
                BY <1>2, <3>2, NextIsOnDay
            <4>2. row.next = OnDay(month, row.day)
                BY <2>1, <4>1
            <4> QED BY <4>2
        <3>8. row.first + row.bills * MonthLength \in Nat
            BY <2>1, <3>4, <3>5
        <3>9. /\ row.first + row.bills * MonthLength <= row.next
              /\ row.first + row.bills * MonthLength <= now + MonthLength
            BY <1>2, <3>1, <3>3, <3>4, <3>6, <3>8
        <3> QED BY <3>7, <3>9 DEF OnSchedule, ChargesDue
    <2> QED BY <1>5, <1>6, <2>1, <2>3, <2>4 DEF row
<1>7. CASE StillCharged(i) /\ Suspend(i)
    <2> DEFINE row == orders'[i]
    <2>1. /\ row \in Orders /\ orders' = [orders EXCEPT ![i] = row]
          /\ row = [orders[i] EXCEPT !.status = "suspended"]
        BY <1>2, <1>7, SuspendRow
    <2> HIDE DEF row
    <2>2. /\ row.did = orders[i].did /\ row.user = orders[i].user /\ row.card = orders[i].card
          /\ row.bundle = orders[i].bundle /\ row.status = "suspended"
          /\ row.first = orders[i].first /\ row.day = orders[i].day /\ row.moved = orders[i].moved
          /\ row.bills = orders[i].bills /\ row.next = orders[i].next
        BY <1>2, <2>1 DEF Orders
    <2>3. RentalsInv'
        <3>1. ~Locked(orders[i].user) /\ orders[i].status = "active"
            BY <1>1, <1>7 DEF StillCharged
        <3>2. balance' = balance /\ ledger' = ledger
            BY <1>7 DEF Suspend
        <3>3. balance' \in [Users -> Int] /\ ledger' \in [Users -> Lines] /\ LedgerBalances'
            BY <1>2, <3>2 DEF LedgerBalances
        <3> QED BY <1>1, <1>2, <2>1, <2>2, <3>1, <3>2, <3>3, BilledKeeps
    <2>4. ASSUME ~overlapped, ~row.moved PROVE OnSchedule(row) /\ ChargesDue(row, now)
        BY <1>2, <2>2, <2>4 DEF BillingInv, Scheduled, OnSchedule, ChargesDue
    <2> QED BY <1>5, <1>7, <2>1, <2>3, <2>4 DEF row
<1> QED BY <1>1, <1>4, <1>6, <1>7

-----------------------------------------------------------------------------
(* Runs and days *)

\* A step that leaves the rows alone, and the clock but for later, keeps the schedule.
LEMMA ScheduleKept ==
    ASSUME BillingInv, orders' = orders, now \in Nat, now' \in Nat, now <= now', Scheduled
    PROVE  Scheduled'
<1> SUFFICES ASSUME NEW i \in DOMAIN orders, ~orders[i].moved
             PROVE  OnSchedule(orders[i]) /\ ChargesDue(orders[i], now')
    BY DEF Scheduled
<1>1. OnSchedule(orders[i]) /\ ChargesDue(orders[i], now)
    BY DEF Scheduled
<1>2. orders[i].bills \in Nat /\ orders[i].first \in Nat
    <2>1. orders[i] \in Orders
        BY DEF BillingInv, RentalsInv, RentalsTypeOK
    <2> QED BY <2>1 DEF Orders, Times
<1>3. orders[i].bills * MonthLength \in Nat /\ MonthLength \in Nat
    BY <1>2, OneMonthMore, MonthAssumption
<1> QED BY <1>1, <1>2, <1>3 DEF ChargesDue

\* A run that starts reads the dates as they are.
LEMMA StartStep ==
    ASSUME BillingInv, NEW r \in Runners, StartRun(r)
    PROVE  BillingInv'
<1> DEFINE list == {[order |-> i, next |-> orders[i].next] : i \in {k \in DOMAIN orders : Selected(k)}}
<1>0. /\ \A i \in DOMAIN orders : orders[i] \in Orders /\ i \in 1..MaxOrders
      /\ now \in Nat /\ RentalsInv /\ BillingTypeOK
    <2>1. Len(orders) <= MaxOrders /\ MaxOrders \in Nat /\ orders \in Seq(Orders)
        BY RentalsAssumption DEF BillingInv, RentalsInv, RentalsTypeOK
    <2>2. \A i \in DOMAIN orders : i \in 1..MaxOrders
        BY <2>1
    <2>3. now \in Nat
        BY DEF BillingInv, RentalsInv, RentalsTypeOK, Times
    <2> QED BY <2>1, <2>2, <2>3 DEF BillingInv
<1>1. \A i \in DOMAIN orders : [order |-> i, next |-> orders[i].next] \in Due
    <2>1. \A i \in DOMAIN orders : orders[i].next \in Times
        BY <1>0 DEF Orders
    <2> QED BY <1>0, <2>1 DEF Due
<1>2. list \in SUBSET Due
    BY <1>1
<1>3. \A x \in list : x.order \in DOMAIN orders /\ x.next = orders[x.order].next /\ x.next <= now
    BY DEF Selected, IsDue
<1>4. /\ run' = [run EXCEPT ![r] = [on |-> TRUE, at |-> now, due |-> list]]
      /\ overlapped' = (overlapped \/ \E s \in Runners \ {r} : run[s].on)
      /\ UNCHANGED rentVars /\ failures' = failures
    BY DEF StartRun
<1> HIDE DEF list
<1>5. RentalsInv' /\ orders' = orders /\ now' = now
    BY <1>0, <1>4, RentalsStutterInv DEF rentVars
<1>6. run \in [Runners -> [on : BOOLEAN, at : Times, due : SUBSET Due]]
    BY <1>0 DEF BillingTypeOK
<1>7. /\ run'[r] = [on |-> TRUE, at |-> now, due |-> list]
      /\ \A s \in Runners \ {r} : run'[s] = run[s]
    BY <1>4, <1>6
<1>8. run' \in [Runners -> [on : BOOLEAN, at : Times, due : SUBSET Due]]
    <2>1. [on |-> TRUE, at |-> now, due |-> list] \in [on : BOOLEAN, at : Times, due : SUBSET Due]
        BY <1>0, <1>2 DEF Times
    <2> QED BY <1>4, <1>6, <2>1
<1>9. ASSUME NEW s \in Runners, NEW x \in run'[s].due
      PROVE  run'[s].on /\ x.order \in DOMAIN orders'
    <2>1. CASE s = r
        BY <1>3, <1>5, <1>7, <1>9, <2>1
    <2>2. CASE s # r
        BY <1>0, <1>5, <1>7, <1>9, <2>2 DEF BillingTypeOK
    <2> QED BY <2>1, <2>2
<1>10. BillingTypeOK'
    <2>1. overlapped' \in BOOLEAN
        BY <1>4
    <2>2. failures' \in 0..MaxFailures
        BY <1>0, <1>4 DEF BillingTypeOK
    <2>3. RentalsTypeOK'
        BY <1>5 DEF RentalsInv
    <2> QED BY <1>8, <1>9, <2>1, <2>2, <2>3 DEF BillingTypeOK
<1>11. ASSUME ~overlapped' PROVE Scheduled' /\ Alone'
    <2>1. ~overlapped /\ \A s \in Runners \ {r} : ~run[s].on
        BY <1>4, <1>11
    <2>2. Scheduled /\ Alone
        BY <2>1 DEF BillingInv
    <2>3. Scheduled'
        BY <1>0, <1>5, <2>2, ScheduleKept
    <2>4. \A s, t \in Runners : run'[s].on /\ run'[t].on => s = t
        BY <1>7, <2>1
    <2>5. \A s \in Runners : run'[s].at <= now'
        BY <1>0, <1>5, <1>7, <2>2 DEF Alone
    <2>6. ASSUME NEW s \in Runners, NEW x \in run'[s].due
          PROVE  x.next = orders'[x.order].next /\ x.next <= run'[s].at
        <3>1. CASE s = r
            BY <1>3, <1>5, <1>7, <2>6, <3>1
        <3>2. CASE s # r
            BY <1>5, <1>7, <2>2, <2>6, <3>2 DEF Alone
        <3> QED BY <3>1, <3>2
    <2> QED BY <2>3, <2>4, <2>5, <2>6 DEF Alone
<1> QED BY <1>5, <1>10, <1>11 DEF BillingInv

\* An order given up, the end of a run, and its death only shorten the lists.
LEMMA FailStep ==
    ASSUME BillingInv, NEW r \in Runners, ProcessFails(r) \/ EndRun(r) \/ KillRun(r)
    PROVE  BillingInv'
<1>0. /\ run \in [Runners -> [on : BOOLEAN, at : Times, due : SUBSET Due]]
      /\ now \in Nat /\ RentalsInv /\ BillingTypeOK
    BY DEF BillingInv, BillingTypeOK, RentalsTypeOK, Times
<1>1. UNCHANGED rentVars /\ overlapped' = overlapped
    BY DEF ProcessFails, EndRun, KillRun
<1>2. RentalsInv' /\ orders' = orders /\ now' = now
    BY <1>0, <1>1, RentalsStutterInv DEF rentVars
<1>3. /\ run' \in [Runners -> [on : BOOLEAN, at : Times, due : SUBSET Due]]
      /\ \A s \in Runners : \/ run'[s].on = run[s].on /\ run'[s].at = run[s].at
                               /\ run'[s].due \subseteq run[s].due
                            \/ run'[s] = NoRun
    <2>1. CASE ProcessFails(r)
        <3>1. PICK x \in Earliest(run[r].due) : run' = [run EXCEPT ![r].due = @ \ {x}]
            BY <2>1 DEF ProcessFails
        <3>2. x \in run[r].due
            BY DEF Earliest
        <3> QED BY <1>0, <3>1, <3>2, ListShrinks
    <2>2. CASE EndRun(r) \/ KillRun(r)
        <3>1. NoRun \in [on : BOOLEAN, at : Times, due : SUBSET Due]
            BY DEF NoRun, Times
        <3>2. run' = [run EXCEPT ![r] = NoRun]
            BY <2>2 DEF EndRun, KillRun
        <3> QED BY <1>0, <3>1, <3>2
    <2> QED BY <2>1, <2>2
<1>4. NoRun.on = FALSE /\ NoRun.at = 0 /\ NoRun.due = {}
    BY DEF NoRun
<1>5. failures' \in 0..MaxFailures
    BY <1>0, BillingAssumption DEF ProcessFails, EndRun, KillRun, BillingTypeOK
<1>6. BillingTypeOK'
    <2>1. \A s \in Runners : \A x \in run'[s].due : run'[s].on /\ x.order \in DOMAIN orders'
        BY <1>0, <1>2, <1>3, <1>4 DEF BillingTypeOK
    <2> QED BY <1>0, <1>1, <1>2, <1>3, <1>5, <2>1 DEF BillingTypeOK, RentalsInv
<1>7. ASSUME ~overlapped PROVE Scheduled' /\ Alone'
    <2>1. Scheduled /\ Alone
        BY <1>7 DEF BillingInv
    <2>2. Scheduled'
        BY <1>0, <1>2, <2>1, ScheduleKept
    <2>3. Alone'
        BY <1>0, <1>2, <1>3, <1>4, <2>1 DEF Alone
    <2> QED BY <2>2, <2>3
<1> QED BY <1>1, <1>2, <1>6, <1>7 DEF BillingInv

LEMMA TickStep ==
    ASSUME BillingInv, Tick
    PROVE  BillingInv'
<1>0. /\ now \in Nat /\ now' = now + 1 /\ RentalsInv /\ BillingTypeOK
      /\ UNCHANGED <<userStatus, balance, ledger, didStatus, orders, bundles, cards, job,
                     postings, vetted, overridden, unguarded, run, failures, overlapped>>
    BY DEF BillingInv, RentalsInv, RentalsTypeOK, Times, Tick
<1>1. RentalsInv'
    <2>1. RentalsTypeOK'
        <3>1. RentalsTypeOK /\ now' \in Times
            BY <1>0 DEF RentalsInv, Times
        <3> QED BY <1>0, <3>1 DEF RentalsTypeOK, LiveCards
    <2>2. DidAgrees' /\ KycGate' /\ LedgerBalances' /\ QuarantineFollowsBlock'
        BY <1>0 DEF RentalsInv, DidAgrees, HeldOn, KycGate, LedgerBalances, QuarantineFollowsBlock
    <2>3. ApprovedVetted' /\ OwnersExist'
        BY <1>0 DEF RentalsInv, ApprovedVetted, OwnersExist, Exists
    <2>4. CreatesAgree' /\ OneCreate' /\ EditsAgree'
        BY <1>0 DEF RentalsInv, CreatesAgree, CreateAgrees, OneCreate, EditsAgree, Exists
    <2> QED BY <2>1, <2>2, <2>3, <2>4 DEF RentalsInv
<1>2. BillingTypeOK'
    BY <1>0, <1>1 DEF BillingTypeOK, RentalsInv
<1>3. ASSUME ~overlapped PROVE Scheduled' /\ Alone'
    <2>1. Scheduled /\ Alone
        BY <1>3 DEF BillingInv
    <2>2. Scheduled'
        BY <1>0, <2>1, ScheduleKept
    <2>3. \A r \in Runners : run[r].at \in Nat
        BY <1>0 DEF BillingTypeOK, Times
    <2>4. Alone'
        BY <1>0, <2>1, <2>3 DEF Alone
    <2> QED BY <2>2, <2>4
<1> QED BY <1>0, <1>1, <1>2, <1>3 DEF BillingInv

-----------------------------------------------------------------------------
(* The theorems *)

LEMMA BillingInitInv == BillingInit => BillingInv
<1> SUFFICES ASSUME BillingInit PROVE BillingInv
    OBVIOUS
<1>1. RentalsInv
    BY RentalsInitInv DEF BillingInit
<1>2. /\ orders = <<>> /\ DOMAIN orders = {} /\ now = 0
      /\ run = [r \in Runners |-> NoRun] /\ failures = 0 /\ overlapped = FALSE
    BY DEF BillingInit, RentalsInit
<1>3. \A r \in Runners : run[r].on = FALSE /\ run[r].at = 0 /\ run[r].due = {}
    BY <1>2 DEF NoRun
<1>4. run \in [Runners -> [on : BOOLEAN, at : Times, due : SUBSET Due]]
    <2>1. NoRun \in [on : BOOLEAN, at : Times, due : SUBSET Due]
        BY DEF NoRun, Times
    <2> QED BY <1>2, <2>1
<1>5. BillingTypeOK
    <2>1. RentalsTypeOK
        BY <1>1 DEF RentalsInv
    <2>2. failures \in 0..MaxFailures /\ overlapped \in BOOLEAN
        <3>1. MaxFailures \in Nat
            BY BillingAssumption
        <3>2. failures \in 0..MaxFailures
            BY <1>2, <3>1
        <3>3. overlapped \in BOOLEAN
            BY <1>2
        <3> QED BY <3>2, <3>3
    <2>3. \A r \in Runners : \A x \in run[r].due : run[r].on /\ x.order \in DOMAIN orders
        BY <1>3
    <2> QED BY <1>4, <2>1, <2>2, <2>3 DEF BillingTypeOK
<1>6. Scheduled /\ Alone
    BY <1>2, <1>3 DEF Scheduled, Alone
<1> QED BY <1>1, <1>5, <1>6 DEF BillingInv

LEMMA BillingStepInv == BillingInv /\ [BillingNext]_billVars => BillingInv'
<1> SUFFICES ASSUME BillingInv, [BillingNext]_billVars PROVE BillingInv'
    OBVIOUS
<1>1. CASE RentalsNext /\ UNCHANGED <<run, failures, overlapped>>
    BY <1>1, HandlersStep
<1>2. CASE RunnerNext
    BY <1>2, StartStep, ProcessStep, FailStep DEF RunnerNext
<1>3. CASE Tick
    BY <1>3, TickStep
<1>4. CASE UNCHANGED billVars
    <2>1. UNCHANGED rentVars /\ UNCHANGED <<run, failures, overlapped>>
        BY <1>4 DEF billVars
    <2>2. RentalsInv'
        BY <2>1, RentalsStutterInv DEF BillingInv
    <2>3. BillingTypeOK'
        BY <2>1, <2>2 DEF BillingInv, BillingTypeOK, RentalsInv, rentVars
    <2>4. ~overlapped => Scheduled' /\ Alone'
        BY <2>1 DEF BillingInv, Scheduled, OnSchedule, ChargesDue, Alone, rentVars
    <2> QED BY <2>1, <2>2, <2>3, <2>4 DEF BillingInv
<1> QED BY <1>1, <1>2, <1>3, <1>4 DEF BillingNext

LEMMA BillingInvariant == BillingSpec => []BillingInv
BY BillingInitInv, BillingStepInv, PTL DEF BillingSpec

\* Every list of a run is of orders that are there, beside the types of Rentals.
THEOREM BillingTypeCorrect == BillingSpec => []BillingTypeOK
<1>1. BillingInv => BillingTypeOK
    BY DEF BillingInv
<1> QED BY <1>1, BillingInvariant, PTL

\* Charging and suspending orders beside them does not disturb what the handlers keep: a
\* DID's status and its orders, the KYC gate, the quarantine of the blocked.
THEOREM HandlersBesideBilling == BillingSpec => [](DidAgrees /\ KycGate /\ QuarantineFollowsBlock)
<1>1. BillingInv => DidAgrees /\ KycGate /\ QuarantineFollowsBlock
    BY DEF BillingInv, RentalsInv
<1> QED BY <1>1, BillingInvariant, PTL

\* Creates, postings and the billing, each with a balance it computed itself, never let
\* a user's balance and ledger drift apart.
THEOREM LedgerAlwaysBalances == BillingSpec => []LedgerBalances
<1>1. BillingInv => LedgerBalances
    BY DEF BillingInv, RentalsInv
<1> QED BY <1>1, BillingInvariant, PTL

\* No more charges than months that have begun, whatever fails, is killed or edited,
\* as long as runs do not overlap and the anniversary stays.
THEOREM NeverChargedTwice == BillingSpec => []ChargedPerMonth
<1>1. BillingInv => ChargedPerMonth
    <2> SUFFICES ASSUME BillingInv, ~overlapped, NEW i \in DOMAIN orders, ~orders[i].moved
                 PROVE  orders[i].bills <= Anniversaries(orders[i])
        BY DEF ChargedPerMonth
    <2>1. ChargesDue(orders[i], now)
        BY DEF BillingInv, Scheduled
    <2>2. orders[i].bills \in Nat /\ orders[i].first \in Nat /\ now \in Nat
        <3>1. orders[i] \in Orders /\ now \in Times
            BY DEF BillingInv, RentalsInv, RentalsTypeOK
        <3> QED BY <3>1 DEF Orders, Times
    <2> QED BY <2>1, <2>2, CountedMonths
<1> QED BY <1>1, BillingInvariant, PTL

\* Neither the setup fee of a create nor the month of a run leaves a user in debt.
THEOREM RentIsCovered == BillingSpec => RentNeverOverdraws
<1> DEFINE Covered(i) ==
        (i \notin DOMAIN orders \/ orders'[i].bills > orders[i].bills) => balance'[orders'[i].user] >= 0
<1>1. ASSUME BillingInv, BillingNext, NEW i \in DOMAIN orders' PROVE Covered(i)
    <2>0. RentalsInv /\ orders \in Seq(Orders)
        BY <1>1 DEF BillingInv, RentalsInv, RentalsTypeOK
    <2>1. ASSUME i \in DOMAIN orders, orders'[i].bills = orders[i].bills PROVE Covered(i)
        <3>1. orders[i].bills \in Nat
            <4>1. orders[i] \in Orders
                BY <2>0, <2>1
            <4> QED BY <4>1 DEF Orders
        <3> QED BY <2>1, <3>1
    <2>2. CASE RentalsNext
        <3>1. CASE i \in DOMAIN orders
            BY <2>0, <2>1, <2>2, <3>1, RowsKept DEF RowKept
        <3>2. CASE i \notin DOMAIN orders
            <4>1. PICK c \in Clerks : CreateFinish(c) /\ orders'[i].user = job[c].user
                BY <1>1, <2>0, <2>2, <3>2, RowsKept DEF RowNew
            <4> QED BY <2>0, <4>1, CreatePays
        <3> QED BY <3>1, <3>2
    <2>3. CASE orders' = orders
        BY <1>1, <2>1, <2>3
    <2>4. ASSUME NEW r \in Runners, ProcessOne(r) PROVE Covered(i)
        <3>1. PICK x \in Earliest(run[r].due) :
                 IF StillCharged(x.order)
                 THEN ChargeMonth(x.order, run[r].at) \/ Suspend(x.order)
                 ELSE UNCHANGED <<orders, balance, ledger>>
            BY <2>4 DEF ProcessOne
        <3>2. x.order \in DOMAIN orders /\ run[r].at \in Nat
            BY <1>1 DEF Earliest, BillingInv, BillingTypeOK, Times
        <3>3. CASE ChargeMonth(x.order, run[r].at)
            <4>1. PICK row : row = orders'[x.order]
                OBVIOUS
            <4>2. /\ orders' = [orders EXCEPT ![x.order] = row] /\ row.user = orders[x.order].user
                  /\ balance'[orders[x.order].user] >= 0
                BY <2>0, <3>2, <3>3, <4>1, ChargeRow
            <4>3. CASE i = x.order
                BY <4>1, <4>2, <4>3
            <4>4. CASE i # x.order
                BY <1>1, <2>0, <2>1, <4>2, <4>4
            <4> QED BY <4>3, <4>4
        <3>4. CASE Suspend(x.order)
            <4>1. PICK row : row = orders'[x.order]
                OBVIOUS
            <4>2. /\ orders' = [orders EXCEPT ![x.order] = row] /\ orders[x.order] \in Orders
                  /\ row = [orders[x.order] EXCEPT !.status = "suspended"]
                BY <2>0, <3>2, <3>4, <4>1, SuspendRow
            <4>3. row.bills = orders[x.order].bills
                BY <4>2 DEF Orders
            <4>4. i \in DOMAIN orders /\ orders'[i].bills = orders[i].bills
                BY <1>1, <2>0, <3>2, <4>2, <4>3
            <4> QED BY <2>1, <4>4
        <3> QED BY <2>3, <3>1, <3>3, <3>4
    <2>5. \/ RentalsNext
          \/ orders' = orders
          \/ \E r \in Runners : ProcessOne(r)
        BY <1>1 DEF BillingNext, RunnerNext, StartRun, ProcessFails, EndRun, KillRun, Tick, rentVars
    <2> QED BY <2>2, <2>3, <2>4, <2>5
<1>2. BillingInv /\ [BillingNext]_billVars => [\A i \in DOMAIN orders' : Covered(i)]_<<orders, balance>>
    BY <1>1 DEF billVars, rentVars
<1> QED BY <1>2, BillingInvariant, PTL DEF BillingSpec, RentNeverOverdraws
===============================================================================
