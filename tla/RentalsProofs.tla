----------------------------- MODULE RentalsProofs -----------------------------
(* What holds of Rentals for any users, DIDs, bundles, prices and clerks.               *)
EXTENDS Rentals, RatingProofs

-----------------------------------------------------------------------------
(* The invariant *)

\* Whatever was approved counts as vetted.
ApprovedVetted == \A b \in Bundles : bundles[b] = "approved" => b \in vetted

\* A user with an order row has not been deleted.
OwnersExist == \A i \in DOMAIN orders : Exists(orders[i].user)

\* A create still has the balance it locked, enough of it, and the bundle it saw.
CreateAgrees(j) ==
    /\ j.card \in DOMAIN cards
    /\ Exists(j.user)
    /\ j.cents = balance[j.user] /\ j.nrc <= j.cents
    /\ j.bundle \in Bundles => BundleUser[j.bundle] = j.user
    /\ j.status = "active" => j.bundle \in vetted

CreatesAgree == \A c \in Clerks : job[c].kind = "create" => CreateAgrees(job[c])

\* No two creates are for one user.
OneCreate ==
    \A c, e \in Clerks :
        job[c].kind = "create" /\ job[e].kind = "create" /\ job[c].user = job[e].user => c = e

\* An edit is of a row that is there, and of a bundle of its user; a new price of a card
\* that is there.
EditsAgree ==
    \A c \in Clerks :
        /\ job[c].kind = "edit" =>
              /\ job[c].order \in DOMAIN orders
              /\ job[c].bundle \in Bundles => BundleUser[job[c].bundle] = orders[job[c].order].user
        /\ job[c].kind = "price" => job[c].card \in DOMAIN cards

RentalsInv ==
    /\ RentalsTypeOK
    /\ DidAgrees /\ KycGate /\ LedgerBalances /\ QuarantineFollowsBlock
    /\ ApprovedVetted /\ OwnersExist /\ CreatesAgree /\ OneCreate /\ EditsAgree

-----------------------------------------------------------------------------
(* Jobs and rows *)

\* The fields of a job are those of its kind.
LEMMA JobFields ==
    ASSUME NEW j \in Jobs
    PROVE  /\ j.kind \in {"idle", "create", "edit", "retire", "price"}
           /\ j.kind = "create" =>
                 /\ j.via \in {"gui", "api"} /\ j.did \in Dids /\ j.user \in Users
                 /\ j.card \in 1..MaxCards /\ j.nrc \in Nat /\ j.cents \in Int
                 /\ j.bundle \in Bundles \cup {NoBundle} /\ j.status \in {"active", "kyc_pending"}
                 /\ j.channels \in Channels /\ j.day \in Days
           /\ j.kind = "edit" =>
                 /\ j.via \in {"gui", "api"} /\ j.order \in 1..MaxOrders /\ j.channels \in Nat
                 /\ j.day \in Days /\ j.bundle \in Bundles \cup {NoBundle}
           /\ j.kind = "retire" => j.did \in Dids
           /\ j.kind = "price" => j.card \in 1..MaxCards /\ j.price \in Prices
BY DEF Jobs, Idle

\* Rows replaced one for one are still the rows of a table.
LEMMA RowsType ==
    ASSUME orders \in Seq(Orders), NEW f, f = [i \in DOMAIN orders |-> f[i]],
           \A i \in DOMAIN orders : f[i] \in Orders
    PROVE  f \in Seq(Orders) /\ Len(f) = Len(orders) /\ DOMAIN f = DOMAIN orders
<1>1. DOMAIN orders = 1..Len(orders) /\ Len(orders) \in Nat
    OBVIOUS
<1>2. f \in [1..Len(orders) -> Orders]
    BY <1>1
<1> QED BY <1>1, <1>2

\* So they are when one of them is changed.
LEMMA RowType ==
    ASSUME orders \in Seq(Orders), NEW i \in DOMAIN orders, NEW row \in Orders
    PROVE  /\ [orders EXCEPT ![i] = row] \in Seq(Orders)
           /\ Len([orders EXCEPT ![i] = row]) = Len(orders)
           /\ DOMAIN [orders EXCEPT ![i] = row] = DOMAIN orders
OBVIOUS

\* A row added.
LEMMA NewRowType ==
    ASSUME orders \in Seq(Orders), NEW row \in Orders
    PROVE  /\ Append(orders, row) \in Seq(Orders)
           /\ Len(Append(orders, row)) = Len(orders) + 1
           /\ DOMAIN Append(orders, row) = DOMAIN orders \cup {Len(orders) + 1}
           /\ \A i \in DOMAIN orders : Append(orders, row)[i] = orders[i]
           /\ Append(orders, row)[Len(orders) + 1] = row
           /\ Len(orders) + 1 \notin DOMAIN orders
OBVIOUS

\* Rows whose status only leaves "active" stay one to a DID.
LEMMA FewerActive ==
    ASSUME OneActivePerDid(orders), NEW rows, DOMAIN rows = DOMAIN orders,
           \A i \in DOMAIN orders : rows[i].did = orders[i].did,
           \A i \in DOMAIN orders : rows[i].status = "active" => orders[i].status = "active"
    PROVE  OneActivePerDid(rows)
BY DEF OneActivePerDid

-----------------------------------------------------------------------------
(* Types *)

\* A posting keeps balances and ledger in their types.
LEMMA BookType ==
    ASSUME RentalsTypeOK, NEW u \in Users, NEW delta \in Int, NEW cents \in Int, Book(u, delta, cents)
    PROVE  /\ balance' \in [Users -> Int] /\ ledger' \in [Users -> Lines]
           /\ postings' \in 0..MaxPostings
<1>1. MaxPostings \in Nat
    BY RentalsAssumption
<1>2. [sum |-> ledger[u].sum + delta, after |-> cents] \in Lines
    BY DEF RentalsTypeOK, Lines
<1> QED BY <1>1, <1>2 DEF RentalsTypeOK, Book

\* The handlers of users keep every variable in its type.
LEMMA UserType == RentalsTypeOK /\ UserNext => RentalsTypeOK'
<1> SUFFICES ASSUME RentalsTypeOK, NEW u \in Users,
                    \/ UserCreate(u)
                    \/ \E s \in {"active", "inactive"} : UserSave(u, s)
                    \/ UserDelete(u)
                    \/ \E cents \in Topups : Topup(u, cents) \/ TopupByReseller(u, cents)
                    \/ \E cents \in CallCosts : CallCharged(u, cents)
                    \/ Block(u)
                    \/ Unblock(u)
             PROVE  RentalsTypeOK'
    BY DEF UserNext
<1>1. CASE UserCreate(u)
    BY <1>1 DEF RentalsTypeOK, UserCreate, LiveCards
<1>2. ASSUME NEW s \in {"active", "inactive"}, UserSave(u, s) PROVE RentalsTypeOK'
    BY <1>2 DEF RentalsTypeOK, UserSave, LiveCards
<1>3. CASE UserDelete(u)
    <2>1. [sum |-> 0, after |-> 0] \in Lines
        BY DEF Lines
    <2> QED BY <1>3, <2>1 DEF RentalsTypeOK, UserDelete, LiveCards
<1>4. ASSUME NEW cents \in Topups, Topup(u, cents) PROVE RentalsTypeOK'
    <2>1. cents \in Int /\ balance[u] + cents \in Int
        BY RentalsAssumption DEF RentalsTypeOK
    <2>2. /\ balance' \in [Users -> Int] /\ ledger' \in [Users -> Lines]
          /\ postings' \in 0..MaxPostings
        BY <1>4, <2>1, BookType DEF Topup
    <2> QED BY <1>4, <2>2 DEF RentalsTypeOK, Topup, LiveCards
<1>5. ASSUME NEW cents \in CallCosts, CallCharged(u, cents) PROVE RentalsTypeOK'
    <2>1. -cents \in Int /\ balance[u] - cents \in Int
        BY RentalsAssumption DEF RentalsTypeOK
    <2>2. /\ balance' \in [Users -> Int] /\ ledger' \in [Users -> Lines]
          /\ postings' \in 0..MaxPostings
        BY <1>5, <2>1, BookType DEF CallCharged
    <2> QED BY <1>5, <2>2 DEF RentalsTypeOK, CallCharged, LiveCards
<1>6. CASE Block(u)
    <2>1. \A i \in DOMAIN orders : orders[i] \in Orders
        BY DEF RentalsTypeOK
    <2>2. \A i \in DOMAIN orders : [orders[i] EXCEPT !.status = "quarantined"] \in Orders
        BY <2>1 DEF Orders, OrderStatus, Held, Editable
    <2>3. /\ orders' = [i \in DOMAIN orders |-> orders'[i]]
          /\ \A i \in DOMAIN orders : orders'[i] = orders[i] \/
                orders'[i] = [orders[i] EXCEPT !.status = "quarantined"]
        BY <1>6 DEF Block
    <2>4. orders' \in Seq(Orders) /\ Len(orders') = Len(orders) /\ DOMAIN orders' = DOMAIN orders
        <3>1. orders \in Seq(Orders) /\ \A i \in DOMAIN orders : orders'[i] \in Orders
            BY <2>1, <2>2, <2>3 DEF RentalsTypeOK
        <3> QED BY <2>3, <3>1, RowsType
    <2>5. /\ \A i \in DOMAIN orders : orders'[i].did = orders[i].did /\ orders'[i].card = orders[i].card
          /\ \A i \in DOMAIN orders : orders'[i].status = "active" => orders[i].status = "active"
        BY <2>1, <2>3 DEF Orders
    <2>6. OneActivePerDid(orders')
        BY <2>4, <2>5, FewerActive DEF RentalsTypeOK
    <2> QED BY <1>6, <2>4, <2>5, <2>6 DEF RentalsTypeOK, Block, LiveCards
<1>7. CASE Unblock(u)
    <2>1. \A i \in DOMAIN orders : orders[i] \in Orders
        BY DEF RentalsTypeOK
    <2>2. \A i \in DOMAIN orders : [orders[i] EXCEPT !.status = "active"] \in Orders
        BY <2>1 DEF Orders, OrderStatus, Held, Editable
    <2>3. /\ orders' = [i \in DOMAIN orders |-> orders'[i]]
          /\ \A i \in DOMAIN orders : orders'[i] = orders[i] \/
                orders'[i] = [orders[i] EXCEPT !.status = "active"]
          /\ OneActivePerDid(orders')
        BY <1>7 DEF Unblock, Accepts
    <2>4. orders' \in Seq(Orders) /\ Len(orders') = Len(orders) /\ DOMAIN orders' = DOMAIN orders
        <3>1. orders \in Seq(Orders) /\ \A i \in DOMAIN orders : orders'[i] \in Orders
            BY <2>1, <2>2, <2>3 DEF RentalsTypeOK
        <3> QED BY <2>3, <3>1, RowsType
    <2>5. \A i \in DOMAIN orders : orders'[i].card = orders[i].card
        BY <2>1, <2>3 DEF Orders
    <2> QED BY <1>7, <2>3, <2>4, <2>5 DEF RentalsTypeOK, Unblock, LiveCards
<1> QED BY <1>1, <1>2, <1>3, <1>4, <1>5, <1>6, <1>7 DEF TopupByReseller

\* So do those of bundles.
LEMMA BundleType == RentalsTypeOK /\ BundleNext => RentalsTypeOK'
<1> SUFFICES ASSUME RentalsTypeOK, NEW b \in Bundles,
                    BundleCreate(b) \/ BundleCreateByReseller(b) \/ Approve(b) \/ Reject(b)
             PROVE  RentalsTypeOK'
    BY DEF BundleNext
<1>1. CASE BundleCreate(b) \/ BundleCreateByReseller(b)
    BY <1>1 DEF RentalsTypeOK, BundleCreate, BundleCreateByReseller, LiveCards
<1>2. CASE Approve(b)
    <2>1. \A i \in DOMAIN orders : orders[i] \in Orders
        BY DEF RentalsTypeOK
    <2>2. \A i \in DOMAIN orders : [orders[i] EXCEPT !.status = "active"] \in Orders
        BY <2>1 DEF Orders, OrderStatus, Held, Editable
    <2>3. /\ orders' = [i \in DOMAIN orders |-> orders'[i]]
          /\ \A i \in DOMAIN orders : orders'[i] = orders[i] \/
                orders'[i] = [orders[i] EXCEPT !.status = "active"]
          /\ OneActivePerDid(orders')
        BY <1>2 DEF Approve, Accepts
    <2>4. orders' \in Seq(Orders) /\ Len(orders') = Len(orders) /\ DOMAIN orders' = DOMAIN orders
        <3>1. orders \in Seq(Orders) /\ \A i \in DOMAIN orders : orders'[i] \in Orders
            BY <2>1, <2>2, <2>3 DEF RentalsTypeOK
        <3> QED BY <2>3, <3>1, RowsType
    <2>5. \A i \in DOMAIN orders : orders'[i].card = orders[i].card
        BY <2>1, <2>3 DEF Orders
    <2> QED BY <1>2, <2>3, <2>4, <2>5 DEF RentalsTypeOK, Approve, LiveCards
<1>3. CASE Reject(b)
    BY <1>3 DEF RentalsTypeOK, Reject, LiveCards
<1> QED BY <1>1, <1>2, <1>3

\* And those of DIDs.
LEMMA DidType == RentalsTypeOK /\ DidNext => RentalsTypeOK'
<1> SUFFICES ASSUME RentalsTypeOK, DidNext PROVE RentalsTypeOK'
    OBVIOUS
<1>1. ASSUME NEW c \in Clerks, RetireWrite(c) PROVE RentalsTypeOK'
    <2>1. job[c].did \in Dids
        BY <1>1, JobFields DEF RentalsTypeOK, RetireWrite
    <2>2. Idle \in Jobs
        BY DEF Jobs
    <2> QED BY <1>1, <2>1, <2>2 DEF RentalsTypeOK, RetireWrite, LiveCards
<1>2. ASSUME NEW c \in Clerks, NEW d \in Dids, RetireOpen(c, d) PROVE RentalsTypeOK'
    <2>1. [kind |-> "retire", did |-> d] \in Jobs
        BY DEF Jobs
    <2> QED BY <1>2, <2>1 DEF RentalsTypeOK, RetireOpen, LiveCards
<1>3. ASSUME NEW d \in Dids, Reserve(d) \/ Release(d) PROVE RentalsTypeOK'
    BY <1>3 DEF RentalsTypeOK, Reserve, Release, LiveCards
<1> QED BY <1>1, <1>2, <1>3 DEF DidNext

\* And those of rate cards, of which one at most is live.
LEMMA CardType == RentalsTypeOK /\ EditsAgree /\ CardNext => RentalsTypeOK'
<1> SUFFICES ASSUME RentalsTypeOK, EditsAgree, CardNext PROVE RentalsTypeOK'
    OBVIOUS
<1>1. \A p \in Prices : p \in [nrc : Nat, mrc : Nat, chan : Nat]
                        /\ [p EXCEPT !.nrc = 0] \in [nrc : Nat, mrc : Nat, chan : Nat]
    BY RentalsAssumption
<1>2. ASSUME NEW price \in [nrc : Nat, mrc : Nat, chan : Nat], AddCard(price) PROVE RentalsTypeOK'
    <2>1. [price |-> price, live |-> TRUE] \in Cards
        BY DEF Cards
    <2>2. /\ cards' \in Seq(Cards) /\ Len(cards') <= MaxCards
          /\ DOMAIN cards \subseteq DOMAIN cards'
        BY <1>2, <2>1, RentalsAssumption DEF AddCard, RentalsTypeOK
    <2>3. \A i, j \in LiveCards' : i = j
        BY <1>2 DEF AddCard, SlotFree, LiveCards, RentalsTypeOK
    <2> QED BY <1>2, <2>2, <2>3 DEF RentalsTypeOK, AddCard
<1>3. ASSUME NEW i \in DOMAIN cards, RateCardExpire(i) PROVE RentalsTypeOK'
    <2>1. cards[i] \in Cards /\ [cards[i] EXCEPT !.live = FALSE] \in Cards
        <3>1. cards[i] \in Cards
            BY DEF RentalsTypeOK
        <3> QED BY <3>1 DEF Cards
    <2>2. cards' \in Seq(Cards) /\ Len(cards') = Len(cards) /\ DOMAIN cards' = DOMAIN cards
        BY <1>3, <2>1 DEF RateCardExpire, RentalsTypeOK
    <2>3. LiveCards' \subseteq LiveCards
        BY <1>3, <2>1, <2>2 DEF RateCardExpire, LiveCards, RentalsTypeOK, Cards
    <2> QED BY <1>3, <2>2, <2>3 DEF RentalsTypeOK, RateCardExpire
<1>4. ASSUME NEW c \in Editors, NEW i \in DOMAIN cards, NEW p \in Prices, PriceOpen(c, i, p)
      PROVE  RentalsTypeOK'
    <2>1. c \in Clerks /\ i \in 1..MaxCards
        BY RentalsAssumption DEF RentalsTypeOK
    <2>2. [kind |-> "price", card |-> i, price |-> p] \in Jobs
        BY <2>1 DEF Jobs
    <2> QED BY <1>4, <2>1, <2>2 DEF RentalsTypeOK, PriceOpen, LiveCards
<1>5. ASSUME NEW c \in Editors, PriceWrite(c) PROVE RentalsTypeOK'
    <2>1. c \in Clerks /\ Idle \in Jobs
        BY RentalsAssumption DEF Jobs
    <2>2. job[c].card \in DOMAIN cards /\ job[c].price \in Prices
        BY <1>5, <2>1, JobFields DEF EditsAgree, RentalsTypeOK, PriceWrite
    <2>3. [cards[job[c].card] EXCEPT !.price = job[c].price] \in Cards
        <3>1. cards[job[c].card] \in Cards
            BY <2>2 DEF RentalsTypeOK
        <3> QED BY <1>1, <2>2, <3>1 DEF Cards
    <2>4. cards' \in Seq(Cards) /\ Len(cards') = Len(cards) /\ DOMAIN cards' = DOMAIN cards
        BY <1>5, <2>2, <2>3 DEF PriceWrite, RentalsTypeOK
    <2>5. \A k \in DOMAIN cards : cards'[k].live = cards[k].live
        BY <1>5, <2>2, <2>3 DEF PriceWrite, RentalsTypeOK, Cards
    <2>6. LiveCards' = LiveCards
        BY <2>4, <2>5 DEF LiveCards
    <2> QED BY <1>5, <2>1, <2>4, <2>6 DEF RentalsTypeOK, PriceWrite
<1> QED BY <1>1, <1>2, <1>3, <1>4, <1>5 DEF CardNext, RateCardCreate, RateCardCreateBulk

\* The row a create inserts.
LEMMA NewOrderType ==
    ASSUME RentalsTypeOK, NEW j \in Jobs, j.kind = "create"
    PROVE  /\ NewOrder(j) \in Orders
           /\ NewOrder(j).did = j.did /\ NewOrder(j).user = j.user /\ NewOrder(j).card = j.card
           /\ NewOrder(j).status = j.status /\ NewOrder(j).bundle = j.bundle
           /\ NewOrder(j).bills = 0
<1>1. j.day \in Int /\ now \in Nat
    <2>1. j.day \in Days /\ Days \subseteq 1..LastAnniversary
        BY JobFields, RentalsAssumption
    <2>2. j.day \in 1..LastAnniversary
        BY <2>1
    <2>3. now \in Nat
        BY DEF RentalsTypeOK, Times
    <2>4. \A d \in 1..LastAnniversary : d \in Int
        BY DEF LastAnniversary
    <2> QED BY <2>2, <2>3, <2>4
<1>2. NextAnniversary(now, j.day) \in Times
    BY <1>1, NextAnniversaryLater DEF Times
<1>3. /\ j.did \in Dids /\ j.user \in Users /\ j.card \in 1..MaxCards
      /\ j.bundle \in Bundles \cup {NoBundle} /\ j.status \in OrderStatus
      /\ j.channels \in Nat /\ j.day \in Days
    BY JobFields, RentalsAssumption DEF OrderStatus, Held, Editable
<1> QED BY <1>2, <1>3 DEF NewOrder, Orders

\* What an edit makes of a row.
LEMMA EditedType ==
    ASSUME RentalsTypeOK, NEW row \in Orders, NEW j \in Jobs, j.kind = "edit"
    PROVE  /\ Edited(row, j) \in Orders
           /\ Edited(row, j).did = row.did /\ Edited(row, j).user = row.user
           /\ Edited(row, j).card = row.card /\ Edited(row, j).bills = row.bills
           /\ Edited(row, j).bundle \in {row.bundle, j.bundle}
           /\ Edited(row, j).status =
                 IF EditActivates(row, j.bundle) THEN "active" ELSE row.status
<1>1. j.channels \in Nat /\ j.day \in Days /\ j.bundle \in Bundles \cup {NoBundle}
    BY JobFields
<1>2. "active" \in OrderStatus
    BY DEF OrderStatus, Held, Editable
<1> QED BY <1>1, <1>2 DEF Edited, Orders

\* The handlers of orders keep every variable in its type.
LEMMA OrderType == RentalsTypeOK /\ CreatesAgree /\ EditsAgree /\ OrderNext => RentalsTypeOK'
<1> SUFFICES ASSUME RentalsTypeOK, CreatesAgree, EditsAgree, OrderNext PROVE RentalsTypeOK'
    OBVIOUS
<1>0. Editors \subseteq Clerks /\ Idle \in Jobs /\ \A c \in Clerks : job[c] \in Jobs
    BY RentalsAssumption DEF Jobs, RentalsTypeOK
<1>1. ASSUME NEW c \in Clerks, NEW via \in {"gui", "api"}, NEW u \in Users, NEW d \in Dids,
             NEW b \in Bundles \cup {NoBundle}, NEW n \in Channels, NEW day \in Days,
             CreateOpen(c, via, u, d, b, n, day)
      PROVE  RentalsTypeOK'
    <2>1. PICK i \in LiveCards : job' = [job EXCEPT ![c] =
              [kind |-> "create", via |-> via, did |-> d, user |-> u, card |-> i,
               nrc |-> cards[i].price.nrc, cents |-> balance[u], bundle |-> b,
               status |-> IF b \in Bundles /\ bundles[b] = "approved" THEN "active" ELSE "kyc_pending",
               channels |-> n, day |-> day]]
        BY <1>1 DEF CreateOpen
    <2>2. i \in 1..MaxCards /\ cards[i].price.nrc \in Nat /\ balance[u] \in Int
        <3>1. i \in DOMAIN cards /\ cards[i] \in Cards
            BY DEF LiveCards, RentalsTypeOK
        <3>2. i \in 1..Len(cards) /\ Len(cards) <= MaxCards /\ MaxCards \in Nat
            BY <3>1, RentalsAssumption DEF RentalsTypeOK
        <3> QED BY <3>1, <3>2 DEF RentalsTypeOK, Cards
    <2>3. [kind |-> "create", via |-> via, did |-> d, user |-> u, card |-> i,
           nrc |-> cards[i].price.nrc, cents |-> balance[u], bundle |-> b,
           status |-> IF b \in Bundles /\ bundles[b] = "approved" THEN "active" ELSE "kyc_pending",
           channels |-> n, day |-> day] \in Jobs
        BY <2>2 DEF Jobs
    <2>4. job' \in [Clerks -> Jobs]
        BY <2>1, <2>3 DEF RentalsTypeOK
    <2> QED BY <1>1, <2>4 DEF RentalsTypeOK, CreateOpen, LiveCards
<1>2. ASSUME NEW c \in Clerks, CreateFinish(c) PROVE RentalsTypeOK'
    <2> DEFINE row == NewOrder(job[c])
    <2>1. job[c].kind = "create" /\ job[c].did \in Dids /\ job[c].user \in Users
          /\ job[c].nrc \in Nat /\ job[c].cents \in Int
        BY <1>2, <1>0, JobFields DEF CreateFinish
    <2>2. row \in Orders /\ row.card = job[c].card
        BY <1>0, <2>1, NewOrderType
    <2>3. /\ Len(orders) < MaxOrders /\ OneActivePerDid(orders')
          /\ orders' = Append(orders, row)
        BY <1>2 DEF CreateFinish, Accepts
    <2> HIDE DEF row
    <2>4. /\ orders' \in Seq(Orders) /\ Len(orders') = Len(orders) + 1
          /\ DOMAIN orders' = DOMAIN orders \cup {Len(orders) + 1}
          /\ \A i \in DOMAIN orders : orders'[i] = orders[i]
          /\ orders'[Len(orders) + 1] = row
        BY <2>2, <2>3, NewRowType DEF RentalsTypeOK
    <2>5. Len(orders') <= MaxOrders
        BY <2>3, <2>4, RentalsAssumption DEF RentalsTypeOK
    <2>6. \A i \in DOMAIN orders' : orders'[i].card \in DOMAIN cards
        BY <2>1, <2>2, <2>4 DEF RentalsTypeOK, CreatesAgree, CreateAgrees
    <2>7. /\ balance' \in [Users -> Int] /\ ledger' \in [Users -> Lines]
          /\ postings' \in 0..MaxPostings
        <3>1. CASE job[c].nrc > 0
            <4>1. Book(job[c].user, -job[c].nrc, job[c].cents - job[c].nrc)
                BY <1>2, <3>1 DEF CreateFinish
            <4> QED BY <2>1, <4>1, BookType
        <3>2. CASE ~(job[c].nrc > 0)
            BY <1>2, <3>2 DEF CreateFinish, RentalsTypeOK
        <3> QED BY <3>1, <3>2
    <2>8. job' \in [Clerks -> Jobs]
        BY <1>0, <1>2 DEF CreateFinish, RentalsTypeOK
    <2>9. /\ didStatus' \in [Dids -> {"available", "reserved", "assigned", "retired"}]
          /\ unguarded' \subseteq Dids
        BY <1>2, <2>1 DEF CreateFinish, RentalsTypeOK
    <2> QED BY <1>2, <2>3, <2>4, <2>5, <2>6, <2>7, <2>8, <2>9
            DEF RentalsTypeOK, CreateFinish, LiveCards
<1>3. ASSUME NEW c \in Clerks, Abandon(c) PROVE RentalsTypeOK'
    BY <1>0, <1>3 DEF RentalsTypeOK, Abandon, LiveCards
<1>4. ASSUME NEW c \in Editors, NEW via \in {"gui", "api"}, NEW i \in DOMAIN orders,
             NEW n \in Channels \cup {orders[i].channels}, NEW day \in Days,
             NEW b \in Bundles \cup {NoBundle}, EditOpen(c, via, i, n, day, b)
      PROVE  RentalsTypeOK'
    <2>1. i \in 1..MaxOrders
        BY RentalsAssumption DEF RentalsTypeOK
    <2>2. n \in Nat
        <3>1. orders[i] \in Orders /\ Channels \subseteq Nat
            BY RentalsAssumption DEF RentalsTypeOK
        <3> QED BY <3>1 DEF Orders
    <2>3. [kind |-> "edit", via |-> via, order |-> i, channels |-> n, day |-> day, bundle |-> b] \in Jobs
        BY <2>1, <2>2 DEF Jobs
    <2>4. job' \in [Clerks -> Jobs]
        BY <1>0, <1>4, <2>3 DEF EditOpen, RentalsTypeOK
    <2> QED BY <1>4, <2>4 DEF RentalsTypeOK, EditOpen, LiveCards
<1>5. ASSUME NEW c \in Editors, EditWrite(c) PROVE RentalsTypeOK'
    <2> DEFINE i == job[c].order
               row == Edited(orders[i], job[c])
    <2>1. job[c].kind = "edit" /\ c \in Clerks /\ i \in DOMAIN orders
        BY <1>0, <1>5 DEF EditWrite, EditsAgree
    <2>2. orders[i] \in Orders
        BY <2>1 DEF RentalsTypeOK
    <2>3. row \in Orders /\ row.card = orders[i].card
        BY <1>0, <2>1, <2>2, EditedType
    <2>4. orders' = [orders EXCEPT ![i] = row] /\ OneActivePerDid(orders')
        BY <1>5 DEF EditWrite, Accepts
    <2> HIDE DEF row
    <2>5. orders' \in Seq(Orders) /\ Len(orders') = Len(orders) /\ DOMAIN orders' = DOMAIN orders
        BY <2>1, <2>3, <2>4, RowType DEF RentalsTypeOK
    <2>6. \A k \in DOMAIN orders : orders'[k].card \in DOMAIN cards
        BY <2>1, <2>3, <2>4, <2>5 DEF RentalsTypeOK
    <2>7. job' \in [Clerks -> Jobs]
        BY <1>0, <1>5 DEF EditWrite, RentalsTypeOK
    <2> QED BY <1>5, <2>4, <2>5, <2>6, <2>7 DEF RentalsTypeOK, EditWrite, LiveCards
<1>6. ASSUME NEW i \in DOMAIN orders, Cancel(i) PROVE RentalsTypeOK'
    <2> DEFINE row == [orders[i] EXCEPT !.status = "cancelled"]
    <2>1. orders[i] \in Orders
        BY DEF RentalsTypeOK
    <2>2. row \in Orders /\ row.card = orders[i].card /\ row.did = orders[i].did /\ row.status = "cancelled"
        BY <2>1 DEF Orders, OrderStatus
    <2>3. orders' = [orders EXCEPT ![i] = row]
        BY <1>6 DEF Cancel
    <2> HIDE DEF row
    <2>4. orders' \in Seq(Orders) /\ Len(orders') = Len(orders) /\ DOMAIN orders' = DOMAIN orders
        BY <2>2, <2>3, RowType DEF RentalsTypeOK
    <2>5. /\ \A k \in DOMAIN orders : orders'[k].card \in DOMAIN cards
          /\ \A k \in DOMAIN orders : orders'[k].did = orders[k].did
          /\ \A k \in DOMAIN orders : orders'[k].status = "active" => orders[k].status = "active"
        BY <2>2, <2>3, <2>4 DEF RentalsTypeOK
    <2>6. OneActivePerDid(orders')
        BY <2>4, <2>5, FewerActive DEF RentalsTypeOK
    <2>7. orders[i].did \in Dids
        BY <2>1 DEF Orders
    <2> QED BY <1>6, <2>4, <2>5, <2>6, <2>7 DEF RentalsTypeOK, Cancel, LiveCards
<1>7. ASSUME NEW i \in DOMAIN orders, NEW d \in Dids, Swap(i, d) PROVE RentalsTypeOK'
    <2> DEFINE row == [orders[i] EXCEPT !.did = d]
    <2>1. orders[i] \in Orders
        BY DEF RentalsTypeOK
    <2>2. row \in Orders /\ row.card = orders[i].card
        BY <2>1 DEF Orders
    <2>3. orders' = [orders EXCEPT ![i] = row] /\ OneActivePerDid(orders')
        BY <1>7 DEF Swap, Accepts
    <2> HIDE DEF row
    <2>4. orders' \in Seq(Orders) /\ Len(orders') = Len(orders) /\ DOMAIN orders' = DOMAIN orders
        BY <2>2, <2>3, RowType DEF RentalsTypeOK
    <2>5. \A k \in DOMAIN orders : orders'[k].card \in DOMAIN cards
        BY <2>2, <2>3, <2>4 DEF RentalsTypeOK
    <2>6. orders[i].did \in Dids
        BY <2>1 DEF Orders
    <2> QED BY <1>7, <2>3, <2>4, <2>5, <2>6 DEF RentalsTypeOK, Swap, LiveCards
<1> QED BY <1>1, <1>2, <1>3, <1>4, <1>5, <1>6, <1>7 DEF OrderNext, CancelByReseller

\* The type invariant through every step of Rentals.
LEMMA RentalsTypeStep == RentalsInv /\ RentalsNext => RentalsTypeOK'
BY UserType, BundleType, OrderType, DidType, CardType DEF RentalsInv, RentalsNext

-----------------------------------------------------------------------------
(* What the steps do to the rows of orders *)

\* How a status may change.
Move(a, b) ==
    \/ a = b
    \/ a = "active" /\ b = "quarantined"
    \/ a \in {"quarantined", "kyc_pending"} /\ b = "active"
    \/ a \in Held /\ b = "cancelled"

\* A step that changes orders, or the status of a DID, is one of these.
LEMMA Movers ==
    ASSUME RentalsNext
    PROVE  \/ \E u \in Users : Block(u) \/ Unblock(u)
           \/ \E b \in Bundles : Approve(b)
           \/ \E c \in Clerks : CreateFinish(c) \/ EditWrite(c) \/ RetireWrite(c)
           \/ \E i \in DOMAIN orders : Cancel(i) \/ \E d \in Dids : Swap(i, d)
           \/ \E d \in Dids : Reserve(d) \/ Release(d)
           \/ UNCHANGED <<orders, didStatus, unguarded>>
<1>0. Editors \subseteq Clerks
    BY RentalsAssumption
<1>1. ASSUME UserNext PROVE (\E u \in Users : Block(u) \/ Unblock(u)) \/ UNCHANGED <<orders, didStatus, unguarded>>
    BY <1>1 DEF UserNext, UserCreate, UserSave, UserDelete, Topup, TopupByReseller, CallCharged
<1>2. ASSUME BundleNext PROVE (\E b \in Bundles : Approve(b)) \/ UNCHANGED <<orders, didStatus, unguarded>>
    BY <1>2 DEF BundleNext, BundleCreate, BundleCreateByReseller, Reject
<1>3. ASSUME OrderNext
      PROVE  \/ \E c \in Clerks : CreateFinish(c) \/ EditWrite(c)
             \/ \E i \in DOMAIN orders : Cancel(i) \/ \E d \in Dids : Swap(i, d)
             \/ UNCHANGED <<orders, didStatus, unguarded>>
    BY <1>0, <1>3 DEF OrderNext, CreateOpen, Abandon, EditOpen, CancelByReseller
<1>4. ASSUME DidNext
      PROVE  \/ \E c \in Clerks : RetireWrite(c)
             \/ \E d \in Dids : Reserve(d) \/ Release(d)
             \/ UNCHANGED <<orders, didStatus, unguarded>>
    BY <1>4 DEF DidNext, RetireOpen
<1>5. ASSUME CardNext PROVE UNCHANGED <<orders, didStatus, unguarded>>
    BY <1>5 DEF CardNext, RateCardCreate, RateCardCreateBulk, AddCard, RateCardExpire, PriceOpen, PriceWrite
<1> QED BY <1>1, <1>2, <1>3, <1>4, <1>5 DEF RentalsNext

\* Block, Unblock and Approve change nothing of a row but its status.
LEMMA StatusRows ==
    ASSUME RentalsTypeOK, NEW u \in Users, NEW b \in Bundles, Block(u) \/ Unblock(u) \/ Approve(b)
    PROVE  /\ DOMAIN orders' = DOMAIN orders
           /\ \A i \in DOMAIN orders :
                /\ orders[i] \in Orders
                /\ orders'[i].did = orders[i].did /\ orders'[i].user = orders[i].user
                /\ orders'[i].bundle = orders[i].bundle /\ orders'[i].bills = orders[i].bills
                /\ Block(u) => orders'[i].status =
                       IF orders[i].user = u /\ orders[i].status = "active" THEN "quarantined"
                       ELSE orders[i].status
                /\ Unblock(u) => orders'[i].status =
                       IF orders[i].user = u /\ orders[i].status = "quarantined" THEN "active"
                       ELSE orders[i].status
                /\ Approve(b) => orders'[i].status =
                       IF orders[i].bundle = b /\ orders[i].status = "kyc_pending" THEN "active"
                       ELSE orders[i].status
<1>1. \A i \in DOMAIN orders : orders[i] \in Orders
    BY DEF RentalsTypeOK
<1>2. DOMAIN orders' = DOMAIN orders
    BY DEF Block, Unblock, Approve
<1> SUFFICES ASSUME NEW i \in DOMAIN orders
             PROVE  /\ orders'[i].did = orders[i].did /\ orders'[i].user = orders[i].user
                    /\ orders'[i].bundle = orders[i].bundle /\ orders'[i].bills = orders[i].bills
                    /\ Block(u) => orders'[i].status =
                           IF orders[i].user = u /\ orders[i].status = "active" THEN "quarantined"
                           ELSE orders[i].status
                    /\ Unblock(u) => orders'[i].status =
                           IF orders[i].user = u /\ orders[i].status = "quarantined" THEN "active"
                           ELSE orders[i].status
                    /\ Approve(b) => orders'[i].status =
                           IF orders[i].bundle = b /\ orders[i].status = "kyc_pending" THEN "active"
                           ELSE orders[i].status
    BY <1>1, <1>2
<1>3. orders[i] \in Orders
    BY <1>1
<1> QED BY <1>3 DEF Block, Unblock, Restored, Approve, Orders

\* An edit changes one row.
LEMMA EditRow ==
    ASSUME RentalsInv, NEW c \in Clerks, EditWrite(c), NEW i, i = job[c].order
    PROVE  /\ i \in DOMAIN orders /\ DOMAIN orders' = DOMAIN orders
           /\ \A k \in DOMAIN orders \ {i} : orders'[k] = orders[k]
           /\ orders'[i].user = orders[i].user /\ orders'[i].bills = orders[i].bills
           /\ orders'[i].did = orders[i].did
           /\ orders'[i].bundle \in {orders[i].bundle, job[c].bundle}
           /\ orders'[i].status =
                IF EditActivates(orders[i], job[c].bundle) THEN "active" ELSE orders[i].status
<1> DEFINE row == Edited(orders[i], job[c])
<1>1. job[c] \in Jobs /\ job[c].kind = "edit" /\ i \in DOMAIN orders
    BY DEF EditWrite, RentalsInv, RentalsTypeOK, EditsAgree
<1>2. orders[i] \in Orders /\ orders \in Seq(Orders)
    BY <1>1 DEF RentalsInv, RentalsTypeOK
<1>3. /\ row.user = orders[i].user /\ row.bills = orders[i].bills /\ row.did = orders[i].did
      /\ row.bundle \in {orders[i].bundle, job[c].bundle}
      /\ row.status = IF EditActivates(orders[i], job[c].bundle) THEN "active" ELSE orders[i].status
    BY <1>1, <1>2, EditedType DEF RentalsInv
<1>4. orders' = [orders EXCEPT ![i] = row]
    BY DEF EditWrite
<1> HIDE DEF row
<1> QED BY <1>1, <1>2, <1>3, <1>4

\* So does a cancel.
LEMMA CancelRow ==
    ASSUME RentalsInv, NEW i \in DOMAIN orders, Cancel(i)
    PROVE  /\ DOMAIN orders' = DOMAIN orders
           /\ \A k \in DOMAIN orders \ {i} : orders'[k] = orders[k]
           /\ orders'[i].user = orders[i].user /\ orders'[i].bills = orders[i].bills
           /\ orders'[i].did = orders[i].did /\ orders'[i].bundle = orders[i].bundle
           /\ orders'[i].status = "cancelled"
<1>1. orders[i] \in Orders /\ orders \in Seq(Orders)
    BY DEF RentalsInv, RentalsTypeOK
<1>2. orders' = [orders EXCEPT ![i] = [orders[i] EXCEPT !.status = "cancelled"]]
    BY DEF Cancel
<1> QED BY <1>1, <1>2 DEF Orders

\* And so does a swap.
LEMMA SwapRow ==
    ASSUME RentalsInv, NEW i \in DOMAIN orders, NEW d \in Dids, Swap(i, d)
    PROVE  /\ DOMAIN orders' = DOMAIN orders
           /\ \A k \in DOMAIN orders \ {i} : orders'[k] = orders[k]
           /\ orders'[i].user = orders[i].user /\ orders'[i].bills = orders[i].bills
           /\ orders'[i].did = d /\ orders'[i].bundle = orders[i].bundle
           /\ orders'[i].status = orders[i].status
<1>1. orders[i] \in Orders /\ orders \in Seq(Orders)
    BY DEF RentalsInv, RentalsTypeOK
<1>2. orders' = [orders EXCEPT ![i] = [orders[i] EXCEPT !.did = d]]
    BY DEF Swap
<1> QED BY <1>1, <1>2 DEF Orders

\* A create adds one.
LEMMA CreateRow ==
    ASSUME RentalsInv, NEW c \in Clerks, CreateFinish(c), NEW n, n = Len(orders) + 1
    PROVE  /\ job[c] \in Jobs /\ job[c].kind = "create" /\ CreateAgrees(job[c])
           /\ job[c].did \in Dids /\ job[c].user \in Users /\ job[c].nrc \in Nat /\ job[c].cents \in Int
           /\ job[c].status \in {"active", "kyc_pending"}
           /\ n \notin DOMAIN orders /\ DOMAIN orders' = DOMAIN orders \cup {n}
           /\ \A k \in DOMAIN orders : orders'[k] = orders[k]
           /\ orders'[n].did = job[c].did /\ orders'[n].user = job[c].user
           /\ orders'[n].status = job[c].status /\ orders'[n].bundle = job[c].bundle
           /\ orders'[n].bills = 0
<1> DEFINE row == NewOrder(job[c])
<1>1. job[c] \in Jobs /\ job[c].kind = "create" /\ CreateAgrees(job[c])
    BY DEF CreateFinish, RentalsInv, RentalsTypeOK, CreatesAgree
<1>2. /\ row \in Orders
      /\ row.did = job[c].did /\ row.user = job[c].user
      /\ row.status = job[c].status /\ row.bundle = job[c].bundle /\ row.bills = 0
    BY <1>1, NewOrderType DEF RentalsInv
<1>3. orders' = Append(orders, row)
    BY DEF CreateFinish
<1> HIDE DEF row
<1>4. /\ n \notin DOMAIN orders /\ DOMAIN orders' = DOMAIN orders \cup {n}
      /\ \A k \in DOMAIN orders : orders'[k] = orders[k]
      /\ orders'[n] = row
    BY <1>2, <1>3, NewRowType DEF RentalsInv, RentalsTypeOK
<1> QED BY <1>1, <1>2, <1>4, JobFields

\* Whatever a step does to the rows there are: they keep their user and their months, a
\* bundle of that user, and become active, out of "kyc_pending", for a vetted customer only.
RowKept(i) ==
    /\ i \in DOMAIN orders'
    /\ orders'[i].user = orders[i].user /\ orders'[i].bills = orders[i].bills
    /\ Move(orders[i].status, orders'[i].status)
    /\ orders'[i].bundle \in Bundles => BundleUser[orders'[i].bundle] = orders[i].user
    /\ orders[i].status = "kyc_pending" /\ orders'[i].status = "active"
         => \E b \in vetted' : BundleUser[b] = orders[i].user

\* And a row a step adds is the one of a create.
RowNew(n) ==
    \E c \in Clerks :
        /\ CreateFinish(c) /\ n = Len(orders) + 1
        /\ CreateAgrees(job[c])
        /\ orders'[n].user = job[c].user /\ orders'[n].status = job[c].status
        /\ orders'[n].bundle = job[c].bundle

LEMMA RowsKept ==
    ASSUME RentalsInv, RentalsNext
    PROVE  /\ \A i \in DOMAIN orders : RowKept(i)
           /\ \A n \in DOMAIN orders' \ DOMAIN orders : RowNew(n)
<1>0. \A i \in DOMAIN orders : /\ orders[i] \in Orders /\ orders[i].status \in OrderStatus
                               /\ orders[i].bundle \in Bundles => BundleUser[orders[i].bundle] = orders[i].user
    <2>1. \A i \in DOMAIN orders : orders[i] \in Orders
        BY DEF RentalsInv, RentalsTypeOK
    <2> QED BY <2>1 DEF RentalsInv, KycGate, Orders
<1>1. ASSUME NEW u \in Users, Block(u) \/ Unblock(u)
      PROVE  /\ \A i \in DOMAIN orders : RowKept(i)
             /\ DOMAIN orders' = DOMAIN orders
    <2>1. DOMAIN orders' = DOMAIN orders
        BY <1>1 DEF Block, Unblock
    <2> SUFFICES ASSUME NEW i \in DOMAIN orders PROVE RowKept(i)
        BY <2>1
    <2>2. orders[i] \in Orders
        BY <1>0
    <2>3. /\ orders'[i].user = orders[i].user /\ orders'[i].bills = orders[i].bills
          /\ orders'[i].bundle = orders[i].bundle
          /\ \/ orders'[i].status = orders[i].status
             \/ orders[i].status = "active" /\ orders'[i].status = "quarantined"
             \/ orders[i].status = "quarantined" /\ orders'[i].status = "active"
        BY <1>1, <2>2 DEF Block, Unblock, Restored, Orders
    <2> QED BY <1>0, <2>1, <2>3 DEF RowKept, Move
<1>2. ASSUME NEW b \in Bundles, Approve(b)
      PROVE  /\ \A i \in DOMAIN orders : RowKept(i)
             /\ DOMAIN orders' = DOMAIN orders
    <2>1. DOMAIN orders' = DOMAIN orders /\ b \in vetted'
        BY <1>2 DEF Approve
    <2> SUFFICES ASSUME NEW i \in DOMAIN orders PROVE RowKept(i)
        BY <2>1
    <2>2. orders[i] \in Orders
        BY <1>0
    <2>3. /\ orders'[i].user = orders[i].user /\ orders'[i].bills = orders[i].bills
          /\ orders'[i].bundle = orders[i].bundle
          /\ \/ orders'[i].status = orders[i].status
             \/ /\ orders[i].status = "kyc_pending" /\ orders'[i].status = "active"
                /\ orders[i].bundle = b
        BY <1>2, <2>2 DEF Approve, Orders
    <2> QED BY <1>0, <2>1, <2>3 DEF RowKept, Move
<1>3. ASSUME NEW c \in Clerks, EditWrite(c)
      PROVE  /\ \A i \in DOMAIN orders : RowKept(i)
             /\ DOMAIN orders' = DOMAIN orders
    <2> DEFINE e == job[c].order
    <2>1. /\ e \in DOMAIN orders /\ DOMAIN orders' = DOMAIN orders
          /\ \A k \in DOMAIN orders \ {e} : orders'[k] = orders[k]
          /\ orders'[e].user = orders[e].user /\ orders'[e].bills = orders[e].bills
          /\ orders'[e].bundle \in {orders[e].bundle, job[c].bundle}
          /\ orders'[e].status =
               IF EditActivates(orders[e], job[c].bundle) THEN "active" ELSE orders[e].status
        BY <1>3, EditRow
    <2>2. /\ job[c].bundle \in Bundles => BundleUser[job[c].bundle] = orders[e].user
          /\ EditActivates(orders[e], job[c].bundle) =>
                orders[e].status = "kyc_pending" /\ job[c].bundle \in Bundles /\ job[c].bundle \in vetted'
        BY <1>3 DEF RentalsInv, EditsAgree, EditWrite, EditActivates, ApprovedVetted
    <2> HIDE DEF e
    <2>3. RowKept(e)
        BY <1>0, <2>1, <2>2 DEF RowKept, Move
    <2>4. \A k \in DOMAIN orders \ {e} : RowKept(k)
        BY <1>0, <2>1 DEF RowKept, Move
    <2> QED BY <2>1, <2>3, <2>4
<1>4. ASSUME NEW i \in DOMAIN orders, Cancel(i)
      PROVE  /\ \A k \in DOMAIN orders : RowKept(k)
             /\ DOMAIN orders' = DOMAIN orders
    <2>1. orders[i].status \in Held
        BY <1>4 DEF Cancel
    <2> QED BY <1>0, <1>4, <2>1, CancelRow DEF RowKept, Move, Held, Editable
<1>5. ASSUME NEW i \in DOMAIN orders, NEW d \in Dids, Swap(i, d)
      PROVE  /\ \A k \in DOMAIN orders : RowKept(k)
             /\ DOMAIN orders' = DOMAIN orders
    BY <1>0, <1>5, SwapRow DEF RowKept, Move
<1>6. ASSUME NEW c \in Clerks, CreateFinish(c)
      PROVE  /\ \A i \in DOMAIN orders : RowKept(i)
             /\ \A n \in DOMAIN orders' \ DOMAIN orders : RowNew(n)
    <2>1. /\ CreateAgrees(job[c]) /\ DOMAIN orders' = DOMAIN orders \cup {Len(orders) + 1}
          /\ \A k \in DOMAIN orders : orders'[k] = orders[k]
          /\ orders'[Len(orders) + 1].user = job[c].user
          /\ orders'[Len(orders) + 1].status = job[c].status
          /\ orders'[Len(orders) + 1].bundle = job[c].bundle
        BY <1>6, CreateRow
    <2>2. \A i \in DOMAIN orders : RowKept(i)
        BY <1>0, <2>1 DEF RowKept, Move
    <2>3. RowNew(Len(orders) + 1)
        BY <1>6, <2>1 DEF RowNew
    <2> QED BY <2>1, <2>2, <2>3
<1>7. ASSUME UNCHANGED orders
      PROVE  /\ \A i \in DOMAIN orders : RowKept(i)
             /\ DOMAIN orders' = DOMAIN orders
    BY <1>0, <1>7 DEF RowKept, Move
<1>8. \/ \E u \in Users : Block(u) \/ Unblock(u)
      \/ \E b \in Bundles : Approve(b)
      \/ \E c \in Clerks : CreateFinish(c) \/ EditWrite(c)
      \/ \E i \in DOMAIN orders : Cancel(i) \/ \E d \in Dids : Swap(i, d)
      \/ UNCHANGED orders
    BY Movers DEF RetireWrite, Reserve, Release
<1> QED BY <1>1, <1>2, <1>3, <1>4, <1>5, <1>6, <1>7, <1>8

-----------------------------------------------------------------------------
(* The parts of the invariant, one by one *)

\* What no handler of orders touches.
LEMMA OrderFrame ==
    OrderNext => /\ UNCHANGED <<userStatus, bundles, cards, now, vetted, overridden>>
                 /\ unguarded \subseteq unguarded'
<1> SUFFICES ASSUME OrderNext
             PROVE  /\ UNCHANGED <<userStatus, bundles, cards, now, vetted, overridden>>
                    /\ unguarded \subseteq unguarded'
    OBVIOUS
<1> DEFINE Same == UNCHANGED <<userStatus, bundles, cards, now, vetted, overridden>>
<1>1. ASSUME NEW c \in Clerks, CreateFinish(c) PROVE Same /\ unguarded \subseteq unguarded'
    <2>1. Same
        BY <1>1 DEF CreateFinish
    <2>2. unguarded' = unguarded \/ unguarded' = unguarded \cup {job[c].did}
        BY <1>1 DEF CreateFinish
    <2> QED BY <2>1, <2>2
<1>2. ASSUME NEW c, EditWrite(c) PROVE Same /\ unguarded' = unguarded
    BY <1>2 DEF EditWrite
<1>3. ASSUME NEW i, Cancel(i) PROVE Same /\ unguarded' = unguarded
    BY <1>3 DEF Cancel
<1>4. ASSUME NEW i, NEW d, Swap(i, d) PROVE Same /\ unguarded' = unguarded
    BY <1>4 DEF Swap
<1>5. ASSUME NEW c, NEW via, NEW u, NEW d, NEW b, NEW n, NEW day, CreateOpen(c, via, u, d, b, n, day)
      PROVE  Same /\ unguarded' = unguarded
    BY <1>5 DEF CreateOpen
<1>6. ASSUME NEW c, NEW via, NEW i, NEW n, NEW day, NEW b, EditOpen(c, via, i, n, day, b)
      PROVE  Same /\ unguarded' = unguarded
    BY <1>6 DEF EditOpen
<1>7. ASSUME NEW c, Abandon(c) PROVE Same /\ unguarded' = unguarded
    BY <1>7 DEF Abandon
<1> HIDE DEF Same
<1>8. Same /\ unguarded \subseteq unguarded'
    BY <1>1, <1>2, <1>3, <1>4, <1>5, <1>6, <1>7 DEF OrderNext, CancelByReseller
<1> QED BY <1>8 DEF Same

\* The histories only grow, cards and orders are never deleted, and nobody who exists
\* ceases to, but by being deleted.
LEMMA Grows ==
    ASSUME RentalsInv, RentalsNext
    PROVE  /\ vetted \subseteq vetted' /\ overridden \subseteq overridden' /\ unguarded \subseteq unguarded'
           /\ DOMAIN cards \subseteq DOMAIN cards'
           /\ \A u \in Users : Exists(u) => Exists(u)' \/ UserDelete(u)
<1>0. userStatus \in [Users -> {"none", "active", "inactive", "deleted"}] /\ cards \in Seq(Cards)
    BY DEF RentalsInv, RentalsTypeOK
<1>1. ASSUME UserNext
      PROVE  /\ vetted \subseteq vetted' /\ overridden \subseteq overridden' /\ unguarded \subseteq unguarded'
             /\ cards' = cards
             /\ \A u \in Users : Exists(u) => Exists(u)' \/ UserDelete(u)
    <2> SUFFICES ASSUME NEW u \in Users,
                        \/ UserCreate(u)
                        \/ \E s \in {"active", "inactive"} : UserSave(u, s)
                        \/ UserDelete(u)
                        \/ \E cents \in Topups : Topup(u, cents)
                        \/ \E cents \in CallCosts : CallCharged(u, cents)
                        \/ Block(u)
                        \/ Unblock(u)
                 PROVE  /\ vetted \subseteq vetted' /\ overridden \subseteq overridden'
                        /\ unguarded \subseteq unguarded' /\ cards' = cards
                        /\ \A w \in Users : Exists(w) => Exists(w)' \/ UserDelete(w)
        BY <1>1 DEF UserNext, TopupByReseller
    <2>1. /\ vetted \subseteq vetted' /\ overridden \subseteq overridden'
          /\ unguarded \subseteq unguarded' /\ cards' = cards
        BY DEF UserCreate, UserSave, UserDelete, Topup, CallCharged, Block, Unblock
    <2>2. \A w \in Users \ {u} : userStatus'[w] = userStatus[w]
        BY <1>0 DEF UserCreate, UserSave, UserDelete, Topup, CallCharged, Block, Unblock
    <2>3. UserDelete(u) \/ userStatus'[u] \in {"active", "inactive"} \/ userStatus'[u] = userStatus[u]
        BY <1>0 DEF UserCreate, UserSave, UserDelete, Topup, CallCharged, Block, Unblock
    <2> QED BY <2>1, <2>2, <2>3 DEF Exists
<1>2. ASSUME BundleNext
      PROVE  /\ vetted \subseteq vetted' /\ UNCHANGED <<overridden, unguarded, cards, userStatus>>
    BY <1>2 DEF BundleNext, BundleCreate, BundleCreateByReseller, Approve, Reject
<1>3. ASSUME OrderNext
      PROVE  /\ unguarded \subseteq unguarded' /\ UNCHANGED <<vetted, overridden, cards, userStatus>>
    BY <1>3, OrderFrame
<1>4. ASSUME DidNext
      PROVE  /\ unguarded \subseteq unguarded' /\ UNCHANGED <<vetted, overridden, cards, userStatus>>
    BY <1>4 DEF DidNext, RetireOpen, RetireWrite, Reserve, Release
<1>5. ASSUME CardNext
      PROVE  /\ DOMAIN cards \subseteq DOMAIN cards'
             /\ UNCHANGED <<vetted, overridden, unguarded, userStatus>>
    <2>1. UNCHANGED <<vetted, overridden, unguarded, userStatus>>
        BY <1>5 DEF CardNext, RateCardCreate, RateCardCreateBulk, AddCard, RateCardExpire, PriceOpen,
                    PriceWrite
    <2>2. ASSUME NEW price, AddCard(price) PROVE DOMAIN cards \subseteq DOMAIN cards'
        BY <1>0, <2>2 DEF AddCard
    <2>3. ASSUME NEW i \in DOMAIN cards, RateCardExpire(i) PROVE DOMAIN cards \subseteq DOMAIN cards'
        BY <2>3 DEF RateCardExpire
    <2>4. ASSUME NEW c \in Editors, PriceWrite(c) PROVE DOMAIN cards \subseteq DOMAIN cards'
        BY <2>4 DEF PriceWrite
    <2>5. ASSUME NEW c \in Editors, NEW i \in DOMAIN cards, NEW p \in Prices, PriceOpen(c, i, p)
          PROVE  DOMAIN cards \subseteq DOMAIN cards'
        BY <2>5 DEF PriceOpen
    <2> QED BY <1>5, <2>1, <2>2, <2>3, <2>4, <2>5 DEF CardNext, RateCardCreate, RateCardCreateBulk
<1> QED BY <1>1, <1>2, <1>3, <1>4, <1>5 DEF RentalsNext, Exists

\* The KYC gate, through every step.
LEMMA KycStep == RentalsInv /\ RentalsNext => KycGate'
<1> SUFFICES ASSUME RentalsInv, RentalsNext PROVE KycGate'
    OBVIOUS
<1>1. vetted \subseteq vetted' /\ vetted \subseteq Bundles
    BY Grows DEF RentalsInv, RentalsTypeOK
<1>2. ASSUME NEW i \in DOMAIN orders
      PROVE  /\ orders'[i].status \in {"active", "quarantined", "suspended"}
                   => \E b \in vetted' : BundleUser[b] = orders'[i].user
             /\ orders'[i].bundle \in Bundles => BundleUser[orders'[i].bundle] = orders'[i].user
    <2>1. RowKept(i)
        BY RowsKept
    <2>2. orders[i].status \in {"active", "quarantined", "suspended"}
              => \E b \in vetted : BundleUser[b] = orders[i].user
        BY DEF RentalsInv, KycGate
    <2> QED BY <1>1, <2>1, <2>2 DEF RowKept, Move
<1>3. ASSUME NEW n \in DOMAIN orders' \ DOMAIN orders
      PROVE  /\ orders'[n].status \in {"active", "quarantined", "suspended"}
                   => \E b \in vetted' : BundleUser[b] = orders'[n].user
             /\ orders'[n].bundle \in Bundles => BundleUser[orders'[n].bundle] = orders'[n].user
    <2>1. PICK c \in Clerks : /\ CreateAgrees(job[c]) /\ CreateFinish(c)
                              /\ orders'[n].user = job[c].user /\ orders'[n].status = job[c].status
                              /\ orders'[n].bundle = job[c].bundle
        BY RowsKept DEF RowNew
    <2>2. job[c].status \in {"active", "kyc_pending"}
        BY <2>1, CreateRow
    <2> QED BY <1>1, <2>1, <2>2 DEF CreateAgrees
<1> QED BY <1>2, <1>3 DEF KycGate

\* What is approved was vetted, and every order's user exists, through every step.
LEMMA VettedStep == RentalsInv /\ RentalsNext => ApprovedVetted' /\ OwnersExist'
<1> SUFFICES ASSUME RentalsInv, RentalsNext PROVE ApprovedVetted' /\ OwnersExist'
    OBVIOUS
<1>1. ApprovedVetted'
    <2>0. bundles \in [Bundles -> {"none", "pending", "approved", "rejected"}] /\ ApprovedVetted
        BY DEF RentalsInv, RentalsTypeOK
    <2>1. ASSUME UserNext
          PROVE  \A b \in Bundles : bundles'[b] = "approved" => bundles[b] = "approved"
        BY <2>0, <2>1 DEF UserNext, UserCreate, UserSave, UserDelete, Topup, TopupByReseller,
                          CallCharged, Block, Unblock
    <2>2. ASSUME BundleNext PROVE ApprovedVetted'
        BY <2>0, <2>2 DEF BundleNext, BundleCreate, BundleCreateByReseller, Approve, Reject, ApprovedVetted
    <2>3. ASSUME OrderNext PROVE bundles' = bundles
        BY <2>3, OrderFrame
    <2>4. ASSUME DidNext \/ CardNext PROVE bundles' = bundles
        BY <2>4 DEF DidNext, RetireOpen, RetireWrite, Reserve, Release, CardNext, RateCardCreate,
                    RateCardCreateBulk, AddCard, RateCardExpire, PriceOpen, PriceWrite
    <2>5. vetted \subseteq vetted'
        BY Grows
    <2>6. ASSUME bundles' = bundles PROVE ApprovedVetted'
        BY <2>0, <2>5, <2>6 DEF ApprovedVetted
    <2>7. CASE UserNext
        BY <2>0, <2>1, <2>5, <2>7 DEF ApprovedVetted
    <2> QED BY <2>2, <2>3, <2>4, <2>6, <2>7 DEF RentalsNext
<1>2. ASSUME NEW i \in DOMAIN orders PROVE userStatus'[orders'[i].user] \in {"active", "inactive"}
    <2>1. orders'[i].user = orders[i].user /\ orders[i].user \in Users /\ Exists(orders[i].user)
        <3>1. orders[i] \in Orders
            BY DEF RentalsInv, RentalsTypeOK
        <3> QED BY <3>1, RowsKept DEF RowKept, RentalsInv, OwnersExist, Orders
    <2>2. ~UserDelete(orders[i].user)
        BY DEF UserDelete
    <2>3. Exists(orders[i].user)'
        BY <2>1, <2>2, Grows
    <2> QED BY <2>1, <2>3 DEF Exists
<1>3. ASSUME NEW n \in DOMAIN orders' \ DOMAIN orders PROVE userStatus'[orders'[n].user] \in {"active", "inactive"}
    <2>1. PICK c \in Clerks : CreateAgrees(job[c]) /\ CreateFinish(c) /\ orders'[n].user = job[c].user
        BY RowsKept DEF RowNew
    <2> QED BY <2>1 DEF CreateAgrees, CreateFinish, Exists
<1> QED BY <1>1, <1>2, <1>3 DEF OwnersExist, Exists

\* Who changes a balance: nobody whose user a create has locked, but that create.
LEMMA BalanceMoves ==
    ASSUME RentalsInv, RentalsNext
    PROVE  \/ balance' = balance /\ ledger' = ledger
           \/ \E u \in Users, delta \in Int : ~Locked(u) /\ Book(u, delta, balance[u] + delta)
           \/ \E u \in Users : UserDelete(u)
           \/ \E c \in Clerks : CreateFinish(c)
<1>0. balance \in [Users -> Int] /\ Topups \subseteq Int /\ CallCosts \subseteq Int
    BY RentalsAssumption DEF RentalsInv, RentalsTypeOK
<1>1. ASSUME NEW u \in Users, NEW cents \in Topups, Topup(u, cents)
      PROVE  cents \in Int /\ ~Locked(u) /\ Book(u, cents, balance[u] + cents)
    BY <1>0, <1>1 DEF Topup, UserFree
<1>2. ASSUME NEW u \in Users, NEW cents \in CallCosts, CallCharged(u, cents)
      PROVE  -cents \in Int /\ ~Locked(u) /\ Book(u, -cents, balance[u] + (-cents))
    <2>1. -cents \in Int /\ balance[u] - cents = balance[u] + (-cents)
        BY <1>0
    <2>2. ~Locked(u) /\ Book(u, -cents, balance[u] - cents)
        BY <1>2 DEF CallCharged, UserFree
    <2> QED BY <2>1, <2>2
<1>3. ASSUME NEW u \in Users,
             UserCreate(u) \/ (\E s \in {"active", "inactive"} : UserSave(u, s)) \/ Block(u) \/ Unblock(u)
      PROVE  balance' = balance /\ ledger' = ledger
    BY <1>3 DEF UserCreate, UserSave, Block, Unblock
<1>4. ASSUME BundleNext PROVE balance' = balance /\ ledger' = ledger
    BY <1>4 DEF BundleNext, BundleCreate, BundleCreateByReseller, Approve, Reject
<1>5. ASSUME OrderNext PROVE (balance' = balance /\ ledger' = ledger) \/ \E c \in Clerks : CreateFinish(c)
    <2>1. ASSUME NEW c, EditWrite(c) PROVE balance' = balance /\ ledger' = ledger
        BY <2>1 DEF EditWrite
    <2>2. ASSUME NEW i, Cancel(i) PROVE balance' = balance /\ ledger' = ledger
        BY <2>2 DEF Cancel
    <2>3. ASSUME NEW i, NEW d, Swap(i, d) PROVE balance' = balance /\ ledger' = ledger
        BY <2>3 DEF Swap
    <2>4. ASSUME NEW c, NEW via, NEW u, NEW d, NEW b, NEW n, NEW day, CreateOpen(c, via, u, d, b, n, day)
          PROVE  balance' = balance /\ ledger' = ledger
        BY <2>4 DEF CreateOpen
    <2>5. ASSUME NEW c, NEW via, NEW i, NEW n, NEW day, NEW b, EditOpen(c, via, i, n, day, b)
          PROVE  balance' = balance /\ ledger' = ledger
        BY <2>5 DEF EditOpen
    <2>6. ASSUME NEW c, Abandon(c) PROVE balance' = balance /\ ledger' = ledger
        BY <2>6 DEF Abandon
    <2> QED BY <1>5, <2>1, <2>2, <2>3, <2>4, <2>5, <2>6 DEF OrderNext, CancelByReseller
<1>6. ASSUME DidNext \/ CardNext PROVE balance' = balance /\ ledger' = ledger
    BY <1>6 DEF DidNext, RetireOpen, RetireWrite, Reserve, Release, CardNext, RateCardCreate,
                RateCardCreateBulk, AddCard, RateCardExpire, PriceOpen, PriceWrite
<1>7. ASSUME UserNext
      PROVE  \/ balance' = balance /\ ledger' = ledger
             \/ \E u \in Users, delta \in Int : ~Locked(u) /\ Book(u, delta, balance[u] + delta)
             \/ \E u \in Users : UserDelete(u)
    BY <1>1, <1>2, <1>3, <1>7 DEF UserNext, TopupByReseller
<1> QED BY <1>4, <1>5, <1>6, <1>7 DEF RentalsNext

\* A posting of what the balance changed by keeps the ledger in step with it.
LEMMA BookBalances ==
    ASSUME RentalsInv, NEW u \in Users, NEW delta \in Int, NEW cents \in Int,
           cents = balance[u] + delta, Book(u, delta, cents)
    PROVE  /\ LedgerBalances'
           /\ \A w \in Users \ {u} : balance'[w] = balance[w]
           /\ balance'[u] = cents
<1>1. balance \in [Users -> Int] /\ ledger \in [Users -> Lines] /\ LedgerBalances
    BY DEF RentalsInv, RentalsTypeOK
<1>2. ledger[u].sum \in Int
    BY <1>1 DEF Lines
<1>3. /\ \A w \in Users \ {u} : balance'[w] = balance[w] /\ ledger'[w] = ledger[w]
      /\ balance'[u] = cents /\ ledger'[u].sum = ledger[u].sum + delta /\ ledger'[u].after = cents
    BY <1>1 DEF Book
<1> QED BY <1>1, <1>2, <1>3 DEF LedgerBalances

\* The NRC of a create is taken from the balance the create has locked.
LEMMA CreatePays ==
    ASSUME RentalsInv, NEW c \in Clerks, CreateFinish(c)
    PROVE  /\ LedgerBalances'
           /\ \A w \in Users \ {job[c].user} : balance'[w] = balance[w]
           /\ balance'[job[c].user] >= 0
<1>1. /\ job[c].user \in Users /\ job[c].nrc \in Nat /\ job[c].cents \in Int
      /\ job[c].cents = balance[job[c].user] /\ job[c].nrc <= job[c].cents
    BY CreateRow DEF CreateAgrees
<1>2. CASE job[c].nrc > 0
    <2> DEFINE left == job[c].cents - job[c].nrc
    <2>1. Book(job[c].user, -job[c].nrc, left)
        BY <1>2 DEF CreateFinish
    <2>2. -job[c].nrc \in Int /\ left \in Int /\ left = balance[job[c].user] + (-job[c].nrc) /\ left >= 0
        BY <1>1
    <2> HIDE DEF left
    <2> QED BY <1>1, <2>1, <2>2, BookBalances
<1>3. CASE ~(job[c].nrc > 0)
    <2>1. balance' = balance /\ ledger' = ledger
        BY <1>3 DEF CreateFinish
    <2>2. LedgerBalances
        BY DEF RentalsInv
    <2> QED BY <1>1, <2>1, <2>2 DEF LedgerBalances
<1> QED BY <1>2, <1>3

\* The ledger agrees with the balances, through every step.
LEMMA LedgerStep == RentalsInv /\ RentalsNext => LedgerBalances'
<1> SUFFICES ASSUME RentalsInv, RentalsNext PROVE LedgerBalances'
    OBVIOUS
<1>0. balance \in [Users -> Int] /\ ledger \in [Users -> Lines] /\ LedgerBalances
    BY DEF RentalsInv, RentalsTypeOK
<1>1. CASE balance' = balance /\ ledger' = ledger
    BY <1>0, <1>1 DEF LedgerBalances
<1>2. ASSUME NEW u \in Users, NEW delta \in Int, Book(u, delta, balance[u] + delta) PROVE LedgerBalances'
    <2>1. balance[u] + delta \in Int
        BY <1>0
    <2> QED BY <1>2, <2>1, BookBalances
<1>3. ASSUME NEW u \in Users, UserDelete(u) PROVE LedgerBalances'
    BY <1>0, <1>3 DEF UserDelete, LedgerBalances
<1> QED BY <1>1, <1>2, <1>3, BalanceMoves, CreatePays

\* A create that goes on finds the balance it locked, and its user.
LEMMA LockKept ==
    ASSUME RentalsInv, RentalsNext, NEW c \in Clerks, job[c].kind = "create", job'[c] = job[c]
    PROVE  CreateAgrees(job[c])'
<1> DEFINE u == job[c].user
<1>1. u \in Users /\ Locked(u) /\ CreateAgrees(job[c])
    <2>1. job[c] \in Jobs
        BY DEF RentalsInv, RentalsTypeOK
    <2> QED BY <2>1, JobFields DEF Locked, RentalsInv, CreatesAgree
<1>2. ~UserDelete(u)
    BY <1>1 DEF UserDelete, UserFree
<1>3. balance'[u] = balance[u]
    <2>0. balance \in [Users -> Int] /\ job \in [Clerks -> Jobs]
        BY DEF RentalsInv, RentalsTypeOK
    <2>1. ASSUME NEW w \in Users, NEW delta \in Int, ~Locked(w), Book(w, delta, balance[w] + delta)
          PROVE  balance'[u] = balance[u]
        BY <1>1, <2>0, <2>1 DEF Book
    <2>2. ASSUME NEW w \in Users, UserDelete(w) PROVE balance'[u] = balance[u]
        BY <1>1, <1>2, <2>0, <2>2 DEF UserDelete
    <2>3. ASSUME NEW e \in Clerks, CreateFinish(e) PROVE balance'[u] = balance[u]
        <3>1. job'[e] = Idle /\ job[e].kind = "create"
            BY <2>0, <2>3 DEF CreateFinish
        <3>2. e # c
            BY <3>1 DEF Idle
        <3>3. job[e].user # u
            BY <3>1, <3>2 DEF RentalsInv, OneCreate
        <3> QED BY <1>1, <2>3, <3>3, CreatePays
    <2> QED BY <2>1, <2>2, <2>3, BalanceMoves
<1>4. Exists(u)' /\ DOMAIN cards \subseteq DOMAIN cards' /\ vetted \subseteq vetted'
    BY <1>1, <1>2, Grows DEF CreateAgrees
<1> HIDE DEF u
<1>5. CreateAgrees(job[c])
    BY <1>1
<1> QED BY <1>3, <1>4, <1>5 DEF CreateAgrees, u, Exists

\* How the requests in hand change: at most one opens, or ends.
LEMMA JobMoves ==
    ASSUME RentalsInv, RentalsNext
    PROVE  \/ job' = job
           \/ \E c \in Clerks : job' = [job EXCEPT ![c] = Idle]
           \/ \E c \in Clerks, via \in {"gui", "api"}, u \in Users, d \in Dids,
                 b \in Bundles \cup {NoBundle}, n \in Channels, day \in Days :
                    CreateOpen(c, via, u, d, b, n, day)
           \/ \E c \in Clerks, via \in {"gui", "api"}, i \in DOMAIN orders :
                 \E n \in Channels \cup {orders[i].channels}, day \in Days, b \in Bundles \cup {NoBundle} :
                    EditOpen(c, via, i, n, day, b)
           \/ \E c \in Clerks, d \in Dids : RetireOpen(c, d)
           \/ \E c \in Clerks, i \in DOMAIN cards, p \in Prices : PriceOpen(c, i, p)
<1>0. Editors \subseteq Clerks
    BY RentalsAssumption
<1>1. ASSUME UserNext \/ BundleNext PROVE job' = job
    BY <1>1 DEF UserNext, UserCreate, UserSave, UserDelete, Topup, TopupByReseller, CallCharged, Block,
                Unblock, BundleNext, BundleCreate, BundleCreateByReseller, Approve, Reject
<1>2. ASSUME NEW c, CreateFinish(c) \/ Abandon(c) PROVE job' = [job EXCEPT ![c] = Idle]
    BY <1>2 DEF CreateFinish, Abandon
<1>3. ASSUME NEW c, EditWrite(c) PROVE job' = [job EXCEPT ![c] = Idle]
    BY <1>3 DEF EditWrite
<1>4. ASSUME NEW i, Cancel(i) PROVE job' = job
    BY <1>4 DEF Cancel
<1>5. ASSUME NEW i, NEW d, Swap(i, d) PROVE job' = job
    BY <1>5 DEF Swap
<1>6. CASE OrderNext
    BY <1>0, <1>2, <1>3, <1>4, <1>5, <1>6 DEF OrderNext, CancelByReseller
<1>7. CASE DidNext
    <2>1. ASSUME NEW c, RetireWrite(c) PROVE job' = [job EXCEPT ![c] = Idle]
        BY <2>1 DEF RetireWrite
    <2>2. ASSUME NEW d, Reserve(d) \/ Release(d) PROVE job' = job
        BY <2>2 DEF Reserve, Release
    <2> QED BY <1>7, <2>1, <2>2 DEF DidNext
<1>8. CASE CardNext
    <2>1. ASSUME NEW c, PriceWrite(c) PROVE job' = [job EXCEPT ![c] = Idle]
        BY <2>1 DEF PriceWrite
    <2>2. ASSUME NEW p, RateCardCreate(p) \/ RateCardCreateBulk(p) PROVE job' = job
        BY <2>2 DEF RateCardCreate, RateCardCreateBulk, AddCard
    <2>3. ASSUME NEW i, RateCardExpire(i) PROVE job' = job
        BY <2>3 DEF RateCardExpire
    <2> QED BY <1>0, <1>8, <2>1, <2>2, <2>3 DEF CardNext
<1> QED BY <1>1, <1>6, <1>7, <1>8 DEF RentalsNext

\* What a request in hand is about is still there when it goes on.
JobAgrees(c) ==
    /\ job[c].kind = "create" =>
          /\ CreateAgrees(job[c])
          /\ \A e \in Clerks : job[e].kind = "create" /\ job[e].user = job[c].user => e = c
    /\ job[c].kind = "edit" =>
          /\ job[c].order \in DOMAIN orders
          /\ job[c].bundle \in Bundles => BundleUser[job[c].bundle] = orders[job[c].order].user
    /\ job[c].kind = "price" => job[c].card \in DOMAIN cards

LEMMA JobsAgree == CreatesAgree /\ OneCreate /\ EditsAgree <=> \A c \in Clerks : JobAgrees(c)
BY DEF CreatesAgree, OneCreate, EditsAgree, JobAgrees

LEMMA JobsStep == RentalsInv /\ RentalsNext => CreatesAgree' /\ OneCreate' /\ EditsAgree'
<1> SUFFICES ASSUME RentalsInv, RentalsNext PROVE \A c \in Clerks : JobAgrees(c)'
    BY DEF CreatesAgree, OneCreate, EditsAgree, JobAgrees
<1>0. job \in [Clerks -> Jobs] /\ \A c \in Clerks : JobAgrees(c)
    BY JobsAgree DEF RentalsInv, RentalsTypeOK
\* A job that stays agrees as before; only another create could disturb that.
<1>1. ASSUME NEW c \in Clerks, job'[c] = job[c],
             \A e \in Clerks : job'[e].kind = "create" =>
                 job'[e] = job[e] \/ (job[c].kind = "create" => job'[e].user # job[c].user)
      PROVE  JobAgrees(c)'
    <2>1. job[c].kind = "create" => CreateAgrees(job[c])'
        BY <1>1, LockKept
    <2>2. job[c].kind = "create" =>
              \A e \in Clerks : job'[e].kind = "create" /\ job'[e].user = job[c].user => e = c
        BY <1>0, <1>1 DEF JobAgrees
    <2>3. ASSUME job[c].kind = "edit"
          PROVE  /\ job[c].order \in DOMAIN orders'
                 /\ job[c].bundle \in Bundles => BundleUser[job[c].bundle] = orders'[job[c].order].user
        <3>1. /\ job[c].order \in DOMAIN orders
              /\ job[c].bundle \in Bundles => BundleUser[job[c].bundle] = orders[job[c].order].user
            BY <1>0, <2>3 DEF JobAgrees
        <3>2. RowKept(job[c].order)
            BY <3>1, RowsKept
        <3> QED BY <3>1, <3>2 DEF RowKept
    <2>4. job[c].kind = "price" => job[c].card \in DOMAIN cards'
        BY <1>0, Grows DEF JobAgrees
    <2> QED BY <1>1, <2>1, <2>2, <2>3, <2>4 DEF JobAgrees, CreateAgrees
\* One that has just been opened, or has ended, and the others beside it.
<1>2. ASSUME NEW c \in Clerks, NEW j, job' = [job EXCEPT ![c] = j], j.kind # "create", JobAgrees(c)'
      PROVE  \A e \in Clerks : JobAgrees(e)'
    <2>1. \A e \in Clerks \ {c} : job'[e] = job[e]
        BY <1>0, <1>2
    <2>2. job'[c] = j
        BY <1>0, <1>2
    <2>3. \A e \in Clerks : job'[e].kind = "create" => job'[e] = job[e]
        BY <1>2, <2>1, <2>2
    <2> QED BY <1>1, <1>2, <2>1, <2>3
<1>3. CASE job' = job
    BY <1>1, <1>3
<1>4. ASSUME NEW c \in Clerks, job' = [job EXCEPT ![c] = Idle] PROVE \A e \in Clerks : JobAgrees(e)'
    <2>1. job'[c] = Idle /\ Idle.kind = "idle"
        BY <1>0, <1>4 DEF Idle
    <2>2. JobAgrees(c)'
        BY <2>1 DEF JobAgrees
    <2> QED BY <1>2, <1>4, <2>1, <2>2
<1>5. ASSUME NEW c \in Clerks, NEW d \in Dids, RetireOpen(c, d) PROVE \A e \in Clerks : JobAgrees(e)'
    <2> DEFINE j == [kind |-> "retire", did |-> d]
    <2>1. job' = [job EXCEPT ![c] = j]
        BY <1>5 DEF RetireOpen
    <2>2. JobAgrees(c)'
        BY <1>0, <2>1 DEF JobAgrees
    <2>9. j.kind # "create"
        OBVIOUS
    <2> HIDE DEF j
    <2> QED BY <1>2, <2>1, <2>2, <2>9
<1>6. ASSUME NEW c \in Clerks, NEW i \in DOMAIN cards, NEW p \in Prices, PriceOpen(c, i, p)
      PROVE  \A e \in Clerks : JobAgrees(e)'
    <2> DEFINE j == [kind |-> "price", card |-> i, price |-> p]
    <2>1. job' = [job EXCEPT ![c] = j]
        BY <1>6 DEF PriceOpen
    <2>2. JobAgrees(c)'
        BY <1>0, <2>1, Grows DEF JobAgrees
    <2>9. j.kind # "create"
        OBVIOUS
    <2> HIDE DEF j
    <2> QED BY <1>2, <2>1, <2>2, <2>9
<1>7. ASSUME NEW c \in Clerks, NEW via \in {"gui", "api"}, NEW i \in DOMAIN orders,
             NEW n \in Channels \cup {orders[i].channels}, NEW day \in Days,
             NEW b \in Bundles \cup {NoBundle}, EditOpen(c, via, i, n, day, b)
      PROVE  \A e \in Clerks : JobAgrees(e)'
    <2> DEFINE j == [kind |-> "edit", via |-> via, order |-> i, channels |-> n, day |-> day, bundle |-> b]
    <2>1. job' = [job EXCEPT ![c] = j]
        BY <1>7 DEF EditOpen
    <2>2. orders' = orders /\ (b \in Bundles => BundleUser[b] = orders[i].user)
        BY <1>7, RentalsAssumption DEF EditOpen, BundlesOf
    <2>3. JobAgrees(c)'
        BY <1>0, <2>1, <2>2 DEF JobAgrees
    <2>9. j.kind # "create"
        OBVIOUS
    <2> HIDE DEF j
    <2> QED BY <1>2, <2>1, <2>3, <2>9
<1>8. ASSUME NEW c \in Clerks, NEW via \in {"gui", "api"}, NEW u \in Users, NEW d \in Dids,
             NEW b \in Bundles \cup {NoBundle}, NEW n \in Channels, NEW day \in Days,
             CreateOpen(c, via, u, d, b, n, day)
      PROVE  \A e \in Clerks : JobAgrees(e)'
    <2>1. PICK i \in LiveCards :
              /\ Pays(u, cards[i].price.nrc)
              /\ job' = [job EXCEPT ![c] =
                   [kind |-> "create", via |-> via, did |-> d, user |-> u, card |-> i,
                    nrc |-> cards[i].price.nrc, cents |-> balance[u], bundle |-> b,
                    status |-> IF b \in Bundles /\ bundles[b] = "approved" THEN "active" ELSE "kyc_pending",
                    channels |-> n, day |-> day]]
        BY <1>8 DEF CreateOpen
    <2>2. /\ job'[c].kind = "create" /\ job'[c].user = u /\ job'[c].cents = balance[u]
          /\ job'[c].nrc = cards[i].price.nrc /\ job'[c].card = i /\ job'[c].bundle = b
          /\ job'[c].status = "active" => b \in Bundles /\ bundles[b] = "approved"
          /\ \A e \in Clerks \ {c} : job'[e] = job[e]
        BY <1>0, <2>1
    <2>3. ~Locked(u) /\ Exists(u) /\ UNCHANGED <<balance, userStatus, cards, vetted>>
          /\ (b \in Bundles => BundleUser[b] = u)
        BY <1>8, RentalsAssumption DEF CreateOpen, UserFree, BundlesOf
    <2>4. cards[i].price.nrc <= balance[u] /\ i \in DOMAIN cards
        <3>1. i \in DOMAIN cards /\ cards[i] \in Cards /\ balance[u] \in Int
            BY DEF LiveCards, RentalsInv, RentalsTypeOK
        <3> QED BY <2>1, <3>1 DEF Pays, Cards
    <2>5. CreateAgrees(job[c])'
        <3>1. job'[c].status = "active" => b \in vetted
            BY <2>2 DEF RentalsInv, ApprovedVetted
        <3> QED BY <2>2, <2>3, <2>4, <3>1 DEF CreateAgrees, Exists
    <2>6. \A e \in Clerks \ {c} : job[e].kind = "create" => job[e].user # u
        BY <2>3 DEF Locked
    <2>7. JobAgrees(c)'
        BY <2>2, <2>5, <2>6 DEF JobAgrees
    <2>8. ASSUME NEW e \in Clerks \ {c} PROVE JobAgrees(e)'
        BY <1>1, <2>2, <2>6
    <2> QED BY <2>7, <2>8
<1> QED BY <1>3, <1>4, <1>5, <1>6, <1>7, <1>8, JobMoves

\* Who becomes active: a new user, one the form made so, and one that is unblocked.
LEMMA Activates ==
    ASSUME RentalsInv, RentalsNext, NEW u \in Users, userStatus'[u] = "active", u \notin overridden'
    PROVE  userStatus[u] = "active" \/ userStatus[u] = "none" \/ Unblock(u)
<1>0. userStatus \in [Users -> {"none", "active", "inactive", "deleted"}]
    BY DEF RentalsInv, RentalsTypeOK
<1>1. CASE UserNext
    <2> SUFFICES ASSUME NEW w \in Users,
                        \/ UserCreate(w)
                        \/ \E s \in {"active", "inactive"} : UserSave(w, s)
                        \/ UserDelete(w)
                        \/ \E cents \in Topups : Topup(w, cents)
                        \/ \E cents \in CallCosts : CallCharged(w, cents)
                        \/ Block(w)
                        \/ Unblock(w)
                 PROVE  userStatus[u] = "active" \/ userStatus[u] = "none" \/ Unblock(u)
        BY <1>1 DEF UserNext, TopupByReseller
    <2>1. CASE w = u
        BY <1>0, <2>1 DEF UserCreate, UserSave, UserDelete, Topup, CallCharged, Block
    <2>2. CASE w # u
        BY <1>0, <2>2 DEF UserCreate, UserSave, UserDelete, Topup, CallCharged, Block, Unblock
    <2> QED BY <2>1, <2>2
<1>2. ASSUME BundleNext PROVE userStatus' = userStatus
    BY <1>2 DEF BundleNext, BundleCreate, BundleCreateByReseller, Approve, Reject
<1>3. ASSUME DidNext \/ CardNext PROVE userStatus' = userStatus
    BY <1>3 DEF DidNext, RetireOpen, RetireWrite, Reserve, Release, CardNext, RateCardCreate,
                RateCardCreateBulk, AddCard, RateCardExpire, PriceOpen, PriceWrite
<1> QED BY <1>1, <1>2, <1>3, OrderFrame DEF RentalsNext

\* Quarantine begins with a block of the user and ends with the unblock.
LEMMA QuarantineRows ==
    ASSUME RentalsInv, RentalsNext, NEW i \in DOMAIN orders, orders'[i].status = "quarantined"
    PROVE  /\ orders[i].status = "quarantined" \/ Block(orders[i].user)
           /\ ~Unblock(orders[i].user)
<1>0. \A k \in DOMAIN orders : orders[k] \in Orders
    BY DEF RentalsInv, RentalsTypeOK
<1>1. orders[i] \in Orders
    BY <1>0
<1>2. ~Unblock(orders[i].user)
    BY <1>1 DEF Unblock, Restored, Orders
<1>3. orders[i].status = "quarantined" \/ Block(orders[i].user)
    <2>1. ASSUME NEW u \in Users, Block(u) PROVE orders[i].status = "quarantined" \/ Block(orders[i].user)
        BY <1>1, <2>1 DEF Block
    <2>2. ASSUME NEW u \in Users, Unblock(u) PROVE orders[i].status = "quarantined"
        BY <1>1, <2>2 DEF Unblock, Orders
    <2>3. ASSUME NEW b \in Bundles, Approve(b) PROVE orders[i].status = "quarantined"
        BY <1>1, <2>3 DEF Approve, Orders
    <2>4. ASSUME NEW c \in Clerks, CreateFinish(c) PROVE orders[i].status = "quarantined"
        BY <2>4, CreateRow
    <2>5. ASSUME NEW c \in Clerks, EditWrite(c) PROVE orders[i].status = "quarantined"
        BY <2>5, EditRow
    <2>6. ASSUME NEW k \in DOMAIN orders, Cancel(k) PROVE orders[i].status = "quarantined"
        BY <2>6, CancelRow
    <2>7. ASSUME NEW k \in DOMAIN orders, NEW d \in Dids, Swap(k, d) PROVE orders[i].status = "quarantined"
        BY <2>7, SwapRow
    <2>8. ASSUME UNCHANGED orders PROVE orders[i].status = "quarantined"
        BY <2>8
    <2>9. \/ \E u \in Users : Block(u) \/ Unblock(u)
          \/ \E b \in Bundles : Approve(b)
          \/ \E c \in Clerks : CreateFinish(c) \/ EditWrite(c)
          \/ \E k \in DOMAIN orders : Cancel(k) \/ \E d \in Dids : Swap(k, d)
          \/ UNCHANGED orders
        BY Movers DEF RetireWrite, Reserve, Release
    <2> QED BY <2>1, <2>2, <2>3, <2>4, <2>5, <2>6, <2>7, <2>8, <2>9
<1> QED BY <1>2, <1>3

\* Quarantine follows the block, through every step.
LEMMA QuarantineStep == RentalsInv /\ RentalsNext => QuarantineFollowsBlock'
<1> SUFFICES ASSUME RentalsInv, RentalsNext,
                    NEW u \in Users, u \notin overridden', userStatus'[u] = "active",
                    NEW i \in DOMAIN orders', orders'[i].user = u, orders'[i].status = "quarantined"
             PROVE  FALSE
    BY DEF QuarantineFollowsBlock
<1>1. CASE i \in DOMAIN orders
    <2>1. orders[i].user = u /\ u \notin overridden /\ orders[i] \in Orders
        BY <1>1, RowsKept, Grows DEF RowKept, RentalsInv, RentalsTypeOK
    <2>2. ~Block(u)
        <3>1. ASSUME Block(u) PROVE userStatus'[u] = "inactive"
            BY <3>1 DEF Block, RentalsInv, RentalsTypeOK
        <3> QED BY <3>1
    <2>3. orders[i].status = "quarantined" /\ ~Unblock(u)
        BY <1>1, <2>1, <2>2, QuarantineRows
    <2>4. userStatus[u] # "active"
        BY <1>1, <2>1, <2>3 DEF RentalsInv, QuarantineFollowsBlock
    <2>5. userStatus[u] # "none"
        BY <1>1, <2>1 DEF RentalsInv, OwnersExist, Exists
    <2> QED BY <2>3, <2>4, <2>5, Activates
<1>2. CASE i \notin DOMAIN orders
    <2>1. PICK c \in Clerks : CreateFinish(c) /\ orders'[i].status = job[c].status
        BY <1>2, RowsKept DEF RowNew
    <2> QED BY <2>1, CreateRow
<1> QED BY <1>1, <1>2

-----------------------------------------------------------------------------
(* A DID and the orders on it *)

\* One DID's part of DidAgrees.
DidOK(d) ==
    /\ didStatus[d] = "assigned" <=> HeldOn(d) # {}
    /\ \A i, j \in HeldOn(d) : i = j

\* Rows that keep their DID, and stay held or stay not, keep what is held on a DID.
LEMMA SameHeld ==
    ASSUME DOMAIN orders' = DOMAIN orders, NEW d,
           \A i \in DOMAIN orders :
              /\ orders'[i].did = d <=> orders[i].did = d
              /\ orders'[i].status \in Held <=> orders[i].status \in Held
    PROVE  HeldOn(d)' = HeldOn(d)
BY DEF HeldOn

LEMMA DidStep == RentalsInv /\ RentalsNext => DidAgrees'
<1> SUFFICES ASSUME RentalsInv, RentalsNext PROVE \A d \in Dids \ unguarded' : DidOK(d)'
    BY DEF DidAgrees, DidOK
<1>0. /\ didStatus \in [Dids -> {"available", "reserved", "assigned", "retired"}]
      /\ \A i \in DOMAIN orders : orders[i] \in Orders
      /\ \A d \in Dids \ unguarded' : d \in Dids \ unguarded /\ DidOK(d)
    BY Grows DEF RentalsInv, RentalsTypeOK, DidAgrees, DidOK
<1>1. ASSUME NEW d \in Dids \ unguarded', didStatus'[d] = didStatus[d], HeldOn(d)' = HeldOn(d)
      PROVE  DidOK(d)'
    BY <1>0, <1>1 DEF DidOK
<1>2. ASSUME NEW u \in Users, Block(u) \/ Unblock(u), NEW d \in Dids \ unguarded' PROVE DidOK(d)'
    <2>1. didStatus' = didStatus /\ DOMAIN orders' = DOMAIN orders
        BY <1>2 DEF Block, Unblock
    <2>2. ASSUME NEW i \in DOMAIN orders
          PROVE  /\ orders'[i].did = orders[i].did
                 /\ orders'[i].status \in Held <=> orders[i].status \in Held
        <3>1. orders[i] \in Orders
            BY <1>0
        <3> QED BY <1>2, <3>1 DEF Block, Unblock, Restored, Orders, Held, Editable
    <2> QED BY <1>1, <2>1, <2>2, SameHeld
<1>3. ASSUME NEW b \in Bundles, Approve(b), NEW d \in Dids \ unguarded' PROVE DidOK(d)'
    <2>1. didStatus' = didStatus /\ DOMAIN orders' = DOMAIN orders
        BY <1>3 DEF Approve
    <2>2. ASSUME NEW i \in DOMAIN orders
          PROVE  /\ orders'[i].did = orders[i].did
                 /\ orders'[i].status \in Held <=> orders[i].status \in Held
        <3>1. orders[i] \in Orders
            BY <1>0
        <3> QED BY <1>3, <3>1 DEF Approve, Orders, Held, Editable
    <2> QED BY <1>1, <2>1, <2>2, SameHeld
<1>4. ASSUME NEW c \in Clerks, EditWrite(c), NEW d \in Dids \ unguarded' PROVE DidOK(d)'
    <2>1. didStatus' = didStatus
        BY <1>4 DEF EditWrite
    <2> DEFINE e == job[c].order
    <2>2. /\ e \in DOMAIN orders /\ DOMAIN orders' = DOMAIN orders
          /\ \A k \in DOMAIN orders \ {e} : orders'[k] = orders[k]
          /\ orders'[e].did = orders[e].did
          /\ orders'[e].status =
               IF EditActivates(orders[e], job[c].bundle) THEN "active" ELSE orders[e].status
        BY <1>4, EditRow
    <2> HIDE DEF e
    <2>3. orders'[e].status \in Held <=> orders[e].status \in Held
        BY <2>2 DEF EditActivates, Held, Editable
    <2>4. HeldOn(d)' = HeldOn(d)
        BY <2>2, <2>3, SameHeld
    <2> QED BY <1>1, <2>1, <2>4
<1>5. ASSUME NEW i \in DOMAIN orders, Cancel(i), NEW d \in Dids \ unguarded' PROVE DidOK(d)'
    <2>1. /\ DOMAIN orders' = DOMAIN orders
          /\ \A k \in DOMAIN orders \ {i} : orders'[k] = orders[k]
          /\ orders'[i].did = orders[i].did /\ orders'[i].status = "cancelled"
        BY <1>5, CancelRow
    <2>2. /\ orders[i].status \in Held /\ orders[i].did \in Dids
          /\ didStatus' = [didStatus EXCEPT ![orders[i].did] = "available"]
        <3>1. orders[i] \in Orders
            BY <1>0
        <3> QED BY <1>5, <3>1 DEF Cancel, Orders
    <2>3. HeldOn(d)' = HeldOn(d) \ {i}
        BY <2>1 DEF HeldOn, Held, Editable
    <2>4. CASE d = orders[i].did
        BY <1>0, <2>2, <2>3, <2>4 DEF DidOK, HeldOn
    <2>5. CASE d # orders[i].did
        BY <1>0, <2>2, <2>3, <2>5 DEF DidOK, HeldOn
    <2> QED BY <2>4, <2>5
<1>6. ASSUME NEW i \in DOMAIN orders, NEW e \in Dids, Swap(i, e), NEW d \in Dids \ unguarded' PROVE DidOK(d)'
    <2>1. /\ DOMAIN orders' = DOMAIN orders
          /\ \A k \in DOMAIN orders \ {i} : orders'[k] = orders[k]
          /\ orders'[i].did = e /\ orders'[i].status = orders[i].status
        BY <1>6, SwapRow
    <2>2. /\ orders[i].status \in Held /\ orders[i].did \in Dids /\ e # orders[i].did
          /\ didStatus[e] = "available"
          /\ didStatus' = [didStatus EXCEPT ![orders[i].did] = "available", ![e] = "assigned"]
        <3>1. orders[i] \in Orders
            BY <1>0
        <3> QED BY <1>6, <3>1 DEF Swap, Orders, Held
    <2>3. HeldOn(d)' = IF d = e THEN HeldOn(d) \cup {i} ELSE HeldOn(d) \ {i}
        BY <2>1, <2>2 DEF HeldOn
    <2>4. CASE d = orders[i].did
        BY <1>0, <2>2, <2>3, <2>4 DEF DidOK, HeldOn
    <2>5. CASE d = e
        BY <1>0, <2>2, <2>3, <2>5 DEF DidOK
    <2>6. CASE d # e /\ d # orders[i].did
        BY <1>0, <2>2, <2>3, <2>6 DEF DidOK, HeldOn
    <2> QED BY <2>4, <2>5, <2>6
<1>7. ASSUME NEW c \in Clerks, CreateFinish(c), NEW d \in Dids \ unguarded' PROVE DidOK(d)'
    <2> DEFINE n == Len(orders) + 1
    <2>1. /\ job[c].did \in Dids /\ job[c].status \in Held
          /\ n \notin DOMAIN orders /\ DOMAIN orders' = DOMAIN orders \cup {n}
          /\ \A k \in DOMAIN orders : orders'[k] = orders[k]
          /\ orders'[n].did = job[c].did /\ orders'[n].status = job[c].status
        BY <1>7, CreateRow DEF Held, Editable
    <2> HIDE DEF n
    <2>2. /\ didStatus' = [didStatus EXCEPT ![job[c].did] = "assigned"]
          /\ didStatus[job[c].did] # "available" => job[c].did \in unguarded'
        BY <1>7 DEF CreateFinish
    <2>3. HeldOn(d)' = IF d = job[c].did THEN HeldOn(d) \cup {n} ELSE HeldOn(d)
        BY <2>1 DEF HeldOn
    <2>4. CASE d = job[c].did
        BY <1>0, <2>1, <2>2, <2>3, <2>4 DEF DidOK
    <2>5. CASE d # job[c].did
        BY <1>0, <1>1, <2>2, <2>3, <2>5
    <2> QED BY <2>4, <2>5
<1>8. ASSUME NEW c \in Clerks, RetireWrite(c), NEW d \in Dids \ unguarded' PROVE DidOK(d)'
    <2>1. /\ orders' = orders /\ didStatus' = [didStatus EXCEPT ![job[c].did] = "retired"]
          /\ HeldOn(job[c].did) # {} => job[c].did \in unguarded'
        BY <1>8 DEF RetireWrite
    <2>2. HeldOn(d)' = HeldOn(d)
        BY <2>1 DEF HeldOn
    <2> QED BY <1>0, <2>1, <2>2 DEF DidOK
<1>9. ASSUME NEW e \in Dids, Reserve(e) \/ Release(e), NEW d \in Dids \ unguarded' PROVE DidOK(d)'
    <2>1. /\ orders' = orders /\ didStatus[e] # "assigned"
          /\ \E s \in {"available", "reserved"} : didStatus' = [didStatus EXCEPT ![e] = s]
        BY <1>9 DEF Reserve, Reservable, Release
    <2>2. HeldOn(d)' = HeldOn(d)
        BY <2>1 DEF HeldOn
    <2> QED BY <1>0, <2>1, <2>2 DEF DidOK
<1>10. ASSUME UNCHANGED <<orders, didStatus, unguarded>>, NEW d \in Dids \ unguarded' PROVE DidOK(d)'
    BY <1>1, <1>10 DEF HeldOn
<1> QED BY <1>2, <1>3, <1>4, <1>5, <1>6, <1>7, <1>8, <1>9, <1>10, Movers

-----------------------------------------------------------------------------
(* The theorems *)

LEMMA RentalsInitInv == RentalsInit => RentalsInv
<1> SUFFICES ASSUME RentalsInit PROVE RentalsInv
    OBVIOUS
<1>1. /\ orders \in Seq(Orders) /\ Len(orders) = 0 /\ DOMAIN orders = {}
      /\ cards \in Seq(Cards) /\ Len(cards) = 0 /\ DOMAIN cards = {}
    BY DEF RentalsInit
<1>2. \A c \in Clerks : job[c] = Idle /\ job[c].kind = "idle"
    BY DEF RentalsInit, Idle
<1>3. ledger \in [Users -> Lines] /\ job \in [Clerks -> Jobs]
    BY DEF RentalsInit, Lines, Jobs
<1>4. RentalsTypeOK
    BY <1>1, <1>3, RentalsAssumption DEF RentalsInit, RentalsTypeOK, OneActivePerDid, LiveCards, Times
<1>5. DidAgrees /\ KycGate /\ LedgerBalances /\ QuarantineFollowsBlock
    BY <1>1 DEF RentalsInit, DidAgrees, HeldOn, KycGate, LedgerBalances, QuarantineFollowsBlock
<1>6. ApprovedVetted /\ OwnersExist /\ CreatesAgree /\ OneCreate /\ EditsAgree
    BY <1>1, <1>2 DEF RentalsInit, ApprovedVetted, OwnersExist, CreatesAgree, OneCreate, EditsAgree
<1> QED BY <1>4, <1>5, <1>6 DEF RentalsInv

LEMMA RentalsStepInv == RentalsInv /\ RentalsNext => RentalsInv'
<1> SUFFICES ASSUME RentalsInv, RentalsNext PROVE RentalsInv'
    OBVIOUS
<1>1. RentalsTypeOK'
    BY RentalsTypeStep
<1>2. DidAgrees' /\ KycGate' /\ LedgerBalances' /\ QuarantineFollowsBlock'
    BY DidStep, KycStep, LedgerStep, QuarantineStep
<1>3. ApprovedVetted' /\ OwnersExist' /\ CreatesAgree' /\ OneCreate' /\ EditsAgree'
    BY VettedStep, JobsStep
<1> QED BY <1>1, <1>2, <1>3 DEF RentalsInv

LEMMA RentalsStutterInv == RentalsInv /\ UNCHANGED rentVars => RentalsInv'
<1> SUFFICES ASSUME RentalsInv, UNCHANGED rentVars PROVE RentalsInv'
    OBVIOUS
<1>1. RentalsTypeOK'
    BY DEF RentalsInv, rentVars, RentalsTypeOK, LiveCards
<1>2. DidAgrees' /\ KycGate' /\ LedgerBalances' /\ QuarantineFollowsBlock'
    BY DEF RentalsInv, rentVars, DidAgrees, HeldOn, KycGate, LedgerBalances, QuarantineFollowsBlock
<1>3. ApprovedVetted' /\ OwnersExist'
    BY DEF RentalsInv, rentVars, ApprovedVetted, OwnersExist, Exists
<1>4. CreatesAgree' /\ OneCreate' /\ EditsAgree'
    BY DEF RentalsInv, rentVars, CreatesAgree, CreateAgrees, OneCreate, EditsAgree, Exists
<1> QED BY <1>1, <1>2, <1>3, <1>4 DEF RentalsInv

\* Everything the handlers keep, they keep for any number of users, DIDs, bundles and
\* requests in flight.
LEMMA RentalsInvariant == RentalsSpec => []RentalsInv
<1>1. RentalsInv /\ [RentalsNext]_rentVars => RentalsInv'
    BY RentalsStepInv, RentalsStutterInv
<1> QED BY <1>1, RentalsInitInv, PTL DEF RentalsSpec

\* Every row, balance and request keeps its type, and the unique indexes hold.
THEOREM RentalsTypeCorrect == RentalsSpec => []RentalsTypeOK
<1>1. RentalsInv => RentalsTypeOK
    BY DEF RentalsInv
<1> QED BY <1>1, RentalsInvariant, PTL

\* A DID is marked assigned exactly when one order holds it, except where one of the
\* two handlers that do not look put it out of step.
THEOREM DidAlwaysAgrees == RentalsSpec => []DidAgrees
<1>1. RentalsInv => DidAgrees
    BY DEF RentalsInv
<1> QED BY <1>1, RentalsInvariant, PTL

\* No order carries calls without an approved bundle of its customer.
THEOREM KycGateHolds == RentalsSpec => []KycGate
<1>1. RentalsInv => KycGate
    BY DEF RentalsInv
<1> QED BY <1>1, RentalsInvariant, PTL

\* Block puts the active orders of a user into quarantine, and Unblock takes all of them
\* out of it.
THEOREM QuarantineIsOfBlocked == RentalsSpec => []QuarantineFollowsBlock
<1>1. RentalsInv => QuarantineFollowsBlock
    BY DEF RentalsInv
<1> QED BY <1>1, RentalsInvariant, PTL

\* Through a step of the handlers, an order that ended stays ended.
LEMMA EndedStep ==
    ASSUME RentalsInv, RentalsNext, NEW i \in DOMAIN orders
    PROVE  /\ orders[i].status = "cancelled" => orders'[i].status = "cancelled"
           /\ orders[i].status = "suspended" => orders'[i].status \in {"suspended", "cancelled"}
BY RowsKept DEF RowKept, Move, Held, Editable

\* An order that was cancelled stays cancelled, whatever was read before and is written
\* after.
THEOREM EndedForGood == RentalsSpec => EndedStaysEnded
<1>1. RentalsInv /\ [RentalsNext]_rentVars =>
         [\A i \in DOMAIN orders :
            /\ orders[i].status = "cancelled" => orders'[i].status = "cancelled"
            /\ orders[i].status = "suspended" => orders'[i].status \in {"suspended", "cancelled"}]_orders
    BY EndedStep DEF rentVars
<1> QED BY <1>1, RentalsInvariant, PTL DEF RentalsSpec, EndedStaysEnded
===============================================================================
