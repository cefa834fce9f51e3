------------------------------- MODULE Rentals -------------------------------
(***************************************************************************)
(* Renting DIDs: what the admin GUI and the reseller API do to users,      *)
(* their balances, DIDs, orders, KYC bundles and rate cards.               *)
(*                                                                         *)
(* An action is one transaction, or one statement outside any, of a        *)
(* handler.  A handler whose later statement relies on what an earlier one *)
(* read, with nothing locking it in between, is a job of a clerk: the read *)
(* opens the job and the write ends it.  A clerk is one HTTP request being *)
(* served, of an administrator or of a reseller.                           *)
(*                                                                         *)
(* All DIDs share one (supplier, country, type) slot, hence at most one    *)
(* rate card is live.  Where an order routes its calls is left out.        *)
(***************************************************************************)
EXTENDS Rating, Sequences, FiniteSets

CONSTANTS
    Dids, Users,
    ResellerUsers,   \* users of a reseller with an API key
    Bundles,         \* KYC bundles
    BundleUser,      \* [Bundles -> Users]
    NoBundle,
    Clerks,
    Editors,         \* clerks that serve orderUpdate, updateOrder and rateCardUpdate
    Prices,          \* what a rate card may say: [nrc, mrc, chan]
    Channels,        \* channel counts asked for
    Days,            \* anniversary days asked for
    Topups,          \* amounts an administrator may post
    CallCosts,       \* what a call may cost
    MaxOrders, MaxCards, MaxPostings   \* bounds

ASSUME RentalsAssumption ==
    /\ Dids # {} /\ Users # {}
    /\ ResellerUsers \subseteq Users
    /\ BundleUser \in [Bundles -> Users]
    /\ NoBundle \notin Bundles
    /\ Editors \subseteq Clerks
    /\ Prices \subseteq [nrc : Nat, mrc : Nat, chan : Nat]
    /\ Channels \subseteq Nat
    /\ Days \subseteq 1..LastAnniversary
    /\ Topups \subseteq Int \ {0}
    /\ CallCosts \subseteq Nat \ {0}
    /\ {MaxOrders, MaxCards, MaxPostings} \subseteq Nat

VARIABLES
    userStatus, balance,
    ledger,       \* per user: the sum of balance_ledger.delta_cents, and the newest balance_after
    didStatus,
    orders,       \* the rows of orders, by id
    bundles,      \* kyc_bundles.status
    cards,        \* the rows of rate_cards, by id
    job,          \* per clerk: the request it is in the middle of
    now,
    postings,     \* ledger lines so far, bounded
    vetted,       \* history: bundles that were ever approved
    overridden,   \* history: users whose status the edit form changed
    unguarded     \* history: DIDs an order was put on, or that were retired, out of turn

rentVars == <<userStatus, balance, ledger, didStatus, orders, bundles, cards, job, now,
              postings, vetted, overridden, unguarded>>

-----------------------------------------------------------------------------
(* Rows *)

Editable == {"active", "kyc_pending", "quarantined"}
Held == Editable \cup {"suspended"}      \* what a cancel takes
OrderStatus == Held \cup {"cancelled"}
Times == Nat

Orders == [did : Dids, user : Users, status : OrderStatus, channels : Nat,
           bundle : Bundles \cup {NoBundle}, card : 1..MaxCards, day : Days, next : Times,
           first : Times, bills : Nat, moved : BOOLEAN]
Cards == [price : [nrc : Nat, mrc : Nat, chan : Nat], live : BOOLEAN]
Lines == [sum : Int, after : Int]

Idle == [kind |-> "idle"]
Jobs ==
    {Idle}
    \cup [kind : {"create"}, via : {"gui", "api"}, did : Dids, user : Users, card : 1..MaxCards,
          nrc : Nat, cents : Int, bundle : Bundles \cup {NoBundle},
          status : {"active", "kyc_pending"}, channels : Channels, day : Days]
    \cup [kind : {"edit"}, via : {"gui", "api"}, order : 1..MaxOrders, channels : Nat,
          day : Days, bundle : Bundles \cup {NoBundle}]
    \cup [kind : {"retire"}, did : Dids]
    \cup [kind : {"price"}, card : 1..MaxCards, price : Prices]

HeldOn(d) == {i \in DOMAIN orders : orders[i].did = d /\ orders[i].status \in Held}

\* orders_one_active_per_did
OneActivePerDid(rows) ==
    \A i, j \in DOMAIN rows :
        rows[i].status = "active" /\ rows[j].status = "active" /\ rows[i].did = rows[j].did => i = j

\* Mutant: the schema without that index.
AcceptsAny(rows) == TRUE

Accepts(rows) == OneActivePerDid(rows)

LiveCards == {i \in DOMAIN cards : cards[i].live}

\* The type invariant, with the unique indexes of the schema.
RentalsTypeOK ==
    /\ userStatus \in [Users -> {"none", "active", "inactive", "deleted"}]
    /\ balance \in [Users -> Int]
    /\ ledger \in [Users -> Lines]
    /\ didStatus \in [Dids -> {"available", "reserved", "assigned", "retired"}]
    /\ orders \in Seq(Orders) /\ Len(orders) <= MaxOrders /\ OneActivePerDid(orders)
    /\ \A i \in DOMAIN orders : orders[i].card \in DOMAIN cards
    /\ bundles \in [Bundles -> {"none", "pending", "approved", "rejected"}]
    /\ cards \in Seq(Cards) /\ Len(cards) <= MaxCards
    /\ \A i, j \in LiveCards : i = j
    /\ job \in [Clerks -> Jobs]
    /\ now \in Times
    /\ postings \in 0..MaxPostings
    /\ vetted \subseteq Bundles /\ overridden \subseteq Users /\ unguarded \subseteq Dids

RentalsInit ==
    /\ userStatus = [u \in Users |-> "none"]
    /\ balance = [u \in Users |-> 0]
    /\ ledger = [u \in Users |-> [sum |-> 0, after |-> 0]]
    /\ didStatus = [d \in Dids |-> "available"]
    /\ orders = <<>>
    /\ bundles = [b \in Bundles |-> "none"]
    /\ cards = <<>>
    /\ job = [c \in Clerks |-> Idle]
    /\ now = 0
    /\ postings = 0
    /\ vetted = {} /\ overridden = {} /\ unguarded = {}

-----------------------------------------------------------------------------
(* Row locks.  Both creates lock the user's row FOR UPDATE before they look *)
(* at the balance; only the API's locks the DID's row as well.              *)

Exists(u) == userStatus[u] \in {"active", "inactive"}

\* Mutant: orderCreate reads the balance without FOR UPDATE.
NeverLocked(u) == FALSE

Locked(u) == \E c \in Clerks : job[c].kind = "create" /\ job[c].user = u

UserFree(u) == Exists(u) /\ ~Locked(u)

DidFree(d) == \A c \in Clerks : ~(job[c].kind = "create" /\ job[c].via = "api" /\ job[c].did = d)

\* users.balance_cents set to cents, and the line that records the change.
Book(u, delta, cents) ==
    /\ postings < MaxPostings
    /\ balance' = [balance EXCEPT ![u] = cents]
    /\ ledger' = [ledger EXCEPT ![u] = [sum |-> @.sum + delta, after |-> cents]]
    /\ postings' = postings + 1

-----------------------------------------------------------------------------
(* Users *)

UserCreate(u) ==
    /\ userStatus[u] = "none"
    /\ userStatus' = [userStatus EXCEPT ![u] = "active"]
    /\ UNCHANGED <<balance, ledger, didStatus, orders, bundles, cards, job, now, postings,
                   vetted, overridden, unguarded>>

\* The form's status field is written as it comes: it cascades to nothing.
UserSave(u, status) ==
    /\ UserFree(u)
    /\ status # userStatus[u]
    /\ userStatus' = [userStatus EXCEPT ![u] = status]
    /\ overridden' = overridden \cup {u}
    /\ UNCHANGED <<balance, ledger, didStatus, orders, bundles, cards, job, now, postings,
                   vetted, unguarded>>

\* It cancels the user's orders and then deletes the user, in one transaction; but
\* orders.user_id is ON DELETE RESTRICT, so a user who has any order row stays, and
\* the cancellations are rolled back.
UserDelete(u) ==
    /\ UserFree(u)
    /\ \A i \in DOMAIN orders : orders[i].user # u
    /\ userStatus' = [userStatus EXCEPT ![u] = "deleted"]
    /\ balance' = [balance EXCEPT ![u] = 0]
    /\ ledger' = [ledger EXCEPT ![u] = [sum |-> 0, after |-> 0]]
    /\ bundles' = [b \in Bundles |-> IF BundleUser[b] = u THEN "none" ELSE bundles[b]]
    /\ UNCHANGED <<didStatus, orders, cards, job, now, postings, vetted, overridden, unguarded>>

\* userTopup posts any amount but zero.
Topup(u, cents) ==
    /\ UserFree(u)
    /\ Book(u, cents, balance[u] + cents)
    /\ UNCHANGED <<userStatus, didStatus, orders, bundles, cards, job, now,
                   vetted, overridden, unguarded>>

\* topupUser only adds, and to the reseller's own users.
TopupByReseller(u, cents) == u \in ResellerUsers /\ cents > 0 /\ Topup(u, cents)

\* The charge of /sipctl/cdr.
CallCharged(u, cents) ==
    /\ UserFree(u)
    /\ \E i \in DOMAIN orders : orders[i].user = u
    /\ Book(u, -cents, balance[u] - cents)
    /\ UNCHANGED <<userStatus, didStatus, orders, bundles, cards, job, now,
                   vetted, overridden, unguarded>>

\* userBlock: the user's active orders go to quarantine.
Block(u) ==
    /\ UserFree(u) /\ userStatus[u] = "active"
    /\ userStatus' = [userStatus EXCEPT ![u] = "inactive"]
    /\ orders' = [i \in DOMAIN orders |->
                    IF orders[i].user = u /\ orders[i].status = "active"
                    THEN [orders[i] EXCEPT !.status = "quarantined"] ELSE orders[i]]
    /\ UNCHANGED <<balance, ledger, didStatus, bundles, cards, job, now, postings,
                   vetted, overridden, unguarded>>

\* Mutant: userUnblock restores only the orders that still have a KYC bundle.
RestoredWithBundle(row) == row.status = "quarantined" /\ row.bundle # NoBundle

Restored(row) == row.status = "quarantined"

\* userUnblock: all of them come back, or none when one would be a second active
\* order of its DID.
Unblock(u) ==
    LET rows == [i \in DOMAIN orders |->
                   IF orders[i].user = u /\ Restored(orders[i])
                   THEN [orders[i] EXCEPT !.status = "active"] ELSE orders[i]] IN
    /\ UserFree(u) /\ userStatus[u] = "inactive"
    /\ Accepts(rows)
    /\ userStatus' = [userStatus EXCEPT ![u] = "active"]
    /\ orders' = rows
    /\ UNCHANGED <<balance, ledger, didStatus, bundles, cards, job, now, postings,
                   vetted, overridden, unguarded>>

-----------------------------------------------------------------------------
(* KYC bundles *)

BundleCreate(b) ==
    /\ bundles[b] = "none" /\ Exists(BundleUser[b])
    /\ bundles' = [bundles EXCEPT ![b] = "pending"]
    /\ UNCHANGED <<userStatus, balance, ledger, didStatus, orders, cards, job, now, postings,
                   vetted, overridden, unguarded>>

BundleCreateByReseller(b) == BundleUser[b] \in ResellerUsers /\ BundleCreate(b)

\* ApproveBundle activates every order that waits for the bundle, or fails altogether.
Approve(b) ==
    LET rows == [i \in DOMAIN orders |->
                   IF orders[i].bundle = b /\ orders[i].status = "kyc_pending"
                   THEN [orders[i] EXCEPT !.status = "active"] ELSE orders[i]] IN
    /\ bundles[b] \in {"pending", "rejected"}
    /\ Accepts(rows)
    /\ bundles' = [bundles EXCEPT ![b] = "approved"]
    /\ orders' = rows
    /\ vetted' = vetted \cup {b}
    /\ UNCHANGED <<userStatus, balance, ledger, didStatus, cards, job, now, postings,
                   overridden, unguarded>>

\* RejectBundle leaves the orders as they are, also those an approval activated.
Reject(b) ==
    /\ bundles[b] \in {"pending", "approved"}
    /\ bundles' = [bundles EXCEPT ![b] = "rejected"]
    /\ UNCHANGED <<userStatus, balance, ledger, didStatus, orders, cards, job, now, postings,
                   vetted, overridden, unguarded>>

\* Mutant: the owner of the bundle is not compared with the order's user.
AnyBundle(u) == {b \in Bundles : bundles[b] # "none"}

\* The bundles a form or a request may name for a user's order.
BundlesOf(u) == {b \in Bundles : BundleUser[b] = u /\ bundles[b] # "none"}

-----------------------------------------------------------------------------
(* Orders *)

\* Mutant: the NRC is charged whatever the balance.
PaysAnything(u, cents) == TRUE

Pays(u, cents) == balance[u] >= cents

\* createOrder also takes only a DID that is available, and locks it.
OpenableByApi(u, d) == u \in ResellerUsers /\ didStatus[d] = "available" /\ DidFree(d)

\* Up to the INSERT: the rate card, the locked balance, the bundle's status.
CreateOpen(c, via, u, d, b, n, day) ==
    /\ job[c] = Idle
    /\ Len(orders) < MaxOrders
    /\ UserFree(u)
    /\ via = "api" => OpenableByApi(u, d)
    /\ b \in BundlesOf(u) \cup {NoBundle}
    /\ \E i \in LiveCards :
         /\ Pays(u, cards[i].price.nrc)
         /\ job' = [job EXCEPT ![c] =
              [kind |-> "create", via |-> via, did |-> d, user |-> u, card |-> i,
               nrc |-> cards[i].price.nrc, cents |-> balance[u], bundle |-> b,
               status |-> IF b \in Bundles /\ bundles[b] = "approved" THEN "active" ELSE "kyc_pending",
               channels |-> n, day |-> day]]
    /\ UNCHANGED <<userStatus, balance, ledger, didStatus, orders, bundles, cards, now, postings,
                   vetted, overridden, unguarded>>

NewOrder(j) ==
    LET due == NextAnniversary(now, j.day) IN
    [did |-> j.did, user |-> j.user, status |-> j.status, channels |-> j.channels,
     bundle |-> j.bundle, card |-> j.card, day |-> j.day, next |-> due,
     first |-> due, bills |-> 0, moved |-> FALSE]

\* The INSERT, the DID and the NRC.  The GUI's orderCreate never looks at dids.status.
CreateFinish(c) ==
    LET j == job[c] IN
    /\ j.kind = "create"
    /\ \A e \in Clerks \ {c} : ~(job[e].kind = "create" /\ job[e].via = "api" /\ job[e].did = j.did)
    /\ Len(orders) < MaxOrders
    /\ Accepts(Append(orders, NewOrder(j)))
    /\ orders' = Append(orders, NewOrder(j))
    /\ didStatus' = [didStatus EXCEPT ![j.did] = "assigned"]
    /\ unguarded' = IF didStatus[j.did] = "available" THEN unguarded ELSE unguarded \cup {j.did}
    /\ IF j.nrc > 0 THEN Book(j.user, -j.nrc, j.cents - j.nrc)
       ELSE UNCHANGED <<balance, ledger, postings>>
    /\ job' = [job EXCEPT ![c] = Idle]
    /\ UNCHANGED <<userStatus, bundles, cards, now, vetted, overridden>>

\* Any request may end here: a statement fails (a unique index among them), the
\* connection drops, the process stops.  Its transaction is rolled back.
Abandon(c) ==
    /\ job[c] # Idle
    /\ job' = [job EXCEPT ![c] = Idle]
    /\ UNCHANGED <<userStatus, balance, ledger, didStatus, orders, bundles, cards, now, postings,
                   vetted, overridden, unguarded>>

\* updateOrder knows no anniversary day.
EditableByApi(i, day) == orders[i].user \in ResellerUsers /\ day = orders[i].day

\* orderUpdate and updateOrder up to their UPDATE.  A field the form leaves blank is
\* filled with the value read here; only the GUI can clear the bundle.
EditOpen(c, via, i, n, day, b) ==
    /\ job[c] = Idle
    /\ orders[i].status \in Editable
    /\ via = "api" => EditableByApi(i, day)
    /\ b \in BundlesOf(orders[i].user) \cup {NoBundle}
    /\ job' = [job EXCEPT ![c] = [kind |-> "edit", via |-> via, order |-> i, channels |-> n,
                                  day |-> day, bundle |-> b]]
    /\ UNCHANGED <<userStatus, balance, ledger, didStatus, orders, bundles, cards, now, postings,
                   vetted, overridden, unguarded>>

\* Mutant: the CASE only asks whether the bundle is approved.
EditActivatesAny(row, b) == b \in Bundles /\ bundles[b] = "approved"

\* The CASE of the UPDATE, on the row as it is by then.
EditActivates(row, b) ==
    row.status = "kyc_pending" /\ b \in Bundles /\ bundles[b] = "approved"

Edited(row, j) ==
    [row EXCEPT !.channels = j.channels,
                !.day = IF j.via = "gui" THEN j.day ELSE @,
                !.bundle = IF j.via = "api" /\ j.bundle = NoBundle THEN @ ELSE j.bundle,
                !.moved = @ \/ (j.via = "gui" /\ j.day # row.day),
                !.status = IF EditActivates(row, j.bundle) THEN "active" ELSE @]

\* UPDATE orders ... WHERE id: nothing checks the status again.
EditWrite(c) ==
    LET j == job[c]
        rows == [orders EXCEPT ![j.order] = Edited(@, j)] IN
    /\ j.kind = "edit"
    /\ Accepts(rows)
    /\ orders' = rows
    /\ job' = [job EXCEPT ![c] = Idle]
    /\ UNCHANGED <<userStatus, balance, ledger, didStatus, bundles, cards, now, postings,
                   vetted, overridden, unguarded>>

\* orderCancel
Cancel(i) ==
    LET d == orders[i].did IN
    /\ orders[i].status \in Held /\ DidFree(d)
    /\ orders' = [orders EXCEPT ![i].status = "cancelled"]
    /\ didStatus' = [didStatus EXCEPT ![d] = "available"]
    /\ UNCHANGED <<userStatus, balance, ledger, bundles, cards, job, now, postings,
                   vetted, overridden, unguarded>>

CancelByReseller(i) == orders[i].user \in ResellerUsers /\ Cancel(i)

\* orderSwapDID
Swap(i, d) ==
    LET rows == [orders EXCEPT ![i].did = d] IN
    /\ orders[i].status \in Editable
    /\ d # orders[i].did
    /\ didStatus[d] = "available"
    /\ DidFree(d) /\ DidFree(orders[i].did)
    /\ Accepts(rows)
    /\ orders' = rows
    /\ didStatus' = [didStatus EXCEPT ![orders[i].did] = "available", ![d] = "assigned"]
    /\ UNCHANGED <<userStatus, balance, ledger, bundles, cards, job, now, postings,
                   vetted, overridden, unguarded>>

-----------------------------------------------------------------------------
(* DIDs *)

EditableOn(d) == {i \in HeldOn(d) : orders[i].status \in Editable}

\* didRetire counts the orders, a suspended one not among them; a count that fails
\* leaves 0, and that is none.
RetireOpen(c, d) ==
    /\ job[c] = Idle
    /\ \E assigned \in {Cardinality(EditableOn(d)), 0} : assigned = 0
    /\ job' = [job EXCEPT ![c] = [kind |-> "retire", did |-> d]]
    /\ UNCHANGED <<userStatus, balance, ledger, didStatus, orders, bundles, cards, now, postings,
                   vetted, overridden, unguarded>>

\* Then it retires the DID, whatever its status has become.
RetireWrite(c) ==
    LET d == job[c].did IN
    /\ job[c].kind = "retire" /\ DidFree(d)
    /\ didStatus' = [didStatus EXCEPT ![d] = "retired"]
    /\ unguarded' = IF HeldOn(d) = {} THEN unguarded ELSE unguarded \cup {d}
    /\ job' = [job EXCEPT ![c] = Idle]
    /\ UNCHANGED <<userStatus, balance, ledger, orders, bundles, cards, now, postings,
                   vetted, overridden>>

\* Mutant: the UPDATE of didReserve loses its AND status='available'.
ReservableAny(d) == TRUE

Reservable(d) == didStatus[d] = "available"

Reserve(d) ==
    /\ Reservable(d) /\ DidFree(d)
    /\ didStatus' = [didStatus EXCEPT ![d] = "reserved"]
    /\ UNCHANGED <<userStatus, balance, ledger, orders, bundles, cards, job, now, postings,
                   vetted, overridden, unguarded>>

Release(d) ==
    /\ didStatus[d] = "reserved" /\ DidFree(d)
    /\ didStatus' = [didStatus EXCEPT ![d] = "available"]
    /\ UNCHANGED <<userStatus, balance, ledger, orders, bundles, cards, job, now, postings,
                   vetted, overridden, unguarded>>

-----------------------------------------------------------------------------
(* Rate cards *)

SlotFree == LiveCards = {}

AddCard(price) ==
    /\ SlotFree /\ Len(cards) < MaxCards
    /\ cards' = Append(cards, [price |-> price, live |-> TRUE])
    /\ UNCHANGED <<userStatus, balance, ledger, didStatus, orders, bundles, job, now, postings,
                   vetted, overridden, unguarded>>

RateCardCreate(price) == AddCard(price)

\* The bulk import decodes "nrc" into none of its fields (four of them claim it):
\* every card it makes has NRC 0.
RateCardCreateBulk(price) == AddCard([price EXCEPT !.nrc = 0])

RateCardExpire(i) ==
    /\ i \in LiveCards
    /\ cards' = [cards EXCEPT ![i].live = FALSE]
    /\ UNCHANGED <<userStatus, balance, ledger, didStatus, orders, bundles, job, now, postings,
                   vetted, overridden, unguarded>>

\* rateCardUpdate sees the card live ...
PriceOpen(c, i, price) ==
    /\ job[c] = Idle
    /\ i \in LiveCards
    /\ job' = [job EXCEPT ![c] = [kind |-> "price", card |-> i, price |-> price]]
    /\ UNCHANGED <<userStatus, balance, ledger, didStatus, orders, bundles, cards, now, postings,
                   vetted, overridden, unguarded>>

\* ... and writes by id.  Orders refer to the card: their next fee is the new one.
PriceWrite(c) ==
    /\ job[c].kind = "price"
    /\ cards' = [cards EXCEPT ![job[c].card].price = job[c].price]
    /\ job' = [job EXCEPT ![c] = Idle]
    /\ UNCHANGED <<userStatus, balance, ledger, didStatus, orders, bundles, now, postings,
                   vetted, overridden, unguarded>>

-----------------------------------------------------------------------------
UserNext ==
    \E u \in Users :
        \/ UserCreate(u)
        \/ \E s \in {"active", "inactive"} : UserSave(u, s)
        \/ UserDelete(u)
        \/ \E cents \in Topups : Topup(u, cents) \/ TopupByReseller(u, cents)
        \/ \E cents \in CallCosts : CallCharged(u, cents)
        \/ Block(u)
        \/ Unblock(u)

BundleNext ==
    \E b \in Bundles : BundleCreate(b) \/ BundleCreateByReseller(b) \/ Approve(b) \/ Reject(b)

OrderNext ==
    \/ \E c \in Clerks :
        \/ \E via \in {"gui", "api"}, u \in Users, d \in Dids, b \in Bundles \cup {NoBundle},
             n \in Channels, day \in Days : CreateOpen(c, via, u, d, b, n, day)
        \/ CreateFinish(c)
        \/ Abandon(c)
    \/ \E c \in Editors, via \in {"gui", "api"}, i \in DOMAIN orders :
         \E n \in Channels \cup {orders[i].channels}, day \in Days, b \in Bundles \cup {NoBundle} :
            EditOpen(c, via, i, n, day, b)
    \/ \E c \in Editors : EditWrite(c)
    \/ \E i \in DOMAIN orders : Cancel(i) \/ CancelByReseller(i) \/ \E d \in Dids : Swap(i, d)

DidNext ==
    \/ \E c \in Clerks : RetireWrite(c) \/ \E d \in Dids : RetireOpen(c, d)
    \/ \E d \in Dids : Reserve(d) \/ Release(d)

CardNext ==
    \/ \E p \in Prices : RateCardCreate(p) \/ RateCardCreateBulk(p)
    \/ \E i \in DOMAIN cards : RateCardExpire(i)
    \/ \E c \in Editors : PriceWrite(c) \/ \E i \in DOMAIN cards, p \in Prices : PriceOpen(c, i, p)

RentalsNext == UserNext \/ BundleNext \/ OrderNext \/ DidNext \/ CardNext

RentalsSpec == RentalsInit /\ [][RentalsNext]_rentVars

-----------------------------------------------------------------------------
(* Properties *)

\* A DID is marked assigned exactly when one order holds it, and no two ever do,
\* unless orderCreate put an order on a DID that was not available or didRetire
\* retired one that an order held: the only two handlers that write dids.status
\* without looking at it.
DidAgrees ==
    \A d \in Dids \ unguarded :
        /\ didStatus[d] = "assigned" <=> HeldOn(d) # {}
        /\ \A i, j \in HeldOn(d) : i = j

\* No order carries calls, or ever did, for a customer none of whose bundles was
\* approved, and no order refers to somebody else's bundle; whichever of the five
\* ways an order becomes active.
KycGate ==
    \A i \in DOMAIN orders :
        /\ orders[i].status \in {"active", "quarantined", "suspended"}
              => \E b \in vetted : BundleUser[b] = orders[i].user
        /\ orders[i].bundle \in Bundles => BundleUser[orders[i].bundle] = orders[i].user

\* The balance of every user is the sum of the ledger and what its newest line says,
\* although the creates and the billing write a balance they computed themselves.
LedgerBalances ==
    \A u \in Users : balance[u] = ledger[u].sum /\ balance[u] = ledger[u].after

\* As long as only Block and Unblock change a user's status, an active user has no
\* order in quarantine.
QuarantineFollowsBlock ==
    \A u \in Users \ overridden :
        userStatus[u] = "active" =>
            \A i \in DOMAIN orders : ~(orders[i].user = u /\ orders[i].status = "quarantined")

\* A cancelled order stays cancelled, and a suspended one only ever gets cancelled:
\* in particular an edit that was opened before does not bring it back.
EndedStaysEnded ==
    [][\A i \in DOMAIN orders :
          /\ orders[i].status = "cancelled" => orders'[i].status = "cancelled"
          /\ orders[i].status = "suspended" => orders'[i].status \in {"suspended", "cancelled"}]_orders

\* A rental never takes a balance below zero: the order that is written, or charged
\* for a month, leaves its user with what is left of the balance, not with a debt.
RentNeverOverdraws ==
    [][\A i \in DOMAIN orders' :
          (i \notin DOMAIN orders \/ orders'[i].bills > orders[i].bills)
              => balance'[orders'[i].user] >= 0]_<<orders, balance>>
===============================================================================
