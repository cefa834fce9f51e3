------------------------------- MODULE Billing -------------------------------
(***************************************************************************)
(* The monthly billing of rented DIDs: didbill, started by a systemd timer *)
(* every hour and, if somebody likes, by hand, beside all that Rentals     *)
(* lets the GUI, the API and the calls do meanwhile.                       *)
(***************************************************************************)
EXTENDS Rentals

CONSTANTS
    Runners,      \* didbill processes
    Timer,        \* the one the systemd timer starts: never twice at a time
    MaxNow,       \* bound: the last day
    MaxFailures   \* bound: failed transactions and killed runs

ASSUME BillingAssumption ==
    /\ Timer \in Runners
    /\ MaxNow \in Nat /\ MaxFailures \in Nat

VARIABLES
    run,         \* per process: when it started and the orders still to do, as it read them
    failures,
    overlapped   \* history: two processes ran at a time

billVars == <<rentVars, run, failures, overlapped>>

Due == [order : 1..MaxOrders, next : Times]
NoRun == [on |-> FALSE, at |-> 0, due |-> {}]

\* The type invariant.
BillingTypeOK ==
    /\ RentalsTypeOK
    /\ run \in [Runners -> [on : BOOLEAN, at : Times, due : SUBSET Due]]
    /\ failures \in 0..MaxFailures
    /\ overlapped \in BOOLEAN
    /\ \A r \in Runners : \A x \in run[r].due : run[r].on /\ x.order \in DOMAIN orders

BillingInit ==
    /\ RentalsInit
    /\ run = [r \in Runners |-> NoRun]
    /\ failures = 0
    /\ overlapped = FALSE

-----------------------------------------------------------------------------
IsDue(i) == orders[i].status = "active" /\ orders[i].next <= now

\* Mutant: Run's SELECT joins users and takes only those whose status is active.
SelectedActiveUser(i) == IsDue(i) /\ userStatus[orders[i].user] = "active"

Selected(i) == IsDue(i)

\* Run's SELECT.  A run that finds nothing due ends at once.
StartRun(r) ==
    /\ ~run[r].on
    /\ \E i \in DOMAIN orders : Selected(i)
    /\ run' = [run EXCEPT ![r] =
                 [on |-> TRUE, at |-> now,
                  due |-> {[order |-> i, next |-> orders[i].next] : i \in {k \in DOMAIN orders : Selected(k)}}]]
    /\ overlapped' = (overlapped \/ \E s \in Runners \ {r} : run[s].on)
    /\ UNCHANGED <<rentVars, failures>>

\* ORDER BY next_billing_at
Earliest(due) == {x \in due : \A y \in due : x.next <= y.next}

\* The order's status is looked at again, its date is not.
StillCharged(i) == orders[i].status = "active"

\* The highest rung of the ladder the balance pays for: one line for the MRC, one
\* for the channels.
ChargeMonth(i, at) ==
    LET o == orders[i]
        price == cards[o.card].price
        n == LadderStop(Affordable(balance[o.user], price, o.channels))
        fee == FeeAt(price, n)
        left == balance[o.user] - fee
    IN /\ Affordable(balance[o.user], price, o.channels) # {}
       /\ balance' = [balance EXCEPT ![o.user] = left]
       /\ ledger' = IF fee = 0 THEN ledger
                    ELSE [ledger EXCEPT ![o.user] = [sum |-> @.sum - fee, after |-> left]]
       /\ orders' = [orders EXCEPT ![i].channels = n, ![i].bills = @ + 1,
                                   ![i].next = NextAnniversary(at, o.day)]

\* Mutant: the order gets the status a blocked user has.
SuspendInactive(i) ==
    /\ Affordable(balance[orders[i].user], cards[orders[i].card].price, orders[i].channels) = {}
    /\ orders' = [orders EXCEPT ![i].status = "inactive"]
    /\ UNCHANGED <<balance, ledger>>

\* Not even the MRC can be paid.  The DID stays assigned to the suspended order.
Suspend(i) ==
    /\ Affordable(balance[orders[i].user], cards[orders[i].card].price, orders[i].channels) = {}
    /\ orders' = [orders EXCEPT ![i].status = "suspended"]
    /\ UNCHANGED <<balance, ledger>>

\* processOne
ProcessOne(r) ==
    \E x \in Earliest(run[r].due) :
        /\ ~Locked(orders[x.order].user)
        /\ IF StillCharged(x.order)
           THEN ChargeMonth(x.order, run[r].at) \/ Suspend(x.order)
           ELSE UNCHANGED <<orders, balance, ledger>>
        /\ run' = [run EXCEPT ![r].due = @ \ {x}]
        /\ UNCHANGED <<userStatus, didStatus, bundles, cards, job, now, postings, vetted,
                       overridden, unguarded, failures, overlapped>>

\* Its transaction fails (a serialization failure, a lost connection): the run logs
\* it and goes on to the next order.
ProcessFails(r) ==
    /\ failures < MaxFailures
    /\ \E x \in Earliest(run[r].due) : run' = [run EXCEPT ![r].due = @ \ {x}]
    /\ failures' = failures + 1
    /\ UNCHANGED <<rentVars, overlapped>>

EndRun(r) ==
    /\ run[r].on /\ run[r].due = {}
    /\ run' = [run EXCEPT ![r] = NoRun]
    /\ UNCHANGED <<rentVars, failures, overlapped>>

\* The process dies, or its 30 minutes are over, with orders left to do.
KillRun(r) ==
    /\ run[r].on /\ run[r].due # {}
    /\ failures < MaxFailures
    /\ run' = [run EXCEPT ![r] = NoRun]
    /\ failures' = failures + 1
    /\ UNCHANGED <<rentVars, overlapped>>

Tick ==
    /\ now < MaxNow
    /\ now' = now + 1
    /\ UNCHANGED <<userStatus, balance, ledger, didStatus, orders, bundles, cards, job,
                   postings, vetted, overridden, unguarded, run, failures, overlapped>>

RunnerNext ==
    \E r \in Runners : StartRun(r) \/ ProcessOne(r) \/ ProcessFails(r) \/ EndRun(r) \/ KillRun(r)

BillingNext ==
    \/ RentalsNext /\ UNCHANGED <<run, failures, overlapped>>
    \/ RunnerNext
    \/ Tick

BillingSpec == BillingInit /\ [][BillingNext]_billVars

\* The timer starts a run every hour and the run goes through its list.  A user's row
\* a create has locked comes free, and PostgreSQL gives it to whoever waits for it.
BillingFairness ==
    /\ WF_billVars(StartRun(Timer))
    /\ SF_billVars(ProcessOne(Timer))
    /\ WF_billVars(EndRun(Timer))
    /\ \A c \in Clerks : WF_billVars(Abandon(c) /\ UNCHANGED <<run, failures, overlapped>>)

BillingFairSpec == BillingSpec /\ BillingFairness

-----------------------------------------------------------------------------
(* Properties *)

\* The anniversaries of an order that have come, first by first.
Anniversaries(o) ==
    IF now < o.first THEN 0 ELSE (now - o.first) \div MonthLength + 1

\* An order is not charged for more months than have begun, whatever fails or is
\* killed and run again; unless its anniversary was moved, which makes the next
\* interval shorter than the month it is charged for, or two runs overlapped:
\* processOne looks at the order's status again but not at its date.
ChargedPerMonth ==
    ~overlapped =>
        \A i \in DOMAIN orders : ~orders[i].moved => orders[i].bills <= Anniversaries(orders[i])

\* A month that is due gets charged, or the order suspended or ended by somebody.
DueSettled ==
    \A i \in 1..MaxOrders :
        (i \in DOMAIN orders /\ IsDue(i)) ~> (i \in DOMAIN orders => ~IsDue(i))
===============================================================================
