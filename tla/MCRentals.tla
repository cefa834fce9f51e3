------------------------------ MODULE MCRentals ------------------------------
(* Instances of Billing, and of Rentals within it, for TLC. *)
EXTENDS Billing, TLC

CONSTANTS d1, d2, u1, u2, b1, b2, p, q, timer, manual

OwnB1 == b1 :> u1
B1AndB2 == b1 :> u1 @@ b2 :> u2

\* Setup is free in the one; in the other it is not, and the third channel costs extra.
FreeSetup == {[nrc |-> 0, mrc |-> 1, chan |-> 0]}
Ladder == {[nrc |-> 1, mrc |-> 1, chan |-> 1]}

\* The two DIDs are alike.
Alike == Permutations({d1, d2})

\* Without didbill and without time passing; the customer who orders is u1, and there is
\* another with an approved bundle.
TwoCustomers ==
    /\ userStatus = [u \in Users |-> IF u = u1 THEN "none" ELSE "active"]
    /\ bundles = [b \in Bundles |-> IF b = b1 THEN "none" ELSE "approved"]
    /\ vetted = Bundles \ {b1}
    /\ balance = [u \in Users |-> 0] /\ ledger = [u \in Users |-> [sum |-> 0, after |-> 0]]
    /\ didStatus = [d \in Dids |-> "available"]
    /\ orders = <<>> /\ cards = <<>>
    /\ job = [c \in Clerks |-> Idle]
    /\ now = 0 /\ postings = 0
    /\ overridden = {} /\ unguarded = {}
    /\ run = [r \in Runners |-> NoRun] /\ failures = 0 /\ overlapped = FALSE

OrdersOfU1 ==
    /\ RentalsNext
    /\ userStatus'[u2] = "active" /\ bundles'[b2] = "approved"
    /\ \A c \in Clerks : job'[c].kind = "create" => job'[c].user = u1
    /\ UNCHANGED <<run, failures, overlapped>>

\* didbill beside everything but the retirement of DIDs, which moves no money.
BillingInstance ==
    /\ BillingInit
    /\ [][BillingNext /\ \A c \in Clerks : job'[c].kind # "retire"]_billVars
    /\ BillingFairness

RentalsOnly == TwoCustomers /\ [][OrdersOfU1]_billVars
===============================================================================
