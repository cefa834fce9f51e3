-------------------------------- MODULE Ledger --------------------------------
(***************************************************************************)
(* What users.balance_cents and balance_ledger promise together: money     *)
(* moves one account and one line at a time, and the line says what the    *)
(* account held after it.                                                  *)
(***************************************************************************)
EXTENDS Integers, Sequences

CONSTANTS
    Accounts,
    Refs,      \* what a line may refer to
    Opening    \* [Accounts -> Int]

VARIABLES balance, ledger

lvars == <<balance, ledger>>

Init ==
    /\ balance = Opening
    /\ ledger = <<>>

\* One transaction: d cents to account a, and the line that records it.
Post(a, d, r) ==
    /\ d # 0
    /\ balance' = [balance EXCEPT ![a] = @ + d]
    /\ ledger' = Append(ledger, [user |-> a, delta |-> d, after |-> balance[a] + d, ref |-> r])

Next == \E a \in Accounts, r \in Refs : Post(a, balance'[a] - balance[a], r)

Spec == Init /\ [][Next]_lvars
===============================================================================
