------------------------------ MODULE Resellers ------------------------------
(***************************************************************************)
(* Resellers, their API keys, and the users under them.  Deleting a        *)
(* reseller sets reseller_id of its users to NULL (the foreign key), so    *)
(* the handler first counts them, outside its transaction.                 *)
(***************************************************************************)
EXTENDS Integers, FiniteSets

CONSTANTS
    ResellerIds,
    Direct,             \* no reseller
    Customers,          \* users
    KeyIds,             \* API keys
    Calls               \* requests: deletions of the admin, or calls of the API

ASSUME ResellerAssumption == Direct \notin ResellerIds

VARIABLES
    resellers,   \* ids used so far
    live,        \* rows of resellers
    keyOf,       \* per API key: its reseller while it may be used, Direct otherwise
    under,       \* per user: "none" before it exists, its reseller, or Direct
    chosen,      \* history: where it was put last
    call,        \* per request: what it does and where it is
    late,        \* history: users put under a reseller after a deletion of it counted
    blind        \* history: resellers whose count failed and was taken for 0

resellerVars == <<resellers, live, keyOf, under, chosen, call, late, blind>>

Unborn == "none"
NoCall == [at |-> "off", reseller |-> Direct]

\* The type invariant.
ResellerTypeOK ==
    /\ live \subseteq resellers /\ resellers \subseteq ResellerIds
    /\ keyOf \in [KeyIds -> live \cup {Direct}]
    /\ under \in [Customers -> live \cup {Direct, Unborn}]
    /\ chosen \in [Customers -> resellers \cup {Direct, Unborn}]
    /\ call \in [Calls -> [at : {"off", "counted", "api"}, reseller : resellers \cup {Direct}]]
    /\ late \subseteq Customers /\ blind \subseteq resellers

ResellerInit ==
    /\ resellers = {} /\ live = {}
    /\ keyOf = [x \in KeyIds |-> Direct]
    /\ under = [u \in Customers |-> Unborn] /\ chosen = under
    /\ call = [c \in Calls |-> NoCall]
    /\ late = {} /\ blind = {}

ResellerCreate(r) ==
    /\ r \notin resellers
    /\ resellers' = resellers \cup {r} /\ live' = live \cup {r}
    /\ UNCHANGED <<keyOf, under, chosen, call, late, blind>>

KeyCreate(x, r) ==
    /\ r \in live /\ keyOf[x] = Direct
    /\ keyOf' = [keyOf EXCEPT ![x] = r]
    /\ UNCHANGED <<resellers, live, under, chosen, call, late, blind>>

KeyRevoke(x) ==
    /\ keyOf[x] # Direct
    /\ keyOf' = [keyOf EXCEPT ![x] = Direct]
    /\ UNCHANGED <<resellers, live, under, chosen, call, late, blind>>

\* A user is put under r: by the admin's forms, or by the API for the reseller of its key.
Put(u, r) ==
    /\ r \in live \cup {Direct}
    /\ under' = [under EXCEPT ![u] = r] /\ chosen' = [chosen EXCEPT ![u] = r]
    /\ late' = IF \E c \in Calls : call[c] = [at |-> "counted", reseller |-> r]
               THEN late \cup {u} ELSE late \ {u}

AdminPuts(u, r) ==
    /\ Put(u, r)
    /\ UNCHANGED <<resellers, live, keyOf, call, blind>>

\* bearerAuth: the key is valid now; the status of its reseller is not asked.
ApiOpen(c, x) ==
    /\ call[c].at = "off" /\ keyOf[x] # Direct
    /\ call' = [call EXCEPT ![c] = [at |-> "api", reseller |-> keyOf[x]]]
    /\ UNCHANGED <<resellers, live, keyOf, under, chosen, late, blind>>

\* createUser: the foreign key refuses a reseller that is gone by now.
ApiCreatesUser(c, u) ==
    /\ call[c].at = "api" /\ under[u] = Unborn
    /\ IF call[c].reseller \in live THEN Put(u, call[c].reseller)
       ELSE UNCHANGED <<under, chosen, late>>
    /\ call' = [call EXCEPT ![c] = NoCall]
    /\ UNCHANGED <<resellers, live, keyOf, blind>>

\* Mutant: the reseller is deleted without counting its users.
UncountedUsers(r) == {}

UsersOf(r) == {u \in Customers : under[u] = r}

\* resellerDelete counts; a count that fails leaves 0.
DeleteCounts(c, r) ==
    /\ call[c].at = "off" /\ r \in live
    /\ \/ UsersOf(r) = {} /\ UNCHANGED blind
       \/ blind' = blind \cup {r}
    /\ call' = [call EXCEPT ![c] = [at |-> "counted", reseller |-> r]]
    /\ UNCHANGED <<resellers, live, keyOf, under, chosen, late>>

\* Its keys and its row in one transaction; users still under it become direct.
DeleteWrites(c) ==
    LET r == call[c].reseller IN
    /\ call[c].at = "counted"
    /\ live' = live \ {r}
    /\ keyOf' = [x \in KeyIds |-> IF keyOf[x] = r THEN Direct ELSE keyOf[x]]
    /\ under' = [u \in Customers |-> IF under[u] = r THEN Direct ELSE under[u]]
    /\ call' = [call EXCEPT ![c] = NoCall]
    /\ UNCHANGED <<resellers, chosen, late, blind>>

CallLost(c) ==
    /\ call[c].at # "off"
    /\ call' = [call EXCEPT ![c] = NoCall]
    /\ UNCHANGED <<resellers, live, keyOf, under, chosen, late, blind>>

ResellerNext ==
    \/ \E r \in ResellerIds :
        \/ ResellerCreate(r)
        \/ \E x \in KeyIds : KeyCreate(x, r)
        \/ \E c \in Calls : DeleteCounts(c, r)
    \/ \E x \in KeyIds : KeyRevoke(x) \/ \E c \in Calls : ApiOpen(c, x)
    \/ \E u \in Customers :
        \/ \E r \in ResellerIds \cup {Direct} : AdminPuts(u, r)
        \/ \E c \in Calls : ApiCreatesUser(c, u)
    \/ \E c \in Calls : DeleteWrites(c) \/ CallLost(c)

ResellerSpec == ResellerInit /\ [][ResellerNext]_resellerVars

-----------------------------------------------------------------------------
\* No user silently becomes direct: a user's reseller is the one it was put under last,
\* unless that happened between the count and the deletion, or the count failed.
UsersKeepReseller ==
    \A u \in Customers :
        under[u] = chosen[u] \/ u \in late \/ chosen[u] \in blind
===============================================================================
