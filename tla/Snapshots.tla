------------------------------ MODULE Snapshots ------------------------------
(***************************************************************************)
(* The three tables that didapi keeps a copy of in memory: settings,       *)
(* hangup causes and TLS domains.  Pages, calls and handshakes read the    *)
(* copy; a handler that changes a row queries the whole table again and    *)
(* swaps the copy, within its own request and without a lock over both     *)
(* steps.                                                                  *)
(***************************************************************************)
EXTENDS Integers, FiniteSets

CONSTANTS
    Keys,           \* rows a table may have
    BuiltIn,        \* causes that came with the schema
    MaxValue,       \* values are 1..MaxValue, 0 stands for no row
    Requests

ASSUME SnapshotAssumption == BuiltIn \subseteq Keys /\ MaxValue \in Nat \ {0}

VARIABLES
    stored,      \* per table its rows
    cached,      \* per table the copy
    request,     \* per request: its table, where it is, what it has read and has yet to save
    doubtful     \* history: tables whose copy may be old: reloads crossed, one failed, or a
                 \* handler reloaded nothing; until a reload that ran alone

snapshotVars == <<stored, cached, request, doubtful>>

Tables == {"settings", "causes", "domains"}
RowMaps == [Keys -> 0..MaxValue]
NoRows == [k \in Keys |-> 0]
IdleRequest == [at |-> "off", table |-> "settings", seen |-> NoRows, left |-> {}, clean |-> FALSE]

\* The type invariant.
SnapshotTypeOK ==
    /\ stored \in [Tables -> RowMaps] /\ cached \in [Tables -> RowMaps]
    /\ request \in [Requests -> [at : {"off", "save", "query", "swap"}, table : Tables,
                                 seen : RowMaps, left : SUBSET Keys, clean : BOOLEAN]]
    /\ doubtful \subseteq Tables

\* Settings and built-in causes come with the schema; didapi has loaded all three tables.
SnapshotInit ==
    /\ stored = [t \in Tables |->
                   [k \in Keys |-> IF t = "settings" \/ (t = "causes" /\ k \in BuiltIn) THEN 1 ELSE 0]]
    /\ cached = stored
    /\ request = [q \in Requests |-> IdleRequest]
    /\ doubtful = {}

Reloading(t) == {q \in Requests : request[q].table = t /\ request[q].at \in {"query", "swap"}}

Soiled(t) ==
    [q \in Requests |-> IF request[q].table = t THEN [request[q] EXCEPT !.clean = FALSE] ELSE request[q]]

\* A row is written, and the reload of its table is next.
Write(q, t, k, v, left) ==
    /\ stored' = [stored EXCEPT ![t][k] = v]
    /\ request' = [(IF Reloading(t) = {} THEN request ELSE Soiled(t)) EXCEPT
                     ![q] = [IdleRequest EXCEPT !.at = "query", !.table = t, !.left = left,
                                                !.clean = (Reloading(t) = {})]]
    /\ doubtful' = IF Reloading(t) = {} THEN doubtful ELSE doubtful \cup {t}
    /\ UNCHANGED cached

-----------------------------------------------------------------------------
(* Handlers *)

\* settingsBulkUpdate: of the keys posted, those the copy knows ...
SettingsOpen(q, ks) ==
    /\ request[q].at = "off"
    /\ ks # {} /\ \A k \in ks : cached["settings"][k] # 0
    /\ request' = [request EXCEPT ![q] = [IdleRequest EXCEPT !.at = "save", !.left = ks]]
    /\ UNCHANGED <<stored, cached, doubtful>>

\* ... one settings.Set each, in any order.
SettingsSet(q, k, v) ==
    /\ request[q].at = "save" /\ k \in request[q].left
    /\ Write(q, "settings", k, v, request[q].left \ {k})

CauseUpsert(q, k, v) ==
    /\ request[q].at = "off"
    /\ Write(q, "causes", k, v, {})

CauseDelete(q, k) ==
    /\ request[q].at = "off"
    /\ stored["causes"][k] # 0 /\ k \notin BuiltIn
    /\ Write(q, "causes", k, 0, {})

\* Reloads nothing.
DomainCreate(k) ==
    /\ stored["domains"][k] = 0
    /\ stored' = [stored EXCEPT !["domains"][k] = 1]
    /\ request' = Soiled("domains")
    /\ doubtful' = doubtful \cup {"domains"}
    /\ UNCHANGED cached

DomainUpdate(q, k, v) ==
    /\ request[q].at = "off" /\ stored["domains"][k] # 0
    /\ Write(q, "domains", k, v, {})

DomainDelete(q, k) ==
    /\ request[q].at = "off" /\ stored["domains"][k] # 0
    /\ Write(q, "domains", k, 0, {})

-----------------------------------------------------------------------------
(* Reload *)

\* The whole table; or the rows that came before the connection was lost, taken for all of
\* them; or an error, which ends the request.
ReloadQuery(q) ==
    LET t == request[q].table IN
    /\ request[q].at = "query"
    /\ \/ request' = [request EXCEPT ![q].at = "swap", ![q].seen = stored[t]] /\ UNCHANGED doubtful
       \/ \E got \in SUBSET {k \in Keys : stored[t][k] # 0} :
            /\ request' = [Soiled(t) EXCEPT
                             ![q].at = "swap", ![q].clean = FALSE,
                             ![q].seen = [k \in Keys |-> IF k \in got THEN stored[t][k] ELSE 0]]
            /\ doubtful' = doubtful \cup {t}
       \/ request' = [Soiled(t) EXCEPT ![q] = IdleRequest] /\ doubtful' = doubtful \cup {t}
    /\ UNCHANGED <<stored, cached>>

\* Mutant: the new map starts as the old one, so that deleted rows stay.
SwappedIntoOld(old, seen) == [k \in Keys |-> IF seen[k] = 0 THEN old[k] ELSE seen[k]]

Swapped(old, seen) == seen

ReloadSwap(q) ==
    LET t == request[q].table IN
    /\ request[q].at = "swap"
    /\ cached' = [cached EXCEPT ![t] = Swapped(@, request[q].seen)]
    /\ doubtful' = IF request[q].clean THEN doubtful \ {t} ELSE doubtful
    /\ request' = [request EXCEPT
                     ![q] = IF @.left = {} THEN IdleRequest
                            ELSE [IdleRequest EXCEPT !.at = "save", !.left = request[q].left]]
    /\ UNCHANGED stored

\* didapi starts: a table that cannot be read leaves its copy empty, with a warning.
SnapshotRestart ==
    \E failed \in SUBSET Tables :
        /\ cached' = [t \in Tables |-> IF t \in failed THEN NoRows ELSE stored[t]]
        /\ doubtful' = failed
        /\ request' = [q \in Requests |-> IdleRequest]
        /\ UNCHANGED stored

SnapshotNext ==
    \/ \E q \in Requests :
        \/ ReloadQuery(q) \/ ReloadSwap(q)
        \/ \E ks \in SUBSET Keys : SettingsOpen(q, ks)
        \/ \E k \in Keys :
            \/ CauseDelete(q, k) \/ DomainDelete(q, k)
            \/ \E v \in 1..MaxValue : SettingsSet(q, k, v) \/ CauseUpsert(q, k, v) \/ DomainUpdate(q, k, v)
    \/ \E k \in Keys : DomainCreate(k)
    \/ SnapshotRestart

SnapshotSpec == SnapshotInit /\ [][SnapshotNext]_snapshotVars

-----------------------------------------------------------------------------
\* Between reloads the copy of a table is the table, unless reloads crossed, one failed or
\* came short, or a domain was added since: what one request saves, the next page shows.
SnapshotFresh == \A t \in Tables : Reloading(t) = {} /\ t \notin doubtful => cached[t] = stored[t]
===============================================================================
