-------------------------- MODULE BackofficeProofs --------------------------
(***************************************************************************)
(* Proofs about the admin GUI's components: the administrator's login, the *)
(* tables kept in memory, KYC documents, audio clips and resellers.        *)
(***************************************************************************)
EXTENDS AdminLogin, Snapshots, KycDocuments, AudioLibrary, Resellers,
        FiniteSetTheorems, TLAPS

-----------------------------------------------------------------------------
(* The login.  Of two setups that have both counted no administrator, the   *)
(* second insert meets the email of the first: who was welcomed is a row.   *)

LoginInv ==
    /\ LoginTypeOK
    /\ \A w \in Browsers : browser[w].at # "off" => browser[w].sent \in Passwords
    /\ welcomed # {} => admins # {}
    /\ SetupOnce

LEMMA LoginInitInv == LoginInit => LoginInv
<1> SUFFICES ASSUME LoginInit PROVE LoginInv
    OBVIOUS
<1>1. LoginTypeOK
    BY DEF LoginInit, LoginTypeOK, Waiting, NoPassword
<1>2. Cardinality(welcomed) <= 1
    BY FS_EmptySet DEF LoginInit
<1> QED BY <1>1, <1>2 DEF LoginInit, LoginInv, SetupOnce, Waiting

LEMMA LoginStepInv == LoginInv /\ LoginNext => LoginInv'
<1> SUFFICES ASSUME LoginInv, LoginNext PROVE LoginInv'
    OBVIOUS
<1> DEFINE Form == [at : {"off", "gated", "checked", "verified"},
                    sent : Passwords \cup {NoPassword}, session : BOOLEAN]
           Chosen == \A w \in Browsers : browser[w].at # "off" => browser[w].sent \in Passwords
<1>1. /\ admins \subseteq Passwords /\ browser \in [Browsers -> Form]
      /\ welcomed \subseteq Passwords \X Browsers /\ changed \in BOOLEAN
    BY DEF LoginInv, LoginTypeOK
<1>2. Chosen /\ (welcomed # {} => admins # {}) /\ SetupOnce
    BY DEF LoginInv
<1> USE DEF Waiting, NoPassword
<1>3. CASE DidapiStarts
    <2>1. PICK env \in Boots :
            /\ admins' = IF env = NoWord THEN admins ELSE {[word |-> env, padded |-> FALSE]}
            /\ changed' = (changed \/ env # NoWord)
        BY <1>3 DEF DidapiStarts
    <2>2. /\ browser' = [w \in Browsers |-> Answered(w)]
          /\ welcomed' = welcomed
        BY <1>3 DEF DidapiStarts
    <2>3. env # NoWord => env \in Words
        BY LoginAssumption
    <2>4. admins' \subseteq Passwords
        <3>1. CASE env = NoWord
            BY <1>1, <2>1, <3>1
        <3>2. CASE env # NoWord
            <4>1. [word |-> env, padded |-> FALSE] \in Passwords
                BY <2>3, <3>2 DEF Passwords
            <4> QED BY <2>1, <3>2, <4>1
        <3> QED BY <3>1, <3>2
    <2>7. changed' \in BOOLEAN
        BY <2>1
    <2>5. browser' \in [Browsers -> Form] /\ Chosen'
        BY <1>1, <2>2 DEF Answered
    <2>6. (welcomed' # {} => admins' # {}) /\ SetupOnce'
        BY <1>2, <2>1, <2>2 DEF SetupOnce
    <2> QED BY <1>1, <2>2, <2>4, <2>5, <2>6, <2>7 DEF LoginInv, LoginTypeOK
<1>4. ASSUME NEW w \in Browsers, SetupInsert(w) PROVE LoginInv'
    <2>1. CASE EmailTaken
        <3>1. browser' \in [Browsers -> Form] /\ Chosen'
            BY <1>1, <1>2, <1>4, <2>1 DEF SetupInsert, Answered
        <3>2. UNCHANGED <<admins, welcomed, changed>>
            BY <1>4, <2>1 DEF SetupInsert
        <3> QED BY <1>1, <1>2, <3>1, <3>2 DEF LoginInv, LoginTypeOK, SetupOnce
    <2>2. CASE ~EmailTaken
        <3> DEFINE x == <<browser[w].sent, w>>
        <3>1. browser[w].at = "checked" /\ browser[w].sent \in Passwords
            BY <1>2, <1>4 DEF SetupInsert
        <3>2. admins = {} /\ welcomed = {}
            BY <1>2, <2>2 DEF EmailTaken
        <3>3. admins' = {browser[w].sent} /\ welcomed' = {x} /\ changed' = changed
            BY <1>4, <2>2, <3>2 DEF SetupInsert
        <3>4. browser' \in [Browsers -> Form] /\ Chosen'
            BY <1>1, <1>2, <1>4, <2>2 DEF SetupInsert
        <3>5. Cardinality(welcomed') = 1
            BY <3>3, FS_Singleton
        <3>6. SetupOnce'
            BY <3>3, <3>5 DEF SetupOnce
        <3> QED BY <1>1, <3>1, <3>3, <3>4, <3>6 DEF LoginInv, LoginTypeOK
    <2> QED BY <2>1, <2>2
<1>5. ASSUME NEW w \in Browsers, ChangeWrite(w) PROVE LoginInv'
    <2>1. /\ browser[w].sent \in Passwords
          /\ admins' = {browser[w].sent} /\ changed' = TRUE /\ welcomed' = welcomed
        BY <1>2, <1>5 DEF ChangeWrite
    <2>2. browser' \in [Browsers -> Form] /\ Chosen'
        BY <1>1, <1>2, <1>5 DEF ChangeWrite
    <2> QED BY <1>1, <1>2, <2>1, <2>2 DEF LoginInv, LoginTypeOK, SetupOnce
<1>6. ASSUME NEW w \in Browsers,
             \/ SetupRecheck(w) \/ Logout(w)
             \/ \E p \in Passwords : SetupOpen(w, p) \/ Login(w, p) \/ \E o \in Passwords : ChangeOpen(w, o, p)
      PROVE  LoginInv'
    <2>1. UNCHANGED <<admins, welcomed, changed>>
        BY <1>6 DEF SetupRecheck, Logout, SetupOpen, Login, ChangeOpen
    <2>2. browser' \in [Browsers -> Form] /\ Chosen'
        <3>1. CASE SetupRecheck(w)
            BY <1>1, <1>2, <3>1 DEF SetupRecheck, Answered
        <3>2. CASE Logout(w)
            BY <1>1, <1>2, <3>2 DEF Logout
        <3>3. ASSUME NEW p \in Passwords, SetupOpen(w, p) PROVE browser' \in [Browsers -> Form] /\ Chosen'
            BY <1>1, <1>2, <3>3 DEF SetupOpen
        <3>4. ASSUME NEW p \in Passwords, Login(w, p) PROVE browser' \in [Browsers -> Form] /\ Chosen'
            BY <1>1, <1>2, <3>4 DEF Login
        <3>5. ASSUME NEW p \in Passwords, NEW o \in Passwords, ChangeOpen(w, o, p)
              PROVE  browser' \in [Browsers -> Form] /\ Chosen'
            BY <1>1, <1>2, <3>5 DEF ChangeOpen
        <3> QED BY <1>6, <3>1, <3>2, <3>3, <3>4, <3>5
    <2> QED BY <1>1, <1>2, <2>1, <2>2 DEF LoginInv, LoginTypeOK, SetupOnce
<1> QED BY <1>3, <1>4, <1>5, <1>6 DEF LoginNext

LEMMA LoginInvariant == LoginSpec => []LoginInv
<1>1. LoginInv /\ UNCHANGED loginVars => LoginInv'
    BY DEF LoginInv, LoginTypeOK, SetupOnce, loginVars
<1> QED BY <1>1, LoginInitInv, LoginStepInv, PTL DEF LoginSpec

\* Requests and sessions keep their types.
THEOREM LoginTypeCorrect == LoginSpec => []LoginTypeOK
<1>1. LoginInv => LoginTypeOK
    BY DEF LoginInv
<1> QED BY <1>1, LoginInvariant, PTL

\* However many browsers submit the setup form at once, one is welcomed at most, and the
\* password it chose is the administrator's until somebody changes it.
THEOREM SetupWelcomesOne == LoginSpec => []SetupOnce
<1>1. LoginInv => SetupOnce
    BY DEF LoginInv
<1> QED BY <1>1, LoginInvariant, PTL

-----------------------------------------------------------------------------
(* The copies in memory *)

\* A reload that began alone and beside which nothing was written is alone, and has read
\* what is stored.
CleanReloads ==
    \A t \in Tables : \A q \in Reloading(t) :
        request[q].clean => /\ Reloading(t) = {q}
                            /\ request[q].at = "swap" => request[q].seen = stored[t]

\* While a table is in no doubt, every reload of it is of that kind.
SureReloads == \A t \in Tables \ doubtful : \A q \in Reloading(t) : request[q].clean

SnapshotInv == SnapshotTypeOK /\ CleanReloads /\ SureReloads /\ SnapshotFresh

LEMMA SnapshotInitInv == SnapshotInit => SnapshotInv
<1> SUFFICES ASSUME SnapshotInit PROVE SnapshotInv
    OBVIOUS
<1>1. /\ stored = [t \in Tables |->
                     [k \in Keys |-> IF t = "settings" \/ (t = "causes" /\ k \in BuiltIn) THEN 1 ELSE 0]]
      /\ cached = stored /\ request = [q \in Requests |-> IdleRequest] /\ doubtful = {}
    BY DEF SnapshotInit
<1>2. stored \in [Tables -> RowMaps]
    BY <1>1, SnapshotAssumption DEF RowMaps
<1>3. SnapshotTypeOK
    BY <1>1, <1>2, SnapshotAssumption DEF SnapshotTypeOK, IdleRequest, NoRows, RowMaps, Tables
<1>4. \A t \in Tables : Reloading(t) = {}
    BY <1>1 DEF Reloading, IdleRequest
<1> QED BY <1>1, <1>3, <1>4 DEF SnapshotInv, CleanReloads, SureReloads, SnapshotFresh

SnapRequest == [at : {"off", "save", "query", "swap"}, table : Tables,
                seen : RowMaps, left : SUBSET Keys, clean : BOOLEAN]

LEMMA NoRowsTyped == NoRows \in RowMaps /\ IdleRequest \in SnapRequest
BY SnapshotAssumption DEF NoRows, RowMaps, IdleRequest, SnapRequest, Tables

\* Soiling the reloads of a table says nothing about those of the others.
LEMMA SoiledRequests ==
    ASSUME SnapshotTypeOK, NEW t \in Tables
    PROVE  /\ Soiled(t) \in [Requests -> SnapRequest]
           /\ \A q \in Requests :
                 /\ Soiled(t)[q].at = request[q].at /\ Soiled(t)[q].table = request[q].table
                 /\ Soiled(t)[q].seen = request[q].seen /\ Soiled(t)[q].left = request[q].left
                 /\ request[q].table = t => ~Soiled(t)[q].clean
                 /\ request[q].table # t => Soiled(t)[q].clean = request[q].clean
BY DEF SnapshotTypeOK, Soiled, SnapRequest

\* A row is written while its table is reloaded or not.
LEMMA WriteInv ==
    ASSUME SnapshotInv, NEW q \in Requests, NEW t \in Tables, NEW k \in Keys, NEW v \in 0..MaxValue,
           NEW left \in SUBSET Keys, request[q].at \in {"off", "save"}, Write(q, t, k, v, left)
    PROVE  SnapshotInv'
<1>1. SnapshotTypeOK /\ CleanReloads /\ SureReloads /\ SnapshotFresh
    BY DEF SnapshotInv
<1>2. /\ stored \in [Tables -> RowMaps] /\ cached \in [Tables -> RowMaps]
      /\ request \in [Requests -> SnapRequest] /\ doubtful \subseteq Tables
    BY <1>1 DEF SnapshotTypeOK, SnapRequest
<1>3. q \notin Reloading(t)
    BY DEF Reloading
<1> DEFINE alone == Reloading(t) = {}
           opened == [IdleRequest EXCEPT !.at = "query", !.table = t, !.left = left, !.clean = alone]
           before == IF alone THEN request ELSE Soiled(t)
<1>4. before \in [Requests -> SnapRequest]
    BY <1>1, <1>2, SoiledRequests
<1>5. /\ opened \in SnapRequest /\ opened.at = "query" /\ opened.table = t /\ opened.clean = alone
    BY NoRowsTyped DEF SnapRequest, IdleRequest
<1>6. /\ stored' = [stored EXCEPT ![t][k] = v] /\ cached' = cached
      /\ request' = [before EXCEPT ![q] = opened]
      /\ doubtful' = IF alone THEN doubtful ELSE doubtful \cup {t}
    BY DEF Write
<1> HIDE DEF opened, before
<1>7. stored' \in [Tables -> RowMaps]
    BY <1>2, <1>6 DEF RowMaps
<1>8. request' \in [Requests -> SnapRequest] /\ doubtful' \subseteq Tables
    BY <1>2, <1>4, <1>5, <1>6
<1>9. SnapshotTypeOK'
    BY <1>2, <1>6, <1>7, <1>8 DEF SnapshotTypeOK, SnapRequest
<1>10. \A u \in Tables \ {t} : stored'[u] = stored[u]
    BY <1>2, <1>6
<1>11. request'[q] = opened
    BY <1>4, <1>6
<1>12. \A p \in Requests \ {q} :
          /\ request'[p].at = request[p].at /\ request'[p].table = request[p].table
          /\ request'[p].seen = request[p].seen
          /\ request[p].table # t \/ alone => request'[p].clean = request[p].clean
          /\ request[p].table = t /\ ~alone => ~request'[p].clean
    <2> SUFFICES ASSUME NEW p \in Requests \ {q}
                 PROVE  /\ request'[p].at = request[p].at /\ request'[p].table = request[p].table
                        /\ request'[p].seen = request[p].seen
                        /\ request[p].table # t \/ alone => request'[p].clean = request[p].clean
                        /\ request[p].table = t /\ ~alone => ~request'[p].clean
        OBVIOUS
    <2>1. request'[p] = before[p]
        BY <1>4, <1>6
    <2> QED BY <1>1, <2>1, SoiledRequests DEF before
<1>13. Reloading(t)' = Reloading(t) \cup {q}
    BY <1>5, <1>11, <1>12 DEF Reloading
<1>14. \A u \in Tables \ {t} : Reloading(u)' = Reloading(u)
    BY <1>5, <1>11, <1>12 DEF Reloading
<1>15. CleanReloads'
    <2> SUFFICES ASSUME NEW u \in Tables, NEW p \in Reloading(u)', request'[p].clean
                 PROVE  Reloading(u)' = {p} /\ (request'[p].at = "swap" => request'[p].seen = stored'[u])
        BY DEF CleanReloads
    <2>1. p \in Requests /\ request'[p].table = u
        BY DEF Reloading
    <2>2. CASE u = t
        <3>1. alone /\ p = q
            BY <1>3, <1>5, <1>11, <1>12, <1>13, <2>1, <2>2
        <3> QED BY <1>5, <1>11, <1>13, <2>2, <3>1
    <2>3. CASE u # t
        <3>1. p # q /\ p \in Reloading(u) /\ request[p].clean
            BY <1>5, <1>11, <1>12, <1>14, <2>1, <2>3
        <3> QED BY <1>1, <1>10, <1>12, <1>14, <2>1, <2>3, <3>1 DEF CleanReloads
    <2> QED BY <2>2, <2>3
<1>16. SureReloads'
    <2> SUFFICES ASSUME NEW u \in Tables \ doubtful', NEW p \in Reloading(u)'
                 PROVE  request'[p].clean
        BY DEF SureReloads
    <2>1. p \in Requests /\ request'[p].table = u
        BY DEF Reloading
    <2>2. CASE u = t
        <3>1. alone /\ p = q
            BY <1>6, <1>13, <2>2
        <3> QED BY <1>5, <1>11, <3>1
    <2>3. CASE u # t
        <3>1. p # q /\ p \in Reloading(u) /\ u \notin doubtful
            BY <1>5, <1>6, <1>11, <1>14, <2>1, <2>3
        <3> QED BY <1>1, <1>12, <2>1, <2>3, <3>1 DEF SureReloads
    <2> QED BY <2>2, <2>3
<1>17. SnapshotFresh'
    BY <1>1, <1>6, <1>10, <1>13, <1>14 DEF SnapshotFresh
<1> QED BY <1>9, <1>15, <1>16, <1>17 DEF SnapshotInv

LEMMA SettingsOpenInv ==
    ASSUME SnapshotInv, NEW q \in Requests, NEW ks \in SUBSET Keys, SettingsOpen(q, ks)
    PROVE  SnapshotInv'
<1>1. SnapshotTypeOK /\ CleanReloads /\ SureReloads /\ SnapshotFresh
    BY DEF SnapshotInv
<1>2. request \in [Requests -> SnapRequest]
    BY <1>1 DEF SnapshotTypeOK, SnapRequest
<1> DEFINE opened == [IdleRequest EXCEPT !.at = "save", !.left = ks]
<1>3. opened \in SnapRequest /\ opened.at = "save"
    BY NoRowsTyped DEF SnapRequest, IdleRequest
<1>4. request[q].at = "off" /\ request' = [request EXCEPT ![q] = opened] /\ UNCHANGED <<stored, cached, doubtful>>
    BY DEF SettingsOpen
<1> HIDE DEF opened
<1>5. request' \in [Requests -> SnapRequest]
    BY <1>2, <1>3, <1>4
<1>6. SnapshotTypeOK'
    BY <1>1, <1>4, <1>5 DEF SnapshotTypeOK, SnapRequest
<1>7. \A p \in Requests : request'[p] = IF p = q THEN opened ELSE request[p]
    BY <1>2, <1>4
<1>8. \A t \in Tables : Reloading(t)' = Reloading(t) /\ q \notin Reloading(t)
    BY <1>3, <1>4, <1>7 DEF Reloading
<1>9. \A t \in Tables : \A p \in Reloading(t) : request'[p] = request[p]
    BY <1>7, <1>8 DEF Reloading
<1> QED BY <1>1, <1>4, <1>6, <1>8, <1>9 DEF SnapshotInv, CleanReloads, SureReloads, SnapshotFresh

\* A handler, or a reload that fails, that leaves the table in doubt and every reload of it soiled.
LEMMA DoubtInv ==
    ASSUME SnapshotInv, NEW t \in Tables,
           SnapshotTypeOK', cached' = cached, doubtful' = doubtful \cup {t},
           \A u \in Tables \ {t} : stored'[u] = stored[u],
           \A p \in Requests : request'[p].clean => request[p].table # t /\ request'[p] = request[p],
           \A p \in Requests : request[p].table # t => request'[p] = request[p],
           \A p \in Requests : request[p].table = t =>
                                  request'[p].table = t \/ request'[p].at \notin {"query", "swap"}
    PROVE  SnapshotInv'
<1>1. SnapshotTypeOK /\ CleanReloads /\ SureReloads /\ SnapshotFresh
    BY DEF SnapshotInv
<1>2. \A u \in Tables \ {t} : Reloading(u)' = Reloading(u)
    BY DEF Reloading
<1>3. \A p \in Reloading(t)' : ~request'[p].clean
    BY DEF Reloading
<1>4. \A u \in Tables \ {t} : \A p \in Reloading(u) : request'[p] = request[p]
    BY DEF Reloading
<1>5. CleanReloads'
    <2> SUFFICES ASSUME NEW u \in Tables, NEW p \in Reloading(u)', request'[p].clean
                 PROVE  Reloading(u)' = {p} /\ (request'[p].at = "swap" => request'[p].seen = stored'[u])
        BY DEF CleanReloads
    <2>1. u # t
        BY <1>3
    <2> QED BY <1>1, <1>2, <1>4, <2>1 DEF CleanReloads
<1>6. SureReloads'
    <2> SUFFICES ASSUME NEW u \in Tables \ doubtful', NEW p \in Reloading(u)' PROVE request'[p].clean
        BY DEF SureReloads
    <2> QED BY <1>1, <1>2, <1>4 DEF SureReloads
<1>7. SnapshotFresh'
    BY <1>1, <1>2 DEF SnapshotFresh
<1> QED BY <1>5, <1>6, <1>7 DEF SnapshotInv

LEMMA DomainCreateInv ==
    ASSUME SnapshotInv, NEW k \in Keys, DomainCreate(k)
    PROVE  SnapshotInv'
<1> DEFINE t == "domains"
<1>1. SnapshotTypeOK /\ t \in Tables
    BY DEF SnapshotInv, Tables
<1>2. /\ stored' = [stored EXCEPT ![t][k] = 1] /\ request' = Soiled(t)
      /\ doubtful' = doubtful \cup {t} /\ cached' = cached
    BY DEF DomainCreate
<1>3. /\ stored \in [Tables -> RowMaps] /\ cached \in [Tables -> RowMaps] /\ doubtful \subseteq Tables
    BY <1>1 DEF SnapshotTypeOK
<1> HIDE DEF t
<1>4. 1 \in 0..MaxValue
    BY SnapshotAssumption
<1>5. stored' \in [Tables -> RowMaps]
    BY <1>1, <1>2, <1>3, <1>4 DEF RowMaps
<1>6. request' \in [Requests -> SnapRequest]
    BY <1>1, <1>2, SoiledRequests
<1>7. SnapshotTypeOK'
    BY <1>1, <1>2, <1>3, <1>5, <1>6 DEF SnapshotTypeOK, SnapRequest
<1>8. \A u \in Tables \ {t} : stored'[u] = stored[u]
    BY <1>2, <1>3
<1>9. \A p \in Requests : request[p].table # t => request'[p] = request[p]
    BY <1>2 DEF Soiled
<1>10. \A p \in Requests : request[p].table = t => ~request'[p].clean /\ request'[p].table = t
    BY <1>1, <1>2, SoiledRequests
<1> QED BY <1>1, <1>2, <1>7, <1>8, <1>9, <1>10, DoubtInv

LEMMA ReloadQueryInv ==
    ASSUME SnapshotInv, NEW q \in Requests, ReloadQuery(q)
    PROVE  SnapshotInv'
<1> DEFINE t == request[q].table
<1>1. SnapshotTypeOK /\ CleanReloads /\ SureReloads /\ SnapshotFresh
    BY DEF SnapshotInv
<1>2. /\ stored \in [Tables -> RowMaps] /\ cached \in [Tables -> RowMaps]
      /\ request \in [Requests -> SnapRequest] /\ doubtful \subseteq Tables
    BY <1>1 DEF SnapshotTypeOK, SnapRequest
<1>3. t \in Tables /\ request[q].at = "query" /\ stored' = stored /\ cached' = cached
    BY <1>2 DEF ReloadQuery, SnapRequest
<1>4. CASE request' = [request EXCEPT ![q].at = "swap", ![q].seen = stored[t]] /\ UNCHANGED doubtful
    <2>1. request' \in [Requests -> SnapRequest]
        BY <1>2, <1>3, <1>4 DEF SnapRequest
    <2>2. /\ \A p \in Requests \ {q} : request'[p] = request[p]
          /\ request'[q].at = "swap" /\ request'[q].seen = stored[t]
          /\ request'[q].table = t /\ request'[q].clean = request[q].clean
        BY <1>2, <1>4 DEF SnapRequest
    <2>3. \A u \in Tables : Reloading(u)' = Reloading(u)
        BY <1>3, <2>2 DEF Reloading
    <2>4. SnapshotTypeOK'
        BY <1>1, <1>3, <1>4, <2>1 DEF SnapshotTypeOK, SnapRequest
    <2>5. \A u \in Tables : \A p \in Reloading(u) :
             /\ request'[p].clean = request[p].clean
             /\ \/ p # q /\ request'[p] = request[p]
                \/ p = q /\ u = t
        BY <2>2 DEF Reloading
    <2>6. CleanReloads'
        BY <1>1, <1>3, <2>2, <2>3, <2>5 DEF CleanReloads
    <2>7. doubtful' = doubtful
        BY <1>4
    <2>8. SureReloads'
        BY <1>1, <2>3, <2>5, <2>7 DEF SureReloads
    <2>9. SnapshotFresh'
        BY <1>1, <1>3, <2>3, <2>7 DEF SnapshotFresh
    <2> QED BY <2>4, <2>6, <2>8, <2>9 DEF SnapshotInv
<1>5. ASSUME NEW next \in SnapRequest, request' = [Soiled(t) EXCEPT ![q] = next], ~next.clean,
             next.table = t \/ next.at = "off", doubtful' = doubtful \cup {t}
      PROVE  SnapshotInv'
    <2>1. Soiled(t) \in [Requests -> SnapRequest]
        BY <1>1, <1>3, SoiledRequests
    <2>2. request' \in [Requests -> SnapRequest]
        BY <1>5, <2>1
    <2>3. SnapshotTypeOK'
        BY <1>2, <1>3, <1>5, <2>2 DEF SnapshotTypeOK, SnapRequest
    <2>4. \A p \in Requests \ {q} : request'[p] = Soiled(t)[p]
        BY <1>5, <2>1
    <2>5. request'[q] = next
        BY <1>5, <2>1
    <2>6. \A p \in Requests \ {q} : request[p].table # t => Soiled(t)[p] = request[p]
        BY DEF Soiled
    <2>7. \A p \in Requests : request[p].table # t => request'[p] = request[p]
        BY <2>4, <2>6
    <2>8. \A p \in Requests : request[p].table = t =>
              /\ ~request'[p].clean
              /\ request'[p].table = t \/ request'[p].at \notin {"query", "swap"}
        <3> SUFFICES ASSUME NEW p \in Requests, request[p].table = t
                     PROVE  /\ ~request'[p].clean
                            /\ request'[p].table = t \/ request'[p].at \notin {"query", "swap"}
            OBVIOUS
        <3>1. ~Soiled(t)[p].clean /\ Soiled(t)[p].table = t
            BY <1>1, <1>3, SoiledRequests
        <3> QED BY <1>5, <2>4, <2>5, <3>1
    <2> HIDE DEF t
    <2> QED BY <1>3, <1>5, <2>3, <2>7, <2>8, DoubtInv
<1>6. ASSUME NEW got \in SUBSET {k \in Keys : stored[t][k] # 0},
             request' = [Soiled(t) EXCEPT
                           ![q].at = "swap", ![q].clean = FALSE,
                           ![q].seen = [k \in Keys |-> IF k \in got THEN stored[t][k] ELSE 0]],
             doubtful' = doubtful \cup {t}
      PROVE  SnapshotInv'
    <2> DEFINE seen == [k \in Keys |-> IF k \in got THEN stored[t][k] ELSE 0]
               next == [Soiled(t)[q] EXCEPT !.at = "swap", !.clean = FALSE, !.seen = seen]
    <2>1. stored[t] \in RowMaps
        BY <1>2, <1>3
    <2>2. seen \in RowMaps
        BY <2>1, SnapshotAssumption DEF RowMaps
    <2>3. Soiled(t)[q] \in SnapRequest /\ Soiled(t)[q].table = t /\ Soiled(t) \in [Requests -> SnapRequest]
        BY <1>1, <1>3, SoiledRequests
    <2> HIDE DEF seen
    <2>4. next \in SnapRequest /\ ~next.clean /\ next.table = t
        BY <2>2, <2>3 DEF SnapRequest
    <2>5. request' = [Soiled(t) EXCEPT ![q] = next]
        BY <1>6, <2>3 DEF seen
    <2> QED BY <1>5, <1>6, <2>4, <2>5
<1>7. CASE request' = [Soiled(t) EXCEPT ![q] = IdleRequest] /\ doubtful' = doubtful \cup {t}
    BY <1>5, <1>7, NoRowsTyped DEF IdleRequest
<1> QED BY <1>4, <1>6, <1>7 DEF ReloadQuery

LEMMA ReloadSwapInv ==
    ASSUME SnapshotInv, NEW q \in Requests, ReloadSwap(q)
    PROVE  SnapshotInv'
<1> DEFINE t == request[q].table
           next == IF request[q].left = {} THEN IdleRequest
                   ELSE [IdleRequest EXCEPT !.at = "save", !.left = request[q].left]
<1>1. SnapshotTypeOK /\ CleanReloads /\ SureReloads /\ SnapshotFresh
    BY DEF SnapshotInv
<1>2. /\ stored \in [Tables -> RowMaps] /\ cached \in [Tables -> RowMaps]
      /\ request \in [Requests -> SnapRequest] /\ doubtful \subseteq Tables
    BY <1>1 DEF SnapshotTypeOK, SnapRequest
<1>3. t \in Tables /\ request[q].seen \in RowMaps /\ request[q].left \subseteq Keys /\ request[q].at = "swap"
    BY <1>2 DEF ReloadSwap, SnapRequest
<1>4. /\ stored' = stored /\ cached' = [cached EXCEPT ![t] = request[q].seen]
      /\ doubtful' = IF request[q].clean THEN doubtful \ {t} ELSE doubtful
      /\ request' = [request EXCEPT ![q] = next]
    BY DEF ReloadSwap, Swapped
<1>5. next \in SnapRequest /\ next.at \in {"off", "save"}
    BY <1>3, NoRowsTyped DEF IdleRequest, SnapRequest
<1> HIDE DEF next
<1>6. request' \in [Requests -> SnapRequest] /\ cached' \in [Tables -> RowMaps]
    BY <1>2, <1>3, <1>4, <1>5
<1>7. SnapshotTypeOK'
    BY <1>2, <1>4, <1>6 DEF SnapshotTypeOK, SnapRequest
<1>8. \A p \in Requests : request'[p] = IF p = q THEN next ELSE request[p]
    BY <1>2, <1>4
<1>9. q \in Reloading(t)
    BY <1>3 DEF Reloading
<1>10. \A u \in Tables : /\ Reloading(u)' = Reloading(u) \ {q}
                         /\ \A p \in Reloading(u)' : p # q /\ request'[p] = request[p]
    BY <1>5, <1>8 DEF Reloading
<1>11. \A u \in Tables \ {t} : q \notin Reloading(u) /\ cached'[u] = cached[u]
    BY <1>2, <1>4 DEF Reloading
<1>12. cached'[t] = request[q].seen
    BY <1>2, <1>3, <1>4
<1> HIDE DEF t
<1>13. CleanReloads'
    BY <1>1, <1>4, <1>10 DEF CleanReloads
<1>14. SureReloads'
    <2> SUFFICES ASSUME NEW u \in Tables \ doubtful', NEW p \in Reloading(u)' PROVE request'[p].clean
        BY DEF SureReloads
    <2>1. p \in Reloading(u) /\ p # q /\ request'[p] = request[p]
        BY <1>10
    <2>2. CASE u = t /\ request[q].clean
        BY <1>1, <1>9, <2>1, <2>2 DEF CleanReloads
    <2>3. CASE u # t \/ ~request[q].clean
        BY <1>1, <1>4, <2>1, <2>3 DEF SureReloads
    <2> QED BY <2>2, <2>3
<1>15. SnapshotFresh'
    <2> SUFFICES ASSUME NEW u \in Tables, Reloading(u)' = {}, u \notin doubtful'
                 PROVE  cached'[u] = stored'[u]
        BY DEF SnapshotFresh
    <2>1. CASE u # t
        BY <1>1, <1>4, <1>10, <1>11, <2>1 DEF SnapshotFresh
    <2>2. CASE u = t /\ request[q].clean
        BY <1>1, <1>3, <1>4, <1>9, <1>12, <2>2 DEF CleanReloads
    <2>3. CASE u = t /\ ~request[q].clean
        BY <1>1, <1>4, <1>9, <2>3 DEF SureReloads
    <2> QED BY <2>1, <2>2, <2>3
<1> QED BY <1>7, <1>13, <1>14, <1>15 DEF SnapshotInv

LEMMA SnapshotRestartInv == SnapshotInv /\ SnapshotRestart => SnapshotInv'
<1> SUFFICES ASSUME SnapshotInv, SnapshotRestart PROVE SnapshotInv'
    OBVIOUS
<1>1. PICK failed \in SUBSET Tables :
        /\ cached' = [t \in Tables |-> IF t \in failed THEN NoRows ELSE stored[t]]
        /\ doubtful' = failed
        /\ request' = [q \in Requests |-> IdleRequest] /\ stored' = stored
    BY DEF SnapshotRestart
<1>2. stored \in [Tables -> RowMaps]
    BY DEF SnapshotInv, SnapshotTypeOK
<1>3. cached' \in [Tables -> RowMaps] /\ request' \in [Requests -> SnapRequest]
    BY <1>1, <1>2, NoRowsTyped
<1>4. SnapshotTypeOK'
    BY <1>1, <1>2, <1>3 DEF SnapshotTypeOK, SnapRequest
<1>5. \A t \in Tables : Reloading(t)' = {}
    BY <1>1 DEF Reloading, IdleRequest
<1> QED BY <1>1, <1>4, <1>5 DEF SnapshotInv, CleanReloads, SureReloads, SnapshotFresh

LEMMA SnapshotStepInv == SnapshotInv /\ SnapshotNext => SnapshotInv'
<1> SUFFICES ASSUME SnapshotInv, SnapshotNext PROVE SnapshotInv'
    OBVIOUS
<1>1. ASSUME NEW q \in Requests, ReloadQuery(q) \/ ReloadSwap(q) PROVE SnapshotInv'
    BY <1>1, ReloadQueryInv, ReloadSwapInv
<1>2. ASSUME NEW q \in Requests, NEW ks \in SUBSET Keys, SettingsOpen(q, ks) PROVE SnapshotInv'
    BY <1>2, SettingsOpenInv
<1>3. ASSUME NEW q \in Requests, NEW k \in Keys, CauseDelete(q, k) \/ DomainDelete(q, k) PROVE SnapshotInv'
    <2>1. 0 \in 0..MaxValue /\ {} \in SUBSET Keys /\ {"causes", "domains"} \subseteq Tables
        BY SnapshotAssumption DEF Tables
    <2>2. PICK t \in {"causes", "domains"} : request[q].at = "off" /\ Write(q, t, k, 0, {})
        BY <1>3 DEF CauseDelete, DomainDelete
    <2> QED BY <2>1, <2>2, WriteInv
<1>4. ASSUME NEW q \in Requests, NEW k \in Keys, NEW v \in 1..MaxValue,
             SettingsSet(q, k, v) \/ CauseUpsert(q, k, v) \/ DomainUpdate(q, k, v)
      PROVE  SnapshotInv'
    <2>1. v \in 0..MaxValue /\ {} \in SUBSET Keys /\ {"settings", "causes", "domains"} \subseteq Tables
        BY SnapshotAssumption DEF Tables
    <2>2. request[q].left \subseteq Keys
        BY DEF SnapshotInv, SnapshotTypeOK
    <2>3. CASE SettingsSet(q, k, v)
        <3>1. request[q].at = "save" /\ Write(q, "settings", k, v, request[q].left \ {k})
            BY <2>3 DEF SettingsSet
        <3>2. request[q].left \ {k} \in SUBSET Keys
            BY <2>2
        <3> QED BY <2>1, <3>1, <3>2, WriteInv
    <2>4. CASE CauseUpsert(q, k, v) \/ DomainUpdate(q, k, v)
        <3>1. PICK t \in {"causes", "domains"} : request[q].at = "off" /\ Write(q, t, k, v, {})
            BY <2>4 DEF CauseUpsert, DomainUpdate
        <3> QED BY <2>1, <3>1, WriteInv
    <2> QED BY <1>4, <2>3, <2>4
<1>5. ASSUME NEW k \in Keys, DomainCreate(k) PROVE SnapshotInv'
    BY <1>5, DomainCreateInv
<1>6. CASE SnapshotRestart
    BY <1>6, SnapshotRestartInv
<1> QED BY <1>1, <1>2, <1>3, <1>4, <1>5, <1>6 DEF SnapshotNext

LEMMA SnapshotInvariant == SnapshotSpec => []SnapshotInv
<1>1. SnapshotInv /\ UNCHANGED snapshotVars => SnapshotInv'
    BY DEF SnapshotInv, SnapshotTypeOK, CleanReloads, SureReloads, SnapshotFresh, Reloading, snapshotVars
<1> QED BY <1>1, SnapshotInitInv, SnapshotStepInv, PTL DEF SnapshotSpec

\* The tables, their copies and the requests that reload them keep their types.
THEOREM SnapshotTypeCorrect == SnapshotSpec => []SnapshotTypeOK
<1>1. SnapshotInv => SnapshotTypeOK
    BY DEF SnapshotInv
<1> QED BY <1>1, SnapshotInvariant, PTL

\* What one request has saved the next page shows, for any number of rows and requests:
\* only reloads that crossed, failed or came short leave an old copy, and domains added.
THEOREM CopiesAreFresh == SnapshotSpec => []SnapshotFresh
<1>1. SnapshotInv => SnapshotFresh
    BY DEF SnapshotInv
<1> QED BY <1>1, SnapshotInvariant, PTL

-----------------------------------------------------------------------------
(* The documents of a bundle *)

Held(d) == doc[d].row \/ Underway(d) \/ Erasing(d)

\* Two documents that have one name at a time are both known to have shared it.
SharersKnown ==
    \A d, e \in Docs : d # e /\ doc[d].name = doc[e].name /\ Held(d) /\ Held(e) => d \in shared

\* What an upload writes goes into the file that has its name.
UploadsLinked ==
    \A d \in Docs \ shared :
        /\ Underway(d) => doc[d].linked
        /\ doc[d].at = "copied" => paper[doc[d].name] = d

\* A deletion is of a document that was uploaded, and past its DELETE the row is gone.
ErasersLate ==
    \A k \in Erasers : eraser[k].doc # NoDoc =>
        /\ doc[eraser[k].doc].at = "over"
        /\ eraser[k].deleted => ~doc[eraser[k].doc].row

DocInv == DocTypeOK /\ SharersKnown /\ UploadsLinked /\ ErasersLate /\ DocIntact

DocForm == [name : FileNames, row : BOOLEAN, linked : BOOLEAN, at : {"new", "open", "copied", "over"}]
EraserForm == [doc : Docs \cup {NoDoc}, deleted : BOOLEAN]

LEMMA DocInitInv == DocInit => DocInv
<1> SUFFICES ASSUME DocInit PROVE DocInv
    OBVIOUS
<1>1. /\ paper = [n \in FileNames |-> NoFile]
      /\ doc \in [Docs -> [name : FileNames, row : {FALSE}, linked : {FALSE}, at : {"new"}]]
      /\ eraser = [k \in Erasers |-> [doc |-> NoDoc, deleted |-> FALSE]]
      /\ shared = {} /\ doubted = {}
    BY DEF DocInit
<1>2. \A d \in Docs : doc[d] \in DocForm /\ ~doc[d].row /\ doc[d].at = "new"
    BY <1>1 DEF DocForm
<1>3. doc \in [Docs -> DocForm]
    BY <1>1, <1>2
<1>4. DocTypeOK
    BY <1>1, <1>2, <1>3 DEF DocTypeOK, DocForm
<1>5. \A d \in Docs : ~Held(d)
    BY <1>1, <1>2, DocAssumption DEF Held, Underway, Erasing
<1> QED BY <1>1, <1>2, <1>4, <1>5 DEF DocInv, SharersKnown, UploadsLinked, ErasersLate, DocIntact, Underway

LEMMA DocTypes ==
    ASSUME DocInv
    PROVE  /\ paper \in [FileNames -> Docs \cup {NoFile, Cut}]
           /\ doc \in [Docs -> DocForm] /\ eraser \in [Erasers -> EraserForm]
           /\ shared \subseteq Docs /\ doubted \subseteq Docs
           /\ \A d \in Docs : doc[d].row => doc[d].at = "over"
BY DEF DocInv, DocTypeOK, DocForm, EraserForm

\* Nobody else has the name of a document that never shared it.
LEMMA SoleHolder ==
    ASSUME DocInv, NEW d \in Docs, NEW e \in Docs, d # e, doc[d].name = doc[e].name,
           Held(d), d \notin shared
    PROVE  ~Held(e)
BY DEF DocInv, SharersKnown

LEMMA DocOpenInv ==
    ASSUME DocInv, NEW d \in Docs, DocOpen(d)
    PROVE  DocInv'
<1> DEFINE n == doc[d].name
<1>1. /\ paper \in [FileNames -> Docs \cup {NoFile, Cut}]
      /\ doc \in [Docs -> DocForm] /\ eraser \in [Erasers -> EraserForm]
      /\ shared \subseteq Docs /\ doubted \subseteq Docs
      /\ \A e \in Docs : doc[e].row => doc[e].at = "over"
    BY DocTypes
<1>2. SharersKnown /\ UploadsLinked /\ ErasersLate /\ DocIntact
    BY DEF DocInv
<1>3. /\ doc[d].at = "new" /\ n \in FileNames
      /\ doc' = [doc EXCEPT ![d].at = "open", ![d].linked = TRUE]
      /\ paper' = [paper EXCEPT ![n] = Cut]
      /\ shared' = IF Holders(n) = {} THEN shared ELSE shared \cup Holders(n) \cup {d}
      /\ eraser' = eraser /\ doubted' = doubted
    BY <1>1 DEF DocOpen, DocForm
<1>4. doc' \in [Docs -> DocForm]
    BY <1>1, <1>3 DEF DocForm
<1>5. /\ \A e \in Docs \ {d} : doc'[e] = doc[e]
      /\ doc'[d].name = n /\ doc'[d].row = doc[d].row /\ doc'[d].at = "open" /\ doc'[d].linked
    BY <1>1, <1>3 DEF DocForm
<1>6. paper' \in [FileNames -> Docs \cup {NoFile, Cut}] /\ \A m \in FileNames \ {n} : paper'[m] = paper[m]
    BY <1>1, <1>3
<1>7. ~doc[d].row
    BY <1>1, <1>3
<1>8. shared' \subseteq Docs /\ shared \subseteq shared'
    BY <1>1, <1>3 DEF Holders
<1>9. DocTypeOK'
    <2>1. \A e \in Docs : doc'[e].row => doc'[e].at = "over"
        BY <1>1, <1>5, <1>7
    <2> QED BY <1>1, <1>3, <1>4, <1>6, <1>8, <2>1 DEF DocTypeOK, DocForm, EraserForm
<1>10. \A e \in Docs \ {d} : Held(e)' <=> Held(e)
    BY <1>3, <1>5 DEF Held, Underway, Erasing
<1>11. \A e \in Docs \ {d} : doc[e].name = n /\ Held(e) => {d, e} \subseteq shared'
    BY <1>3 DEF Holders, Held
<1>12. \A e \in Docs : doc'[e].name = doc[e].name
    BY <1>5
<1>13. SharersKnown'
    BY <1>2, <1>8, <1>10, <1>11, <1>12 DEF SharersKnown
<1>14. \A e \in Docs \ shared' : e # d /\ Held(e) => paper'[doc[e].name] = paper[doc[e].name]
    <2>1. \A e \in Docs : doc[e].name \in FileNames
        BY <1>1 DEF DocForm
    <2> QED BY <1>6, <1>11, <2>1
<1>15. UploadsLinked'
    BY <1>2, <1>5, <1>8, <1>14 DEF UploadsLinked, Underway, Held
<1>16. DocIntact'
    <2> SUFFICES ASSUME NEW e \in Docs, doc'[e].row, e \notin shared', e \notin doubted'
                 PROVE  paper'[doc'[e].name] = e
        BY DEF DocIntact
    <2>1. e # d /\ doc'[e] = doc[e]
        BY <1>5, <1>7
    <2>2. Held(e) /\ e \notin shared \cup doubted
        BY <1>3, <1>8, <2>1 DEF Held
    <2> QED BY <1>2, <1>14, <2>1, <2>2 DEF DocIntact, Held
<1>17. ErasersLate'
    BY <1>1, <1>2, <1>3, <1>5, DocAssumption DEF ErasersLate, EraserForm
<1> QED BY <1>9, <1>13, <1>15, <1>16, <1>17 DEF DocInv

\* An upload that is copied, inserted or stopped: only its own file and row change.
LEMMA DocCopyInv ==
    ASSUME DocInv, NEW d \in Docs, DocCopy(d)
    PROVE  DocInv'
<1> DEFINE n == doc[d].name
<1>1. /\ paper \in [FileNames -> Docs \cup {NoFile, Cut}]
      /\ doc \in [Docs -> DocForm] /\ eraser \in [Erasers -> EraserForm]
      /\ shared \subseteq Docs /\ doubted \subseteq Docs
      /\ \A e \in Docs : doc[e].row => doc[e].at = "over"
    BY DocTypes
<1>2. SharersKnown /\ UploadsLinked /\ ErasersLate /\ DocIntact
    BY DEF DocInv
<1>3. /\ doc[d].at = "open" /\ n \in FileNames
      /\ doc' = [doc EXCEPT ![d].at = "copied"]
      /\ shared' = shared /\ eraser' = eraser /\ doubted' = doubted
    BY <1>1 DEF DocCopy, DocForm
<1>4. /\ paper' \in [FileNames -> Docs \cup {NoFile, Cut}]
      /\ \A m \in FileNames \ {n} : paper'[m] = paper[m]
    BY <1>1, <1>3 DEF DocCopy
<1>5. d \notin shared => paper'[n] = d
    BY <1>1, <1>2, <1>3 DEF DocCopy, UploadsLinked, Underway
<1>6. doc' \in [Docs -> DocForm]
    BY <1>1, <1>3 DEF DocForm
<1>7. /\ \A e \in Docs \ {d} : doc'[e] = doc[e]
      /\ doc'[d].name = n /\ doc'[d].row = doc[d].row /\ doc'[d].at = "copied" /\ doc'[d].linked = doc[d].linked
    BY <1>1, <1>3 DEF DocForm
<1>8. ~doc[d].row
    BY <1>1, <1>3
<1>9. DocTypeOK'
    <2>1. \A e \in Docs : doc'[e].row => doc'[e].at = "over"
        BY <1>1, <1>7, <1>8
    <2> QED BY <1>1, <1>3, <1>4, <1>6, <2>1 DEF DocTypeOK, DocForm, EraserForm
<1>10. \A e \in Docs : (Held(e)' <=> Held(e)) /\ doc'[e].name = doc[e].name
    BY <1>3, <1>7 DEF Held, Underway, Erasing
<1>11. SharersKnown'
    BY <1>2, <1>3, <1>10 DEF SharersKnown
<1>12. Held(d)
    BY <1>3 DEF Held, Underway
<1>13. \A e \in Docs \ shared : e # d /\ Held(e) => paper'[doc[e].name] = paper[doc[e].name]
    <2>1. \A e \in Docs : doc[e].name \in FileNames
        BY <1>1 DEF DocForm
    <2> QED BY <1>4, <1>12, <2>1, SoleHolder
<1>14. UploadsLinked'
    BY <1>2, <1>3, <1>5, <1>7, <1>13 DEF UploadsLinked, Underway, Held
<1>15. DocIntact'
    BY <1>2, <1>3, <1>7, <1>8, <1>13 DEF DocIntact, Held
<1>16. ErasersLate'
    BY <1>1, <1>2, <1>3, <1>7, DocAssumption DEF ErasersLate, EraserForm
<1> QED BY <1>9, <1>11, <1>14, <1>15, <1>16 DEF DocInv

LEMMA DocInsertInv ==
    ASSUME DocInv, NEW d \in Docs, DocInsert(d) \/ DocCrash(d)
    PROVE  DocInv'
<1>1. /\ paper \in [FileNames -> Docs \cup {NoFile, Cut}]
      /\ doc \in [Docs -> DocForm] /\ eraser \in [Erasers -> EraserForm]
      /\ shared \subseteq Docs /\ doubted \subseteq Docs
      /\ \A e \in Docs : doc[e].row => doc[e].at = "over"
    BY DocTypes
<1>2. SharersKnown /\ UploadsLinked /\ ErasersLate /\ DocIntact
    BY DEF DocInv
<1>3. /\ Underway(d) /\ UNCHANGED <<paper, eraser, shared, doubted>>
      /\ \/ doc' = [doc EXCEPT ![d].at = "over"]
         \/ doc[d].at = "copied" /\ doc' = [doc EXCEPT ![d].at = "over", ![d].row = TRUE]
    BY DEF DocInsert, DocCrash, Underway
<1>4. doc' \in [Docs -> DocForm]
    BY <1>1, <1>3 DEF DocForm
<1>5. /\ \A e \in Docs \ {d} : doc'[e] = doc[e]
      /\ doc'[d].name = doc[d].name /\ doc'[d].at = "over"
      /\ doc'[d].row => doc[d].at = "copied"
    <2>1. ~doc[d].row
        BY <1>1, <1>3 DEF Underway
    <2> QED BY <1>1, <1>3, <2>1 DEF DocForm
<1>6. DocTypeOK'
    <2>1. \A e \in Docs : doc'[e].row => doc'[e].at = "over"
        BY <1>1, <1>5
    <2> QED BY <1>1, <1>3, <1>4, <2>1 DEF DocTypeOK, DocForm, EraserForm
<1>7. \A e \in Docs : (Held(e)' => Held(e)) /\ doc'[e].name = doc[e].name
    BY <1>3, <1>5 DEF Held, Underway, Erasing
<1>8. SharersKnown'
    BY <1>2, <1>3, <1>7 DEF SharersKnown
<1>9. UploadsLinked'
    BY <1>2, <1>3, <1>5 DEF UploadsLinked, Underway
<1>10. DocIntact'
    BY <1>2, <1>3, <1>5 DEF DocIntact, UploadsLinked
<1>11. ErasersLate'
    BY <1>1, <1>2, <1>3, <1>5, DocAssumption DEF ErasersLate, EraserForm, Underway
<1> QED BY <1>6, <1>8, <1>9, <1>10, <1>11 DEF DocInv

\* A file is removed under its name, for a document that holds the name and keeps no row
\* but one that is doubted: it was nobody else's, or that document is known to share it.
LEMMA UnlinkInv ==
    ASSUME DocInv, NEW d \in Docs, Held(d), NEW row \in BOOLEAN,
           paper' = [paper EXCEPT ![doc[d].name] = NoFile],
           doc'[d].name = doc[d].name, doc'[d].row = row, doc'[d].at = "over",
           \A e \in Docs \ {d} :
              /\ doc'[e].name = doc[e].name /\ doc'[e].row = doc[e].row /\ doc'[e].at = doc[e].at
              /\ doc[e].name # doc[d].name => doc'[e].linked = doc[e].linked,
           doc' \in [Docs -> DocForm],
           row => d \in doubted', doubted \subseteq doubted', doubted' \subseteq Docs, shared' = shared,
           eraser' \in [Erasers -> EraserForm],
           \A k \in Erasers : eraser'[k] = eraser[k] \/ eraser'[k].doc = NoDoc,
           row => ~Erasing(d)
    PROVE  DocInv'
<1> DEFINE n == doc[d].name
<1>1. /\ paper \in [FileNames -> Docs \cup {NoFile, Cut}]
      /\ doc \in [Docs -> DocForm] /\ eraser \in [Erasers -> EraserForm]
      /\ shared \subseteq Docs /\ doubted \subseteq Docs
      /\ \A e \in Docs : doc[e].row => doc[e].at = "over"
    BY DocTypes
<1>2. SharersKnown /\ UploadsLinked /\ ErasersLate /\ DocIntact
    BY DEF DocInv
<1>3. \A e \in Docs : doc[e].name \in FileNames
    BY <1>1 DEF DocForm
<1>4. paper' \in [FileNames -> Docs \cup {NoFile, Cut}] /\ \A m \in FileNames \ {n} : paper'[m] = paper[m]
    BY <1>1, <1>3
<1>6. doc'[d].name = n /\ doc'[d].row = row /\ doc'[d].at = "over"
    OBVIOUS
<1>7. \A e \in Docs \ {d} :
         /\ doc'[e].name = doc[e].name /\ doc'[e].row = doc[e].row /\ doc'[e].at = doc[e].at
         /\ doc[e].name # n => doc'[e].linked = doc[e].linked
    OBVIOUS
<1>8. DocTypeOK'
    <2>1. \A e \in Docs : doc'[e].row => doc'[e].at = "over"
        BY <1>1, <1>6, <1>7
    <2> QED BY <1>1, <1>4, <2>1 DEF DocTypeOK, DocForm, EraserForm
<1>9. \A e \in Docs : (Erasing(e)' => Erasing(e)) /\ doc'[e].name = doc[e].name
    BY <1>6, <1>7, DocAssumption DEF Erasing
<1>10. \A e \in Docs : Held(e)' => Held(e)
    BY <1>6, <1>7, <1>9 DEF Held, Underway
<1>11. SharersKnown'
    BY <1>2, <1>9, <1>10 DEF SharersKnown
<1>12. \A e \in Docs \ shared : e # d /\ Held(e) => doc[e].name # n /\ paper'[doc[e].name] = paper[doc[e].name]
    <2>1. \A e \in Docs \ shared : e # d /\ Held(e) => doc[e].name # n
        BY SoleHolder
    <2> QED BY <1>3, <1>4, <2>1
<1>13. UploadsLinked'
    BY <1>2, <1>6, <1>7, <1>12 DEF UploadsLinked, Underway, Held
<1>14. DocIntact'
    <2> SUFFICES ASSUME NEW e \in Docs, doc'[e].row, e \notin shared', e \notin doubted'
                 PROVE  paper'[doc'[e].name] = e
        BY DEF DocIntact
    <2>1. e # d /\ doc[e].row /\ doc'[e].name = doc[e].name
        BY <1>6, <1>7
    <2>2. Held(e) /\ e \notin shared \cup doubted
        BY <2>1 DEF Held
    <2> QED BY <1>2, <1>12, <2>1, <2>2 DEF DocIntact
<1>15. ErasersLate'
    <2> SUFFICES ASSUME NEW k \in Erasers, eraser'[k].doc # NoDoc
                 PROVE  /\ doc'[eraser'[k].doc].at = "over"
                        /\ eraser'[k].deleted => ~doc'[eraser'[k].doc].row
        BY DEF ErasersLate
    <2>1. eraser'[k] = eraser[k] /\ eraser[k].doc \in Docs
        BY <1>1 DEF EraserForm
    <2>2. CASE eraser[k].doc = d
        BY <1>6, <2>1, <2>2 DEF Erasing
    <2>3. CASE eraser[k].doc # d
        BY <1>2, <1>7, <2>1, <2>3 DEF ErasersLate
    <2> QED BY <2>2, <2>3
<1> QED BY <1>8, <1>11, <1>13, <1>14, <1>15 DEF DocInv

\* What removing the file of a name does to the uploads that write it.
LEMMA UnlinkedUploads ==
    ASSUME DocInv, NEW n \in FileNames
    PROVE  /\ Unlinked(n) \in [Docs -> DocForm]
           /\ \A e \in Docs :
                 /\ Unlinked(n)[e].name = doc[e].name /\ Unlinked(n)[e].row = doc[e].row
                 /\ Unlinked(n)[e].at = doc[e].at
                 /\ doc[e].name # n => Unlinked(n)[e].linked = doc[e].linked
<1>1. doc \in [Docs -> DocForm]
    BY DocTypes
<1>2. \A e \in Docs : [doc[e] EXCEPT !.linked = FALSE] \in DocForm
    BY <1>1 DEF DocForm
<1>3. \A e \in Docs : Unlinked(n)[e] = IF doc[e].name = n THEN [doc[e] EXCEPT !.linked = FALSE] ELSE doc[e]
    BY DEF Unlinked
<1>4. Unlinked(n) \in [Docs -> DocForm]
    BY <1>1, <1>2 DEF Unlinked
<1> QED BY <1>1, <1>3, <1>4 DEF DocForm

LEMMA DocFailsInv ==
    ASSUME DocInv, NEW d \in Docs, DocFails(d)
    PROVE  DocInv'
<1> DEFINE n == doc[d].name
<1>1. /\ doc \in [Docs -> DocForm] /\ eraser \in [Erasers -> EraserForm] /\ doubted \subseteq Docs
    BY DocTypes
<1>2. n \in FileNames /\ Held(d) /\ ~doc[d].row /\ ~Erasing(d)
    <2>1. \A k \in Erasers : eraser[k].doc # NoDoc => doc[eraser[k].doc].at = "over"
        BY DEF DocInv, ErasersLate
    <2>2. Underway(d)
        BY DEF DocFails
    <2> QED BY <1>1, <2>1, <2>2, DocTypes, DocAssumption DEF DocForm, Held, Underway, Erasing
<1>3. paper' = [paper EXCEPT ![n] = NoFile] /\ shared' = shared /\ eraser' = eraser
    BY DEF DocFails
<1>4. /\ Unlinked(n) \in [Docs -> DocForm]
      /\ \A e \in Docs :
            /\ Unlinked(n)[e].name = doc[e].name /\ Unlinked(n)[e].row = doc[e].row
            /\ Unlinked(n)[e].at = doc[e].at
            /\ doc[e].name # n => Unlinked(n)[e].linked = doc[e].linked
    BY <1>2, UnlinkedUploads
<1>5. ASSUME doc' = [Unlinked(n) EXCEPT ![d].at = "over"], doubted' = doubted
      PROVE  DocInv'
    <2>1. doc' \in [Docs -> DocForm]
        BY <1>4, <1>5 DEF DocForm
    <2>2. /\ doc'[d].name = n /\ doc'[d].row = FALSE /\ doc'[d].at = "over"
          /\ \A e \in Docs \ {d} : doc'[e] = Unlinked(n)[e]
        BY <1>2, <1>4, <1>5 DEF DocForm
    <2> QED BY <1>1, <1>2, <1>3, <1>4, <1>5, <2>1, <2>2, UnlinkInv
<1>6. ASSUME doc' = [Unlinked(n) EXCEPT ![d].at = "over", ![d].row = TRUE], doubted' = doubted \cup {d}
      PROVE  DocInv'
    <2>1. doc' \in [Docs -> DocForm]
        BY <1>4, <1>6 DEF DocForm
    <2>2. /\ doc'[d].name = n /\ doc'[d].row = TRUE /\ doc'[d].at = "over"
          /\ \A e \in Docs \ {d} : doc'[e] = Unlinked(n)[e]
        BY <1>4, <1>6 DEF DocForm
    <2> QED BY <1>1, <1>2, <1>3, <1>4, <1>6, <2>1, <2>2, UnlinkInv
<1> QED BY <1>5, <1>6 DEF DocFails

LEMMA EraseFileInv ==
    ASSUME DocInv, NEW k \in Erasers, EraseFile(k)
    PROVE  DocInv'
<1> DEFINE d == eraser[k].doc
           n == doc[d].name
<1>1. /\ doc \in [Docs -> DocForm] /\ eraser \in [Erasers -> EraserForm] /\ doubted \subseteq Docs
    BY DocTypes
<1>2. d \in Docs /\ eraser[k].deleted
    BY <1>1 DEF EraseFile, EraserForm
<1>3. n \in FileNames /\ Held(d) /\ doc[d].row = FALSE /\ doc[d].at = "over"
    <2>1. doc[d].at = "over" /\ ~doc[d].row
        BY <1>2, DocAssumption DEF DocInv, ErasersLate
    <2> QED BY <1>1, <1>2, <2>1 DEF Held, Erasing, DocForm
<1>4. /\ paper' = [paper EXCEPT ![n] = NoFile] /\ doc' = Unlinked(n)
      /\ eraser' = [eraser EXCEPT ![k] = [doc |-> NoDoc, deleted |-> FALSE]]
      /\ shared' = shared /\ doubted' = doubted
    BY DEF EraseFile
<1>5. /\ eraser' \in [Erasers -> EraserForm]
      /\ \A l \in Erasers : eraser'[l] = eraser[l] \/ eraser'[l].doc = NoDoc
    BY <1>1, <1>4 DEF EraserForm
<1>6. /\ Unlinked(n) \in [Docs -> DocForm]
      /\ \A e \in Docs :
            /\ Unlinked(n)[e].name = doc[e].name /\ Unlinked(n)[e].row = doc[e].row
            /\ Unlinked(n)[e].at = doc[e].at
            /\ doc[e].name # n => Unlinked(n)[e].linked = doc[e].linked
    BY <1>3, UnlinkedUploads
<1>7. /\ doc'[d].name = doc[d].name /\ doc'[d].row = FALSE /\ doc'[d].at = "over"
      /\ doc' \in [Docs -> DocForm]
      /\ \A e \in Docs \ {d} :
            /\ doc'[e].name = doc[e].name /\ doc'[e].row = doc[e].row /\ doc'[e].at = doc[e].at
            /\ doc[e].name # doc[d].name => doc'[e].linked = doc[e].linked
    BY <1>2, <1>3, <1>4, <1>6
<1>8. doubted \subseteq doubted' /\ doubted' \subseteq Docs /\ paper' = [paper EXCEPT ![doc[d].name] = NoFile]
    BY <1>1, <1>4
<1>9. shared' = shared /\ Held(d)
    BY <1>3, <1>4
<1> HIDE DEF d, n
<1> QED BY <1>2, <1>5, <1>7, <1>8, <1>9, UnlinkInv

LEMMA EraseOtherInv ==
    ASSUME DocInv, NEW k \in Erasers,
           EraseRow(k) \/ EraseStops(k) \/ \E d \in Docs : EraseOpen(k, d)
    PROVE  DocInv'
<1>1. /\ paper \in [FileNames -> Docs \cup {NoFile, Cut}]
      /\ doc \in [Docs -> DocForm] /\ eraser \in [Erasers -> EraserForm]
      /\ shared \subseteq Docs /\ doubted \subseteq Docs
      /\ \A e \in Docs : doc[e].row => doc[e].at = "over"
    BY DocTypes
<1>2. SharersKnown /\ UploadsLinked /\ ErasersLate /\ DocIntact
    BY DEF DocInv
<1>3. paper' = paper /\ shared' = shared /\ doubted' = doubted
    BY DEF EraseRow, EraseStops, EraseOpen
<1>4. CASE EraseRow(k)
    <2> DEFINE d == eraser[k].doc
    <2>1. d \in Docs /\ doc' = [doc EXCEPT ![d].row = FALSE] /\ eraser' = [eraser EXCEPT ![k].deleted = TRUE]
        BY <1>1, <1>4 DEF EraseRow, EraserForm
    <2>2. doc' \in [Docs -> DocForm] /\ eraser' \in [Erasers -> EraserForm]
        BY <1>1, <2>1 DEF DocForm, EraserForm
    <2>3. \A e \in Docs : /\ doc'[e].name = doc[e].name /\ doc'[e].at = doc[e].at
                          /\ doc'[e].linked = doc[e].linked
                          /\ doc'[e].row = (doc[e].row /\ e # d)
        BY <1>1, <2>1 DEF DocForm
    <2>4. \A l \in Erasers : eraser'[l].doc = eraser[l].doc /\ (l # k => eraser'[l] = eraser[l])
        BY <1>1, <2>1 DEF EraserForm
    <2>5. DocTypeOK'
        <3>1. \A e \in Docs : doc'[e].row => doc'[e].at = "over"
            BY <1>1, <2>3
        <3> QED BY <1>1, <1>3, <2>2, <3>1 DEF DocTypeOK, DocForm, EraserForm
    <2>6. \A e \in Docs : Held(e)' => Held(e)
        BY <2>3, <2>4 DEF Held, Underway, Erasing
    <2>7. SharersKnown' /\ UploadsLinked'
        BY <1>2, <1>3, <2>3, <2>6 DEF SharersKnown, UploadsLinked, Underway
    <2>8. DocIntact'
        BY <1>2, <1>3, <2>3 DEF DocIntact
    <2>9. ErasersLate'
        <3> SUFFICES ASSUME NEW l \in Erasers, eraser'[l].doc # NoDoc
                     PROVE  /\ doc'[eraser'[l].doc].at = "over"
                            /\ eraser'[l].deleted => ~doc'[eraser'[l].doc].row
            BY DEF ErasersLate
        <3>1. eraser[l].doc \in Docs
            BY <1>1, <2>4 DEF EraserForm
        <3> QED BY <1>2, <2>3, <2>4, <3>1 DEF ErasersLate
    <2> QED BY <2>5, <2>7, <2>8, <2>9 DEF DocInv
<1>5. ASSUME doc' = doc, NEW new \in EraserForm, eraser' = [eraser EXCEPT ![k] = new], ~new.deleted,
             new.doc = NoDoc \/ (new.doc \in Docs /\ doc[new.doc].row)
      PROVE  DocInv'
    <2>1. eraser' \in [Erasers -> EraserForm]
        BY <1>1, <1>5
    <2>2. eraser'[k] = new /\ \A l \in Erasers \ {k} : eraser'[l] = eraser[l]
        BY <1>1, <1>5
    <2>3. DocTypeOK'
        BY <1>1, <1>3, <1>5, <2>1 DEF DocTypeOK, DocForm, EraserForm
    <2>4. \A e \in Docs : Held(e)' => Held(e)
        BY <1>5, <2>2, DocAssumption DEF Held, Underway, Erasing
    <2>5. SharersKnown' /\ UploadsLinked' /\ DocIntact'
        BY <1>2, <1>3, <1>5, <2>4 DEF SharersKnown, UploadsLinked, Underway, DocIntact
    <2>6. ErasersLate'
        BY <1>1, <1>2, <1>5, <2>2 DEF ErasersLate
    <2> QED BY <2>3, <2>5, <2>6 DEF DocInv
<1>6. CASE EraseStops(k)
    <2> DEFINE new == [doc |-> NoDoc, deleted |-> FALSE]
    <2>1. new \in EraserForm /\ ~new.deleted /\ new.doc = NoDoc
        BY DEF EraserForm
    <2>2. doc' = doc /\ eraser' = [eraser EXCEPT ![k] = new]
        BY <1>6 DEF EraseStops
    <2> HIDE DEF new
    <2> QED BY <1>5, <2>1, <2>2
<1>7. ASSUME NEW d \in Docs, EraseOpen(k, d) PROVE DocInv'
    <2> DEFINE new == [doc |-> d, deleted |-> FALSE]
    <2>1. new \in EraserForm /\ ~new.deleted /\ new.doc = d
        BY DEF EraserForm
    <2>2. doc' = doc /\ eraser' = [eraser EXCEPT ![k] = new] /\ doc[d].row
        BY <1>7 DEF EraseOpen
    <2> HIDE DEF new
    <2> QED BY <1>5, <2>1, <2>2
<1> QED BY <1>4, <1>6, <1>7

LEMMA DocInvariant == DocSpec => []DocInv
<1>1. DocInv /\ DocNext => DocInv'
    BY DocOpenInv, DocCopyInv, DocInsertInv, DocFailsInv, EraseFileInv, EraseOtherInv DEF DocNext
<1>2. DocInv /\ UNCHANGED docVars => DocInv'
    BY DEF DocInv, DocTypeOK, SharersKnown, UploadsLinked, ErasersLate, DocIntact, Held, Underway,
           Erasing, docVars
<1> QED BY <1>1, <1>2, DocInitInv, PTL DEF DocSpec

\* Documents keep their types, and none has a row before its file was copied (kycDocUpload).
THEOREM DocTypeCorrect == DocSpec => []DocTypeOK
<1>1. DocInv => DocTypeOK
    BY DEF DocInv
<1> QED BY <1>1, DocInvariant, PTL

\* A document whose row is there opens as it was uploaded, whatever uploads fail, deletions
\* run and processes stop beside it, for any number of them, unless its name was in use.
THEOREM DocumentsIntact == DocSpec => []DocIntact
<1>1. DocInv => DocIntact
    BY DEF DocInv
<1> QED BY <1>1, DocInvariant, PTL

-----------------------------------------------------------------------------
(* The clips *)

\* What the types do not say of a request: a file that was converted has a name within the
\* bound; and so have, within theirs, the files still to come.
Proper(t) ==
    /\ t \in Tasks
    /\ t.kind \in {"convert", "insert", "link"} => t.name + t.left <= MaxName + BulkSize
    /\ t.kind \in {"insert", "link"} => t.clip \in Clips /\ t.name <= MaxName
    /\ t.kind = "link" => t.group \in ClipGroups

AudioTyped == AudioTypeOK /\ \A k \in Desks : Proper(desk[k])

\* A basename is used once: what has a row, and what is about to get or lose one, was drawn.
RowsDrawn ==
    /\ \A f \in Clips : HasRow(f) => f \in drawn
    /\ \A k \in Desks : desk[k].kind \in {"insert", "delete", "unlink"} => desk[k].clip \in drawn

\* A clip whose row is about to be inserted has its file, and no other request is about it;
\* a clip whose file is about to be removed has no row.
FilesFirst ==
    \A k \in Desks :
        /\ desk[k].kind = "insert" =>
              /\ desk[k].clip \in disk /\ ~HasRow(desk[k].clip)
              /\ \A m \in Desks \ {k} :
                    desk[m].kind \in {"insert", "delete", "unlink"} => desk[m].clip # desk[k].clip
        /\ desk[k].kind = "unlink" => ~HasRow(desk[k].clip)

RowsInv == RowsDrawn /\ FilesFirst /\ RowHasFile

\* The foreign keys of audio_group_members.
MembersHaveRows ==
    /\ groups \subseteq drawn
    /\ \A g \in ClipGroups : /\ members[g] # {} => g \in groups
                             /\ \A f \in members[g] : HasRow(f)

\* A group that a request found with members has them still, was emptied, or is gone for good.
ReservesFound ==
    \A k \in Desks : desk[k].kind = "reserve" /\ desk[k].to \in ClipGroups =>
        /\ desk[k].to \in drawn
        /\ desk[k].to \in groups => members[desk[k].to] # {} \/ desk[k].to \in emptied

PlacesInv == MembersHaveRows /\ ReservesFound /\ ReservationPlays

\* A choice is made among two clips or more, and what it is to avoid is in the key.
KeyHeard == \A g \in ClipGroups : heard[g] # NoClip => lastPlayed[g] = heard[g]
ChoicesOpen ==
    \A i \in Dialogs : dialog[i].at # "off" =>
        /\ dialog[i].group \in ClipGroups
        /\ dialog[i].at = "ask" =>
              /\ \A f \in Clips \cup {NoClip} : dialog[i].pool \ {f} # {}
              /\ dialog[i].before # NoClip => lastPlayed[dialog[i].group] = dialog[i].before

PicksInv == KeyHeard /\ ChoicesOpen /\ NoRepeat

AudioInv == AudioTyped /\ RowsInv /\ PlacesInv /\ PicksInv

UploadTasks ==
    [kind : {"convert", "insert", "link"}, name : 1..(MaxName + BulkSize), left : 0..BulkSize,
     group : ClipGroups \cup {NoGroup}, clip : Clips \cup {NoClip}]
Dialog ==
    [at : {"off", "ask", "set"}, group : ClipGroups \cup {NoGroup}, pool : SUBSET Clips,
     clip : Clips \cup {NoClip}, before : Clips \cup {NoClip}]

\* A task has the fields of its kind.
LEMMA TaskKinds ==
    ASSUME NEW t \in Tasks
    PROVE  /\ t.kind \in {"rest", "convert", "insert", "link", "delete", "unlink", "reserve", "dropGroup"}
           /\ t.kind = "rest" => t = AtRest
           /\ t.kind \in {"convert", "insert", "link"} => t \in UploadTasks
           /\ t.kind \in {"delete", "unlink"} => t.clip \in Clips /\ t = [kind |-> t.kind, clip |-> t.clip]
           /\ t.kind = "reserve" => t.line \in Lines /\ t.to \in Clips \cup ClipGroups
           /\ t.kind = "dropGroup" => t.group \in ClipGroups
BY DEF Tasks, UploadTasks, AtRest

LEMMA TaskMakers ==
    /\ Proper(AtRest)
    /\ \A f \in Clips : Proper([kind |-> "delete", clip |-> f]) /\ Proper([kind |-> "unlink", clip |-> f])
    /\ \A g \in ClipGroups : Proper([kind |-> "dropGroup", group |-> g])
    /\ \A l \in Lines, x \in Clips \cup ClipGroups : Proper([kind |-> "reserve", line |-> l, to |-> x])
BY DEF Proper, Tasks, AtRest

\* The next file of an upload is converted next, or there is none.
LEMMA NextFileProper ==
    ASSUME NEW t, Proper(t), t.kind \in {"convert", "insert", "link"}
    PROVE  Proper(NextFile(t)) /\ NextFile(t).kind \in {"rest", "convert"}
<1>1. t \in UploadTasks /\ t.name + t.left <= MaxName + BulkSize
    BY TaskKinds DEF Proper
<1>2. CASE t.left = 0
    BY <1>2, TaskMakers DEF NextFile, AtRest
<1>3. CASE t.left # 0
    <2> DEFINE next == [t EXCEPT !.kind = "convert", !.name = @ + 1, !.left = @ - 1, !.clip = NoClip]
    <2>1. /\ next.kind = "convert" /\ next.name = t.name + 1 /\ next.left = t.left - 1
          /\ NextFile(t) = next
        BY <1>1, <1>3 DEF UploadTasks, NextFile
    <2>2. t.name \in Nat /\ t.name >= 1 /\ t.left \in 1..BulkSize /\ BulkSize \in Nat /\ MaxName \in Nat
        BY <1>1, <1>3, AudioAssumption DEF UploadTasks
    <2>3. t.name + 1 \in 1..(MaxName + BulkSize) /\ t.left - 1 \in 0..BulkSize
          /\ (t.name + 1) + (t.left - 1) <= MaxName + BulkSize
        BY <1>1, <2>2
    <2>4. next \in UploadTasks
        BY <1>1, <2>3 DEF UploadTasks
    <2> HIDE DEF next
    <2>5. next \in Tasks
        BY <2>4 DEF Tasks, UploadTasks
    <2> QED BY <2>1, <2>3, <2>5 DEF Proper
<1> QED BY <1>2, <1>3

LEMMA AudioTypes ==
    ASSUME AudioTyped
    PROVE  /\ disk \subseteq Clips /\ drawn \subseteq Clips \cup ClipGroups
           /\ clipName \in [Clips -> 0..MaxName]
           /\ \A a, b \in Clips : clipName[a] = clipName[b] /\ clipName[a] # 0 => a = b
           /\ groups \subseteq ClipGroups
           /\ members \in [ClipGroups -> SUBSET Clips]
           /\ reserved \in [Lines -> Clips \cup ClipGroups \cup {NoClip}]
           /\ desk \in [Desks -> Tasks]
           /\ lastPlayed \in [ClipGroups -> Clips \cup {NoClip}]
           /\ dialog \in [Dialogs -> Dialog]
           /\ unsure \subseteq Clips /\ emptied \subseteq ClipGroups
           /\ heard \in [ClipGroups -> Clips \cup {NoClip}]
BY DEF AudioTyped, AudioTypeOK, Dialog

LEMMA AudioInitInv == AudioInit => AudioInv
<1> SUFFICES ASSUME AudioInit PROVE AudioInv
    OBVIOUS
<1>1. /\ disk = {} /\ drawn = {} /\ clipName = [f \in Clips |-> 0]
      /\ groups = {} /\ members = [g \in ClipGroups |-> {}] /\ reserved = [l \in Lines |-> NoClip]
      /\ desk = [k \in Desks |-> AtRest] /\ lastPlayed = [g \in ClipGroups |-> NoClip]
      /\ dialog = [i \in Dialogs |-> Quiet] /\ unsure = {} /\ emptied = {}
      /\ heard = [g \in ClipGroups |-> NoClip]
    BY DEF AudioInit
<1>2. AtRest \in Tasks /\ Proper(AtRest) /\ Quiet \in Dialog /\ AtRest.kind = "rest" /\ Quiet.at = "off"
    BY TaskMakers DEF Proper, Quiet, Dialog, AtRest
<1>3. AudioTypeOK
    BY <1>1, <1>2, AudioAssumption DEF AudioTypeOK, Dialog
<1>4. AudioTyped
    BY <1>1, <1>2, <1>3 DEF AudioTyped
<1>5. RowsInv
    BY <1>1, <1>2 DEF RowsInv, RowsDrawn, FilesFirst, RowHasFile, HasRow
<1>6. PlacesInv
    BY <1>1, <1>2, AudioAssumption DEF PlacesInv, MembersHaveRows, ReservesFound, ReservationPlays
<1>7. PicksInv
    BY <1>1, <1>2 DEF PicksInv, KeyHeard, ChoicesOpen, NoRepeat
<1> QED BY <1>4, <1>5, <1>6, <1>7 DEF AudioInv

\* A request goes on to its next task.
LEMMA DeskMoves ==
    ASSUME AudioTyped, NEW k \in Desks, NEW next, Proper(next), desk' = [desk EXCEPT ![k] = next]
    PROVE  /\ desk' \in [Desks -> Tasks] /\ \A m \in Desks : Proper(desk'[m])
           /\ desk'[k] = next /\ \A m \in Desks \ {k} : desk'[m] = desk[m]
<1>1. desk \in [Desks -> Tasks] /\ \A m \in Desks : Proper(desk[m])
    BY DEF AudioTyped, AudioTypeOK
<1>2. next \in Tasks
    BY DEF Proper
<1> QED BY <1>1, <1>2

\* Rows and files are left alone, by everybody whose next task is not about one.
LEMMA RowsAlone ==
    ASSUME RowsInv, UNCHANGED <<disk, clipName, unsure>>, drawn \subseteq drawn',
           \A m \in Desks : desk'[m] = desk[m] \/ desk'[m].kind \notin {"insert", "delete", "unlink"}
    PROVE  RowsInv'
<1>1. \A f : HasRow(f)' <=> HasRow(f)
    BY DEF HasRow
<1>2. RowsDrawn'
    BY <1>1 DEF RowsInv, RowsDrawn
<1>3. FilesFirst'
    BY <1>1 DEF RowsInv, FilesFirst
<1>4. RowHasFile'
    BY <1>1 DEF RowsInv, RowHasFile
<1> QED BY <1>2, <1>3, <1>4 DEF RowsInv

\* Groups and reservations are left alone, no row goes, and nobody comes to reserve.
LEMMA PlacesLeft ==
    ASSUME PlacesInv, UNCHANGED PlaceVars, drawn \subseteq drawn',
           \A f \in Clips : HasRow(f) => HasRow(f)', members \in [ClipGroups -> SUBSET Clips],
           \A m \in Desks : desk'[m] = desk[m] \/ desk'[m].kind # "reserve"
    PROVE  PlacesInv'
<1>1. UNCHANGED <<groups, members, reserved, emptied>>
    BY DEF PlaceVars
<1>2. MembersHaveRows'
    BY <1>1 DEF PlacesInv, MembersHaveRows
<1>3. ReservesFound'
    BY <1>1 DEF PlacesInv, ReservesFound
<1>4. ReservationPlays'
    BY <1>1 DEF PlacesInv, ReservationPlays
<1> QED BY <1>2, <1>3, <1>4 DEF PlacesInv

LEMMA PicksLeft == PicksInv /\ UNCHANGED PickVars => PicksInv'
BY DEF PicksInv, PickVars, KeyHeard, ChoicesOpen, NoRepeat

\* A step of a request that leaves rows, files, groups and reservations alone.
LEMMA AsideInv ==
    ASSUME AudioInv, NEW k \in Desks, NEW next, Proper(next), desk' = [desk EXCEPT ![k] = next],
           next.kind \notin {"insert", "delete", "unlink", "reserve"},
           UNCHANGED <<disk, drawn, clipName, PlaceVars, PickVars, unsure>>
    PROVE  AudioInv'
<1>1. AudioTyped /\ RowsInv /\ PlacesInv /\ PicksInv
    BY DEF AudioInv
<1>2. /\ desk' \in [Desks -> Tasks] /\ \A m \in Desks : Proper(desk'[m])
      /\ desk'[k] = next /\ \A m \in Desks \ {k} : desk'[m] = desk[m]
    BY <1>1, DeskMoves
<1>3. AudioTyped'
    BY <1>1, <1>2 DEF AudioTyped, AudioTypeOK, PlaceVars, PickVars, Proper
<1>4. RowsInv'
    BY <1>1, <1>2, RowsAlone
<1>5. PlacesInv'
    BY <1>1, <1>2, PlacesLeft, AudioTypes DEF HasRow
<1> QED BY <1>1, <1>3, <1>4, <1>5, PicksLeft DEF AudioInv

\* UploadOpen, BulkOpen, ConvertFails, GroupDeleteOpen and DeskLost.
LEMMA OpeningsInv ==
    ASSUME AudioInv, NEW k \in Desks,
           \/ \E n \in 1..MaxName : UploadOpen(k, n)
           \/ \E g \in ClipGroups \cup {NoGroup} : BulkOpen(k, g)
           \/ ConvertFails(k) \/ DeskLost(k)
           \/ \E g \in ClipGroups : GroupDeleteOpen(k, g)
    PROVE  AudioInv'
<1>1. AudioTyped /\ Proper(desk[k])
    BY DEF AudioInv, AudioTyped
<1>2. ASSUME NEW n \in 1..(MaxName + BulkSize), NEW left \in 0..BulkSize, n + left <= MaxName + BulkSize,
             NEW g \in ClipGroups \cup {NoGroup}
      PROVE  Proper([kind |-> "convert", name |-> n, left |-> left, group |-> g, clip |-> NoClip])
    BY <1>2 DEF Proper, Tasks
<1>3. MaxName \in Nat \ {0} /\ BulkSize \in Nat
    BY AudioAssumption
<1>4. ASSUME NEW n \in 1..MaxName, UploadOpen(k, n) PROVE AudioInv'
    <2> DEFINE next == [kind |-> "convert", name |-> n, left |-> 0, group |-> NoGroup, clip |-> NoClip]
    <2>1. Proper(next) /\ next.kind = "convert"
        BY <1>2, <1>3
    <2>2. desk' = [desk EXCEPT ![k] = next] /\ UNCHANGED <<disk, drawn, clipName, PlaceVars, PickVars, unsure>>
        BY <1>4 DEF UploadOpen
    <2> HIDE DEF next
    <2> QED BY <2>1, <2>2, AsideInv
<1>5. ASSUME NEW g \in ClipGroups \cup {NoGroup}, BulkOpen(k, g) PROVE AudioInv'
    <2>1. PICK last \in 0..MaxName :
             desk' = [desk EXCEPT ![k] = [kind |-> "convert", name |-> last + 1, left |-> BulkSize - 1,
                                          group |-> g, clip |-> NoClip]]
        <3>1. PICK highest \in 0..MaxName : \E last \in {highest, 0} :
                 desk' = [desk EXCEPT ![k] = [kind |-> "convert", name |-> last + 1, left |-> BulkSize - 1,
                                              group |-> g, clip |-> NoClip]]
            BY <1>5 DEF BulkOpen
        <3>2. PICK last \in {highest, 0} :
                 desk' = [desk EXCEPT ![k] = [kind |-> "convert", name |-> last + 1, left |-> BulkSize - 1,
                                              group |-> g, clip |-> NoClip]]
            BY <3>1
        <3>3. last \in 0..MaxName
            BY <1>3
        <3> QED BY <3>2, <3>3
    <2> DEFINE next == [kind |-> "convert", name |-> last + 1, left |-> BulkSize - 1, group |-> g, clip |-> NoClip]
    <2>2. /\ last + 1 \in 1..(MaxName + BulkSize) /\ BulkSize - 1 \in 0..BulkSize
          /\ (last + 1) + (BulkSize - 1) <= MaxName + BulkSize
        BY <1>3, <1>5 DEF BulkOpen
    <2>3. Proper(next) /\ next.kind = "convert"
        BY <1>2, <2>2
    <2>4. desk' = [desk EXCEPT ![k] = next] /\ UNCHANGED <<disk, drawn, clipName, PlaceVars, PickVars, unsure>>
        BY <1>5, <2>1 DEF BulkOpen
    <2> HIDE DEF next
    <2> QED BY <2>3, <2>4, AsideInv
<1>6. CASE ConvertFails(k)
    <2>1. Proper(NextFile(desk[k])) /\ NextFile(desk[k]).kind \in {"rest", "convert"}
        BY <1>1, <1>6, NextFileProper DEF ConvertFails
    <2>2. /\ desk' = [desk EXCEPT ![k] = NextFile(desk[k])]
          /\ UNCHANGED <<disk, drawn, clipName, PlaceVars, PickVars, unsure>>
        BY <1>6 DEF ConvertFails
    <2> QED BY <2>1, <2>2, AsideInv
<1>7. CASE DeskLost(k)
    <2>1. Proper(AtRest) /\ AtRest.kind = "rest"
        BY TaskMakers DEF AtRest
    <2>2. desk' = [desk EXCEPT ![k] = AtRest] /\ UNCHANGED <<disk, drawn, clipName, PlaceVars, PickVars, unsure>>
        BY <1>7 DEF DeskLost
    <2> QED BY <2>1, <2>2, AsideInv
<1>8. ASSUME NEW g \in ClipGroups, GroupDeleteOpen(k, g) PROVE AudioInv'
    <2> DEFINE next == [kind |-> "dropGroup", group |-> g]
    <2>1. Proper(next) /\ next.kind = "dropGroup"
        BY TaskMakers
    <2>2. desk' = [desk EXCEPT ![k] = next] /\ UNCHANGED <<disk, drawn, clipName, PlaceVars, PickVars, unsure>>
        BY <1>8 DEF GroupDeleteOpen
    <2> HIDE DEF next
    <2> QED BY <2>1, <2>2, AsideInv
<1> QED BY <1>4, <1>5, <1>6, <1>7, <1>8

\* A new file takes a basename that nobody has had.
LEMMA ConvertInv ==
    ASSUME AudioInv, NEW k \in Desks, NEW f \in Clips, Convert(k, f)
    PROVE  AudioInv'
<1>1. AudioTyped /\ RowsInv /\ PlacesInv /\ PicksInv /\ Proper(desk[k])
    BY DEF AudioInv, AudioTyped
<1> DEFINE next == [desk[k] EXCEPT !.kind = "insert", !.clip = f]
<1>2. /\ desk[k].kind = "convert" /\ desk[k].name <= MaxName /\ f \notin drawn
      /\ drawn' = drawn \cup {f} /\ disk' = disk \cup {f}
      /\ UNCHANGED <<clipName, PlaceVars, PickVars, unsure>>
    BY DEF Convert
<1>3. desk[k] \in UploadTasks /\ desk[k].name + desk[k].left <= MaxName + BulkSize
    BY <1>1, <1>2, TaskKinds DEF Proper
<1>4. /\ next \in UploadTasks /\ next.kind = "insert" /\ next.clip = f
      /\ next.name = desk[k].name /\ next.left = desk[k].left
    BY <1>3 DEF UploadTasks
<1>5. desk' = [desk EXCEPT ![k] = next]
    <2>1. desk \in [Desks -> Tasks]
        BY <1>1, AudioTypes
    <2> QED BY <1>3, <2>1 DEF Convert, UploadTasks
<1> HIDE DEF next
<1>6. Proper(next)
    <2>1. next \in Tasks
        BY <1>4 DEF Tasks, UploadTasks
    <2> QED BY <1>2, <1>3, <1>4, <2>1 DEF Proper
<1>7. /\ desk' \in [Desks -> Tasks] /\ \A m \in Desks : Proper(desk'[m])
      /\ desk'[k] = next /\ \A m \in Desks \ {k} : desk'[m] = desk[m]
    BY <1>1, <1>5, <1>6, DeskMoves
<1>8. AudioTyped'
    BY <1>1, <1>2, <1>7 DEF AudioTyped, AudioTypeOK, PlaceVars, PickVars, Proper
<1>9. \A x : HasRow(x)' <=> HasRow(x)
    BY <1>2 DEF HasRow
<1>10. ~HasRow(f) /\ \A m \in Desks : desk[m].kind \in {"insert", "delete", "unlink"} => desk[m].clip # f
    BY <1>1, <1>2 DEF RowsInv, RowsDrawn
<1>11. RowsDrawn'
    BY <1>1, <1>2, <1>4, <1>7, <1>9 DEF RowsInv, RowsDrawn
<1>12. FilesFirst'
    <2> SUFFICES ASSUME NEW m \in Desks
                 PROVE  /\ desk'[m].kind = "insert" =>
                             /\ desk'[m].clip \in disk' /\ ~HasRow(desk'[m].clip)
                             /\ \A o \in Desks \ {m} :
                                   desk'[o].kind \in {"insert", "delete", "unlink"} => desk'[o].clip # desk'[m].clip
                        /\ desk'[m].kind = "unlink" => ~HasRow(desk'[m].clip)
        BY <1>9 DEF FilesFirst
    <2>1. CASE m = k
        BY <1>2, <1>4, <1>7, <1>10, <2>1
    <2>2. CASE m # k
        BY <1>1, <1>2, <1>4, <1>7, <1>10, <2>2 DEF RowsInv, FilesFirst
    <2> QED BY <2>1, <2>2
<1>13. RowHasFile'
    BY <1>1, <1>2, <1>9 DEF RowsInv, RowHasFile
<1>14. PlacesInv'
    BY <1>1, <1>2, <1>4, <1>7, <1>9, PlacesLeft, AudioTypes
<1> QED BY <1>1, <1>2, <1>8, <1>11, <1>12, <1>13, <1>14, PicksLeft DEF AudioInv, RowsInv

\* Rows come, for the clip that the request has a file of, and only its file may go.
LEMMA RowComesInv ==
    ASSUME AudioInv, NEW k \in Desks, desk[k].kind = "insert",
           NEW next, Proper(next), next.kind \in {"rest", "convert", "link"}, desk' = [desk EXCEPT ![k] = next],
           \/ UNCHANGED <<disk, unsure>>
           \/ disk' = disk \ {desk[k].clip} /\ unsure' = unsure /\ clipName' = clipName
           \/ disk' = disk \ {desk[k].clip} /\ unsure' = unsure \cup {desk[k].clip},
           \/ clipName' = clipName
           \/ ~NameTaken(desk[k].name) /\ clipName' = [clipName EXCEPT ![desk[k].clip] = desk[k].name],
           UNCHANGED <<drawn, PlaceVars, PickVars>>
    PROVE  AudioInv'
<1> PICK f : f = desk[k].clip
    OBVIOUS
<1> DEFINE n == desk[k].name
<1>1. AudioTyped /\ RowsInv /\ PlacesInv /\ PicksInv /\ Proper(desk[k])
    BY DEF AudioInv, AudioTyped
<1>2. f \in Clips /\ n \in 1..MaxName /\ f \in drawn
    <2>1. desk[k] \in UploadTasks /\ f \in Clips /\ n <= MaxName
        BY <1>1, TaskKinds DEF Proper
    <2> QED BY <1>1, <2>1, AudioAssumption DEF UploadTasks, RowsInv, RowsDrawn
<1>3. /\ clipName \in [Clips -> 0..MaxName]
      /\ \A a, b \in Clips : clipName[a] = clipName[b] /\ clipName[a] # 0 => a = b
    BY <1>1, AudioTypes
<1>4. /\ clipName' \in [Clips -> 0..MaxName]
      /\ \A a, b \in Clips : clipName'[a] = clipName'[b] /\ clipName'[a] # 0 => a = b
    <2>1. CASE clipName' = clipName
        BY <1>3, <2>1
    <2>2. CASE ~NameTaken(n) /\ clipName' = [clipName EXCEPT ![f] = n]
        BY <1>2, <1>3, <2>2 DEF NameTaken
    <2> QED BY <2>1, <2>2
<1>5. /\ \A x \in Clips \ {f} : HasRow(x)' <=> HasRow(x)
      /\ HasRow(f) => HasRow(f)'
    <2>1. CASE clipName' = clipName
        BY <2>1 DEF HasRow
    <2>2. CASE clipName' = [clipName EXCEPT ![f] = n]
        BY <1>2, <1>3, <2>2 DEF HasRow
    <2> QED BY <2>1, <2>2
<1>6. disk' \subseteq Clips /\ unsure' \subseteq Clips /\ \A x \in Clips \ {f} : x \in disk => x \in disk'
    BY <1>1, <1>2, AudioTypes
<1>7. /\ desk' \in [Desks -> Tasks] /\ \A m \in Desks : Proper(desk'[m])
      /\ desk'[k] = next /\ \A m \in Desks \ {k} : desk'[m] = desk[m]
    BY <1>1, DeskMoves
<1>8. AudioTyped'
    BY <1>1, <1>4, <1>6, <1>7 DEF AudioTyped, AudioTypeOK, PlaceVars, PickVars, Proper
<1>9. f \in disk /\ ~HasRow(f) /\ \A m \in Desks \ {k} :
            desk[m].kind \in {"insert", "delete", "unlink"} => desk[m].clip \in Clips \ {f}
    <2>1. f \in disk /\ ~HasRow(f) /\ \A m \in Desks \ {k} :
            desk[m].kind \in {"insert", "delete", "unlink"} => desk[m].clip # f
        BY <1>1 DEF RowsInv, FilesFirst
    <2>2. \A m \in Desks : desk[m].kind \in {"insert", "delete", "unlink"} => desk[m].clip \in Clips
        <3>1. \A m \in Desks : desk[m] \in Tasks /\ Proper(desk[m])
            BY <1>1 DEF AudioTyped, AudioTypeOK
        <3> QED BY <3>1, TaskKinds DEF Proper
    <2> QED BY <2>1, <2>2
<1>10. RowsDrawn'
    BY <1>1, <1>2, <1>5, <1>7 DEF RowsInv, RowsDrawn
<1>11. FilesFirst'
    <2> SUFFICES ASSUME NEW m \in Desks
                 PROVE  /\ desk'[m].kind = "insert" =>
                             /\ desk'[m].clip \in disk' /\ clipName'[desk'[m].clip] = 0
                             /\ \A o \in Desks \ {m} :
                                   desk'[o].kind \in {"insert", "delete", "unlink"} => desk'[o].clip # desk'[m].clip
                        /\ desk'[m].kind = "unlink" => clipName'[desk'[m].clip] = 0
        BY DEF FilesFirst, HasRow
    <2>1. CASE m = k
        BY <1>7, <2>1
    <2>2. CASE m # k
        <3>1. desk'[m] = desk[m]
            BY <1>7, <2>2
        <3>2. /\ desk[m].kind = "insert" =>
                   /\ desk[m].clip \in disk /\ ~HasRow(desk[m].clip)
                   /\ \A o \in Desks \ {m} :
                         desk[o].kind \in {"insert", "delete", "unlink"} => desk[o].clip # desk[m].clip
              /\ desk[m].kind = "unlink" => ~HasRow(desk[m].clip)
            BY <1>1 DEF RowsInv, FilesFirst
        <3>3. desk[m].kind \in {"insert", "unlink"} => desk[m].clip \in Clips \ {f}
            BY <1>9, <2>2
        <3>4. desk[m].kind \in {"insert", "unlink"} /\ ~HasRow(desk[m].clip) => clipName'[desk'[m].clip] = 0
            <4>1. \A x \in Clips \ {f} : ~HasRow(x) => clipName'[x] = 0
                BY <1>5 DEF HasRow
            <4> QED BY <3>1, <3>3, <4>1
        <3> QED BY <1>6, <1>7, <3>1, <3>2, <3>3, <3>4
    <2> QED BY <2>1, <2>2
<1>12. RowHasFile'
    <2> SUFFICES ASSUME NEW x \in Clips, HasRow(x)', x \notin unsure' PROVE x \in disk'
        BY DEF RowHasFile
    <2>1. CASE x = f
        BY <1>9, <2>1 DEF HasRow
    <2>2. CASE x # f
        BY <1>1, <1>5, <1>6, <2>2 DEF RowsInv, RowHasFile
    <2> QED BY <2>1, <2>2
<1>13. PlacesInv'
    <2>1. \A x \in Clips : HasRow(x) => HasRow(x)'
        BY <1>5
    <2>2. members \in [ClipGroups -> SUBSET Clips] /\ drawn \subseteq drawn'
        BY <1>1, AudioTypes
    <2>3. \A m \in Desks : desk'[m] = desk[m] \/ desk'[m].kind # "reserve"
        BY <1>7
    <2> QED BY <1>1, <2>1, <2>2, <2>3, PlacesLeft
<1> QED BY <1>1, <1>8, <1>10, <1>11, <1>12, <1>13, PicksLeft DEF AudioInv, RowsInv

LEMMA ClipInsertInv ==
    ASSUME AudioInv, NEW k \in Desks, ClipInsert(k) \/ ClipRejected(k)
    PROVE  AudioInv'
<1> DEFINE t == desk[k]
<1>1. AudioTyped /\ Proper(t) /\ t.kind = "insert"
    BY DEF AudioInv, AudioTyped, ClipInsert, ClipRejected
<1>2. t \in UploadTasks /\ t.clip \in Clips /\ t.name <= MaxName /\ t.name + t.left <= MaxName + BulkSize
    BY <1>1, TaskKinds DEF Proper
<1>3. Proper(NextFile(t)) /\ NextFile(t).kind \in {"rest", "convert"}
    BY <1>1, NextFileProper
<1>4. t.group # NoGroup => Proper([t EXCEPT !.kind = "link"]) /\ [t EXCEPT !.kind = "link"].kind = "link"
    <2> DEFINE next == [t EXCEPT !.kind = "link"]
    <2>1. /\ next \in UploadTasks /\ next.kind = "link" /\ next.clip = t.clip /\ next.group = t.group
          /\ next.name = t.name /\ next.left = t.left
        BY <1>2 DEF UploadTasks
    <2> HIDE DEF next
    <2>2. next \in Tasks
        BY <2>1 DEF Tasks, UploadTasks
    <2>3. t.group # NoGroup => t.group \in ClipGroups
        BY <1>2 DEF UploadTasks
    <2>4. t.group # NoGroup => Proper(next)
        BY <1>2, <2>1, <2>2, <2>3 DEF Proper
    <2> QED BY <2>1, <2>4 DEF next
<1>5. CASE ClipInsert(k)
    <2> DEFINE next == IF t.group = NoGroup THEN NextFile(t) ELSE [t EXCEPT !.kind = "link"]
    <2>1. Proper(next) /\ next.kind \in {"rest", "convert", "link"}
        BY <1>3, <1>4
    <2>2. /\ desk' = [desk EXCEPT ![k] = next] /\ UNCHANGED <<disk, unsure, drawn, PlaceVars, PickVars>>
          /\ ~NameTaken(t.name) /\ clipName' = [clipName EXCEPT ![t.clip] = t.name]
        BY <1>5 DEF ClipInsert
    <2> HIDE DEF next
    <2> QED BY <1>1, <2>1, <2>2, RowComesInv
<1>6. CASE ClipRejected(k)
    <2>1. desk' = [desk EXCEPT ![k] = NextFile(t)] /\ UNCHANGED <<drawn, PlaceVars, PickVars>> /\ disk' = disk \ {t.clip}
        BY <1>6 DEF ClipRejected
    <2>2. \/ UNCHANGED <<clipName, unsure>>
          \/ /\ ~NameTaken(t.name) /\ clipName' = [clipName EXCEPT ![t.clip] = t.name]
             /\ unsure' = unsure \cup {t.clip}
        BY <1>6 DEF ClipRejected
    <2> QED BY <1>1, <1>3, <2>1, <2>2, RowComesInv
<1> QED BY <1>5, <1>6

\* A request comes to delete a clip that has a row, and so is nobody's upload.
LEMMA DeleteOpenInv ==
    ASSUME AudioInv, NEW k \in Desks, NEW f \in Clips, DeleteOpen(k, f)
    PROVE  AudioInv'
<1> DEFINE next == [kind |-> "delete", clip |-> f]
<1>1. AudioTyped /\ RowsInv /\ PlacesInv /\ PicksInv
    BY DEF AudioInv
<1>2. /\ HasRow(f) /\ desk' = [desk EXCEPT ![k] = next]
      /\ UNCHANGED <<disk, drawn, clipName, PlaceVars, PickVars, unsure>>
    BY DEF DeleteOpen
<1>3. Proper(next) /\ next.kind = "delete" /\ next.clip = f
    BY TaskMakers
<1> HIDE DEF next
<1>4. /\ desk' \in [Desks -> Tasks] /\ \A m \in Desks : Proper(desk'[m])
      /\ desk'[k] = next /\ \A m \in Desks \ {k} : desk'[m] = desk[m]
    BY <1>1, <1>2, <1>3, DeskMoves
<1>5. AudioTyped'
    BY <1>1, <1>2, <1>4 DEF AudioTyped, AudioTypeOK, PlaceVars, PickVars, Proper
<1>6. \A x : HasRow(x)' <=> HasRow(x)
    BY <1>2 DEF HasRow
<1>7. RowsDrawn' /\ RowHasFile'
    BY <1>1, <1>2, <1>3, <1>4, <1>6 DEF RowsInv, RowsDrawn, RowHasFile
<1>8. FilesFirst'
    <2> SUFFICES ASSUME NEW m \in Desks, desk'[m].kind \in {"insert", "unlink"}
                 PROVE  /\ clipName'[desk'[m].clip] = 0
                        /\ desk'[m].kind = "insert" =>
                             /\ desk'[m].clip \in disk'
                             /\ \A o \in Desks \ {m} :
                                   desk'[o].kind \in {"insert", "delete", "unlink"} => desk'[o].clip # desk'[m].clip
        BY DEF FilesFirst, HasRow
    <2>1. m # k /\ desk'[m] = desk[m]
        BY <1>3, <1>4
    <2>2. clipName[desk[m].clip] = 0
        BY <1>1, <2>1 DEF RowsInv, FilesFirst, HasRow
    <2>3. desk[m].clip # f
        BY <1>2, <2>2 DEF HasRow
    <2> QED BY <1>1, <1>2, <1>3, <1>4, <2>1, <2>2, <2>3 DEF RowsInv, FilesFirst
<1>9. PlacesInv'
    <2>1. members \in [ClipGroups -> SUBSET Clips] /\ drawn \subseteq drawn'
        BY <1>1, <1>2, AudioTypes
    <2>2. \A m \in Desks : desk'[m] = desk[m] \/ desk'[m].kind # "reserve"
        BY <1>3, <1>4
    <2> QED BY <1>1, <1>2, <1>6, <2>1, <2>2, PlacesLeft
<1> QED BY <1>1, <1>2, <1>5, <1>7, <1>8, <1>9, PicksLeft DEF AudioInv, RowsInv

\* A row goes that no DID and no group refers to; or the foreign keys keep it.
LEMMA DeleteRowInv ==
    ASSUME AudioInv, NEW k \in Desks, DeleteRow(k)
    PROVE  AudioInv'
<1> PICK f : f = desk[k].clip
    OBVIOUS
<1>1. AudioTyped /\ RowsInv /\ PlacesInv /\ PicksInv /\ Proper(desk[k])
    BY DEF AudioInv, AudioTyped
<1>2. desk[k].kind = "delete" /\ UNCHANGED <<disk, drawn, PlaceVars, PickVars, unsure>>
    BY DEF DeleteRow
<1>3. f \in Clips /\ desk[k] = [kind |-> "delete", clip |-> f]
    BY <1>1, <1>2, TaskKinds DEF Proper
<1>4. CASE Referenced(f)
    <2>1. desk' = [desk EXCEPT ![k] = AtRest] /\ clipName' = clipName
        BY <1>4 DEF DeleteRow
    <2>2. Proper(AtRest) /\ AtRest.kind = "rest"
        BY TaskMakers DEF AtRest
    <2> QED BY <1>2, <2>1, <2>2, AsideInv
<1>5. CASE ~Referenced(f)
    <2> DEFINE next == [kind |-> "unlink", clip |-> f]
    <2>1. Proper(next) /\ next.kind = "unlink" /\ next.clip = f
        BY <1>3, TaskMakers
    <2>2. desk \in [Desks -> Tasks] /\ clipName \in [Clips -> 0..MaxName]
        BY <1>1, AudioTypes
    <2>3. clipName' = [clipName EXCEPT ![f] = 0] /\ desk' = [desk EXCEPT ![k] = next]
        <3>1. clipName' = [clipName EXCEPT ![f] = 0] /\ desk' = [desk EXCEPT ![k].kind = "unlink"]
            BY <1>5 DEF DeleteRow
        <3>2. [desk[k] EXCEPT !.kind = "unlink"] = next
            BY <1>3
        <3> HIDE DEF next
        <3> QED BY <2>2, <3>1, <3>2
    <2> HIDE DEF next
    <2>4. /\ desk' \in [Desks -> Tasks] /\ \A m \in Desks : Proper(desk'[m])
          /\ desk'[k] = next /\ \A m \in Desks \ {k} : desk'[m] = desk[m]
        BY <1>1, <2>1, <2>3, DeskMoves
    <2>5. /\ clipName' \in [Clips -> 0..MaxName] /\ clipName'[f] = 0
          /\ \A x \in Clips \ {f} : clipName'[x] = clipName[x]
        BY <1>3, <2>2, <2>3, AudioAssumption
    <2>6. AudioTyped'
        <3>1. \A a, b \in Clips : clipName'[a] = clipName'[b] /\ clipName'[a] # 0 => a = b
            BY <1>1, <2>5, AudioTypes
        <3> QED BY <1>1, <1>2, <2>4, <2>5, <3>1 DEF AudioTyped, AudioTypeOK, PlaceVars, PickVars, Proper
    <2>7. \A x \in Clips : HasRow(x)' <=> x # f /\ HasRow(x)
        BY <2>5 DEF HasRow
    <2>8. RowsDrawn'
        <3>1. f \in drawn
            BY <1>1, <1>2 DEF RowsInv, RowsDrawn
        <3> QED BY <1>1, <1>2, <2>1, <2>4, <2>7, <3>1 DEF RowsInv, RowsDrawn
    <2>9. RowHasFile'
        BY <1>1, <1>2, <2>7 DEF RowsInv, RowHasFile
    <2>10. FilesFirst'
        <3> SUFFICES ASSUME NEW m \in Desks, desk'[m].kind \in {"insert", "unlink"}
                     PROVE  /\ clipName'[desk'[m].clip] = 0
                            /\ desk'[m].kind = "insert" =>
                                 /\ desk'[m].clip \in disk'
                                 /\ \A o \in Desks \ {m} :
                                       desk'[o].kind \in {"insert", "delete", "unlink"} => desk'[o].clip # desk'[m].clip
            BY DEF FilesFirst, HasRow
        <3>1. CASE m = k
            BY <2>1, <2>4, <2>5, <3>1
        <3>2. CASE m # k
            <4>1. desk'[m] = desk[m] /\ clipName[desk[m].clip] = 0
                BY <1>1, <2>4, <3>2 DEF RowsInv, FilesFirst, HasRow
            <4>2. desk[m].clip \in Clips
                <5>1. desk[m] \in Tasks /\ Proper(desk[m])
                    BY <1>1 DEF AudioTyped, AudioTypeOK
                <5> QED BY <4>1, <5>1, TaskKinds DEF Proper
            <4>3. clipName'[desk[m].clip] = 0
                BY <2>5, <4>1, <4>2
            <4>4. desk[m].kind = "insert" => desk[m].clip # f
                BY <1>1, <1>2, <3>2 DEF RowsInv, FilesFirst
            <4> QED BY <1>1, <1>2, <2>1, <2>4, <4>1, <4>3, <4>4 DEF RowsInv, FilesFirst
        <3> QED BY <3>1, <3>2
    <2>11. UNCHANGED <<groups, members, reserved, emptied>>
        BY <1>2 DEF PlaceVars
    <2>12. members \in [ClipGroups -> SUBSET Clips]
        BY <1>1, AudioTypes
    <2>13. MembersHaveRows'
        <3>1. \A g \in ClipGroups : f \notin members[g]
            BY <1>1, <1>5 DEF Referenced, PlacesInv, MembersHaveRows
        <3>2. MembersHaveRows
            BY <1>1 DEF PlacesInv
        <3> QED BY <1>2, <2>7, <2>11, <2>12, <3>1, <3>2 DEF MembersHaveRows
    <2>14. ReservesFound'
        BY <1>1, <1>2, <2>1, <2>4, <2>11 DEF PlacesInv, ReservesFound
    <2>15. ReservationPlays'
        <3>1. \A l \in Lines : reserved[l] # f
            BY <1>5 DEF Referenced, OnLine
        <3>2. \A g \in ClipGroups : \A x \in members[g] : HasRow(x)'
            BY <2>11, <2>13 DEF MembersHaveRows
        <3> QED BY <1>1, <2>7, <2>11, <3>1, <3>2 DEF PlacesInv, ReservationPlays
    <2> QED BY <1>1, <1>2, <2>6, <2>8, <2>9, <2>10, <2>13, <2>14, <2>15, PicksLeft
            DEF AudioInv, RowsInv, PlacesInv
<1> QED BY <1>4, <1>5

\* The file goes of a clip that has no row by then.
LEMMA DeleteFileInv ==
    ASSUME AudioInv, NEW k \in Desks, DeleteFile(k)
    PROVE  AudioInv'
<1> PICK f : f = desk[k].clip
    OBVIOUS
<1>1. AudioTyped /\ RowsInv /\ PlacesInv /\ PicksInv
    BY DEF AudioInv
<1>2. /\ desk[k].kind = "unlink" /\ disk' \in {disk, disk \ {f}} /\ desk' = [desk EXCEPT ![k] = AtRest]
      /\ UNCHANGED <<drawn, clipName, PlaceVars, PickVars, unsure>>
    BY DEF DeleteFile
<1>3. Proper(AtRest) /\ AtRest.kind = "rest"
    BY TaskMakers DEF AtRest
<1>4. /\ desk' \in [Desks -> Tasks] /\ \A m \in Desks : Proper(desk'[m])
      /\ desk'[k] = AtRest /\ \A m \in Desks \ {k} : desk'[m] = desk[m]
    BY <1>1, <1>2, <1>3, DeskMoves
<1>5. AudioTyped'
    <2>1. disk' \subseteq Clips
        BY <1>1, <1>2, AudioTypes
    <2> QED BY <1>1, <1>2, <1>4, <2>1 DEF AudioTyped, AudioTypeOK, PlaceVars, PickVars, Proper
<1>6. \A x : HasRow(x)' <=> HasRow(x)
    BY <1>2 DEF HasRow
<1>7. ~HasRow(f) /\ \A m \in Desks \ {k} : desk[m].kind = "insert" => desk[m].clip # f
    BY <1>1, <1>2 DEF RowsInv, FilesFirst
<1>8. RowsDrawn' /\ RowHasFile'
    BY <1>1, <1>2, <1>3, <1>4, <1>6, <1>7 DEF RowsInv, RowsDrawn, RowHasFile
<1>9. FilesFirst'
    <2> SUFFICES ASSUME NEW m \in Desks, desk'[m].kind \in {"insert", "unlink"}
                 PROVE  /\ clipName'[desk'[m].clip] = 0
                        /\ desk'[m].kind = "insert" =>
                             /\ desk'[m].clip \in disk'
                             /\ \A o \in Desks \ {m} :
                                   desk'[o].kind \in {"insert", "delete", "unlink"} => desk'[o].clip # desk'[m].clip
        BY DEF FilesFirst, HasRow
    <2>1. m # k /\ desk'[m] = desk[m]
        BY <1>3, <1>4
    <2> QED BY <1>1, <1>2, <1>3, <1>4, <1>7, <2>1 DEF RowsInv, FilesFirst, HasRow
<1>10. PlacesInv'
    <2>1. members \in [ClipGroups -> SUBSET Clips] /\ drawn \subseteq drawn'
        BY <1>1, <1>2, AudioTypes
    <2>2. \A m \in Desks : desk'[m] = desk[m] \/ desk'[m].kind # "reserve"
        BY <1>3, <1>4
    <2> QED BY <1>1, <1>2, <1>6, <2>1, <2>2, PlacesLeft
<1> QED BY <1>1, <1>2, <1>5, <1>8, <1>9, <1>10, PicksLeft DEF AudioInv, RowsInv

LEMMA RenameInv ==
    ASSUME AudioInv, NEW f \in Clips, NEW n \in 1..MaxName, Rename(f, n)
    PROVE  AudioInv'
<1>1. AudioTyped /\ RowsInv /\ PlacesInv /\ PicksInv
    BY DEF AudioInv
<1>2. /\ HasRow(f) /\ ~NameTaken(n) /\ clipName' = [clipName EXCEPT ![f] = n]
      /\ UNCHANGED <<disk, drawn, PlaceVars, desk, PickVars, unsure>>
    BY DEF Rename
<1>3. /\ clipName \in [Clips -> 0..MaxName] /\ n # 0 /\ n \in 0..MaxName
      /\ \A a, b \in Clips : clipName[a] = clipName[b] /\ clipName[a] # 0 => a = b
    BY <1>1, AudioTypes, AudioAssumption
<1>4. /\ clipName' \in [Clips -> 0..MaxName]
      /\ \A a, b \in Clips : clipName'[a] = clipName'[b] /\ clipName'[a] # 0 => a = b
    BY <1>2, <1>3 DEF NameTaken
<1>5. AudioTyped'
    BY <1>1, <1>2, <1>4 DEF AudioTyped, AudioTypeOK, PlaceVars, PickVars, Proper
<1>6. \A x \in Clips : HasRow(x)' <=> HasRow(x)
    BY <1>2, <1>3 DEF HasRow
<1>7. RowsDrawn' /\ RowHasFile'
    BY <1>1, <1>2, <1>6 DEF RowsInv, RowsDrawn, RowHasFile
<1>8. FilesFirst'
    <2>1. \A m \in Desks : desk[m].kind \in {"insert", "unlink"} => desk[m].clip \in Clips
        <3>1. \A m \in Desks : desk[m] \in Tasks /\ Proper(desk[m])
            BY <1>1 DEF AudioTyped, AudioTypeOK
        <3> QED BY <3>1, TaskKinds DEF Proper
    <2>2. \A x \in Clips : clipName[x] = 0 => clipName'[x] = 0
        BY <1>6 DEF HasRow
    <2> QED BY <1>1, <1>2, <2>1, <2>2 DEF RowsInv, FilesFirst, HasRow
<1>9. PlacesInv'
    <2>1. members \in [ClipGroups -> SUBSET Clips] /\ drawn \subseteq drawn'
        BY <1>1, <1>2, AudioTypes
    <2>2. \A m \in Desks : desk'[m] = desk[m]
        BY <1>2
    <2> QED BY <1>1, <1>2, <1>6, <2>1, <2>2, PlacesLeft
<1> QED BY <1>1, <1>2, <1>5, <1>7, <1>8, <1>9, PicksLeft DEF AudioInv, RowsInv

\* Groups, their members, the reservations and the requests about them may change, and
\* neither rows nor files do.
LEMMA PlacesMoved ==
    ASSUME AudioInv,
           UNCHANGED <<disk, clipName, PickVars, unsure>>,
           drawn \subseteq drawn', drawn' \subseteq Clips \cup ClipGroups,
           groups' \subseteq ClipGroups, members' \in [ClipGroups -> SUBSET Clips],
           reserved' \in [Lines -> Clips \cup ClipGroups \cup {NoClip}], emptied' \subseteq ClipGroups,
           desk' \in [Desks -> Tasks], \A m \in Desks : Proper(desk'[m]),
           \A m \in Desks : desk'[m] = desk[m] \/ desk'[m].kind \notin {"insert", "delete", "unlink"},
           PlacesInv'
    PROVE  AudioInv'
<1>1. AudioTyped /\ RowsInv /\ PicksInv
    BY DEF AudioInv
<1>2. AudioTyped'
    BY <1>1 DEF AudioTyped, AudioTypeOK, PickVars, Proper
<1> QED BY <1>1, <1>2, RowsAlone, PicksLeft DEF AudioInv

LEMMA LinkInv ==
    ASSUME AudioInv, NEW k \in Desks, Link(k)
    PROVE  AudioInv'
<1>1. AudioTyped /\ PlacesInv /\ Proper(desk[k])
    BY DEF AudioInv, AudioTyped
<1>2. PICK t : t = desk[k]
    OBVIOUS
<1>3. /\ t.kind = "link" /\ desk' = [desk EXCEPT ![k] = NextFile(t)]
      /\ UNCHANGED <<disk, drawn, clipName, groups, reserved, emptied, PickVars, unsure>>
    BY <1>2 DEF Link
<1>4. /\ Proper(NextFile(t)) /\ NextFile(t).kind \in {"rest", "convert"}
      /\ t.clip \in Clips /\ t.group \in ClipGroups
    BY <1>1, <1>2, <1>3, NextFileProper DEF Proper
<1>5. /\ desk' \in [Desks -> Tasks] /\ \A m \in Desks : Proper(desk'[m])
      /\ desk'[k] = NextFile(t) /\ \A m \in Desks \ {k} : desk'[m] = desk[m]
    BY <1>1, <1>3, <1>4, DeskMoves
<1>6. members \in [ClipGroups -> SUBSET Clips]
    BY <1>1, AudioTypes
<1>7. /\ members' \in [ClipGroups -> SUBSET Clips]
      /\ \A g \in ClipGroups : /\ members[g] \subseteq members'[g]
                               /\ members'[g] # members[g] => g \in groups
                               /\ \A f \in members'[g] : f \in members[g] \/ HasRow(f)
    <2>1. CASE members' = members
        BY <1>6, <2>1
    <2>2. CASE /\ t.group \in groups /\ HasRow(t.clip)
               /\ members' = [members EXCEPT ![t.group] = @ \cup {t.clip}]
        BY <1>4, <1>6, <2>2
    <2> QED BY <1>2, <2>1, <2>2 DEF Link
<1>8. \A x : HasRow(x)' <=> HasRow(x)
    BY <1>3 DEF HasRow
<1>9. MembersHaveRows'
    BY <1>1, <1>3, <1>7, <1>8 DEF PlacesInv, MembersHaveRows
<1>10. ReservesFound'
    <2>1. \A m \in Desks : desk'[m].kind = "reserve" => desk'[m] = desk[m]
        BY <1>4, <1>5
    <2> QED BY <1>1, <1>3, <1>7, <2>1 DEF PlacesInv, ReservesFound
<1>11. ReservationPlays'
    BY <1>1, <1>3, <1>7, <1>8 DEF PlacesInv, ReservationPlays
<1>12. PlacesInv'
    BY <1>9, <1>10, <1>11 DEF PlacesInv
<1> QED BY <1>1, <1>3, <1>4, <1>5, <1>7, <1>12, PlacesMoved, AudioTypes

LEMMA GroupCreateInv ==
    ASSUME AudioInv, NEW g \in ClipGroups, GroupCreate(g)
    PROVE  AudioInv'
<1>1. AudioTyped /\ PlacesInv
    BY DEF AudioInv
<1>2. /\ g \notin drawn /\ drawn' = drawn \cup {g} /\ groups' = groups \cup {g}
      /\ UNCHANGED <<disk, clipName, members, reserved, emptied, desk, PickVars, unsure>>
    BY DEF GroupCreate
<1>3. desk \in [Desks -> Tasks] /\ \A m \in Desks : Proper(desk[m])
    BY <1>1 DEF AudioTyped, AudioTypeOK
<1>4. \A x : HasRow(x)' <=> HasRow(x)
    BY <1>2 DEF HasRow
<1>5. MembersHaveRows'
    BY <1>1, <1>2, <1>4 DEF PlacesInv, MembersHaveRows
<1>6. ReservesFound'
    BY <1>1, <1>2 DEF PlacesInv, ReservesFound
<1>7. ReservationPlays'
    BY <1>1, <1>2, <1>4 DEF PlacesInv, ReservationPlays
<1>8. PlacesInv'
    BY <1>5, <1>6, <1>7 DEF PlacesInv
<1>9. drawn' \subseteq Clips \cup ClipGroups /\ groups' \subseteq ClipGroups
    BY <1>1, <1>2, AudioTypes
<1> QED BY <1>1, <1>2, <1>3, <1>8, <1>9, PlacesMoved, AudioTypes

\* A group goes that no DID is reserved for, and its id is not used again.
LEMMA GroupDeleteInv ==
    ASSUME AudioInv, NEW k \in Desks, GroupDelete(k)
    PROVE  AudioInv'
<1> PICK g : g = desk[k].group
    OBVIOUS
<1>1. AudioTyped /\ PlacesInv /\ Proper(desk[k])
    BY DEF AudioInv, AudioTyped
<1>2. /\ desk[k].kind = "dropGroup" /\ desk' = [desk EXCEPT ![k] = AtRest]
      /\ UNCHANGED <<disk, drawn, clipName, reserved, emptied, PickVars, unsure>>
    BY DEF GroupDelete
<1>3. Proper(AtRest) /\ AtRest.kind = "rest" /\ g \in ClipGroups
    BY <1>1, <1>2, TaskKinds, TaskMakers DEF AtRest, Proper
<1>4. /\ desk' \in [Desks -> Tasks] /\ \A m \in Desks : Proper(desk'[m])
      /\ desk'[k] = AtRest /\ \A m \in Desks \ {k} : desk'[m] = desk[m]
    BY <1>1, <1>2, <1>3, DeskMoves
<1>5. CASE OnLine(g)
    <2>1. UNCHANGED <<disk, drawn, clipName, PlaceVars, PickVars, unsure>>
        BY <1>2, <1>5 DEF GroupDelete, PlaceVars
    <2> QED BY <1>2, <1>3, <2>1, AsideInv
<1>6. CASE ~OnLine(g)
    <2>1. groups' = groups \ {g} /\ members' = [members EXCEPT ![g] = {}]
        BY <1>6 DEF GroupDelete
    <2>2. members \in [ClipGroups -> SUBSET Clips] /\ groups \subseteq ClipGroups
        BY <1>1, AudioTypes
    <2>3. /\ members' \in [ClipGroups -> SUBSET Clips] /\ members'[g] = {}
          /\ \A h \in ClipGroups \ {g} : members'[h] = members[h]
        BY <1>3, <2>1, <2>2
    <2>4. \A x : HasRow(x)' <=> HasRow(x)
        BY <1>2 DEF HasRow
    <2>5. MembersHaveRows'
        BY <1>1, <1>2, <2>1, <2>3, <2>4 DEF PlacesInv, MembersHaveRows
    <2>6. ReservesFound'
        <3>1. \A m \in Desks : desk'[m].kind = "reserve" => desk'[m] = desk[m]
            BY <1>3, <1>4
        <3> QED BY <1>1, <1>2, <2>1, <2>3, <3>1 DEF PlacesInv, ReservesFound
    <2>7. ReservationPlays'
        <3>1. \A l \in Lines : reserved[l] # g
            BY <1>6 DEF OnLine
        <3> QED BY <1>1, <1>2, <2>1, <2>3, <2>4, <3>1 DEF PlacesInv, ReservationPlays
    <2>8. PlacesInv'
        BY <2>5, <2>6, <2>7 DEF PlacesInv
    <2>9. groups' \subseteq ClipGroups
        BY <2>1, <2>2
    <2> QED BY <1>1, <1>2, <1>3, <1>4, <2>3, <2>8, <2>9, PlacesMoved, AudioTypes
<1> QED BY <1>5, <1>6

LEMMA MembersInv ==
    ASSUME AudioInv, NEW g \in ClipGroups, NEW f \in Clips, AddMember(g, f) \/ RemoveMember(g, f)
    PROVE  AudioInv'
<1>1. AudioTyped /\ PlacesInv
    BY DEF AudioInv
<1>2. UNCHANGED <<disk, drawn, clipName, groups, reserved, desk, PickVars, unsure>>
    BY DEF AddMember, RemoveMember
<1>3. /\ members \in [ClipGroups -> SUBSET Clips] /\ emptied \subseteq ClipGroups
      /\ desk \in [Desks -> Tasks] /\ \A m \in Desks : Proper(desk[m])
    BY <1>1 DEF AudioTyped, AudioTypeOK
<1>4. /\ members' \in [ClipGroups -> SUBSET Clips]
      /\ emptied' \subseteq ClipGroups /\ emptied \subseteq emptied'
      /\ \A h \in ClipGroups : /\ members'[h] # {} => h \in groups
                               /\ \A x \in members'[h] : HasRow(x)
                               /\ members[h] # {} => members'[h] # {} \/ h \in emptied'
    <2>1. \A h \in ClipGroups : /\ members[h] # {} => h \in groups
                                /\ \A x \in members[h] : HasRow(x)
        BY <1>1 DEF PlacesInv, MembersHaveRows
    <2>2. CASE AddMember(g, f)
        <3>1. g \in groups /\ HasRow(f) /\ members' = [members EXCEPT ![g] = @ \cup {f}] /\ emptied' = emptied
            BY <2>2 DEF AddMember
        <3> QED BY <1>3, <2>1, <3>1
    <2>3. CASE RemoveMember(g, f)
        <3>1. f \in members[g] /\ members' = [members EXCEPT ![g] = @ \ {f}]
              /\ emptied' = IF members[g] = {f} THEN emptied \cup {g} ELSE emptied
            BY <2>3 DEF RemoveMember
        <3>2. members'[g] = members[g] \ {f} /\ \A h \in ClipGroups \ {g} : members'[h] = members[h]
            BY <1>3, <3>1
        <3>3. members'[g] # {} \/ g \in emptied'
            BY <3>1, <3>2
        <3> QED BY <1>3, <2>1, <3>1, <3>2, <3>3
    <2> QED BY <2>2, <2>3
<1>5. \A x : HasRow(x)' <=> HasRow(x)
    BY <1>2 DEF HasRow
<1>6. MembersHaveRows'
    BY <1>1, <1>2, <1>4, <1>5 DEF PlacesInv, MembersHaveRows
<1>7. ReservesFound'
    BY <1>1, <1>2, <1>4 DEF PlacesInv, ReservesFound
<1>8. ReservationPlays'
    BY <1>1, <1>2, <1>4, <1>5 DEF PlacesInv, ReservationPlays
<1>9. PlacesInv'
    BY <1>6, <1>7, <1>8 DEF PlacesInv
<1> QED BY <1>1, <1>2, <1>3, <1>4, <1>9, PlacesMoved, AudioTypes

LEMMA ReserveOpenInv ==
    ASSUME AudioInv, NEW k \in Desks, NEW l \in Lines, NEW x \in Clips \cup ClipGroups, ReserveOpen(k, l, x)
    PROVE  AudioInv'
<1> DEFINE next == [kind |-> "reserve", line |-> l, to |-> x]
<1>1. AudioTyped /\ PlacesInv
    BY DEF AudioInv
<1>2. /\ x \in ClipGroups => x \in groups /\ members[x] # {}
      /\ desk' = [desk EXCEPT ![k] = next]
      /\ UNCHANGED <<disk, drawn, clipName, PlaceVars, PickVars, unsure>>
    BY DEF ReserveOpen
<1>3. Proper(next) /\ next.kind = "reserve" /\ next.to = x
    BY TaskMakers
<1> HIDE DEF next
<1>4. /\ desk' \in [Desks -> Tasks] /\ \A m \in Desks : Proper(desk'[m])
      /\ desk'[k] = next /\ \A m \in Desks \ {k} : desk'[m] = desk[m]
    BY <1>1, <1>2, <1>3, DeskMoves
<1>5. UNCHANGED <<groups, members, reserved, emptied>>
    BY <1>2 DEF PlaceVars
<1>6. MembersHaveRows'
    BY <1>1, <1>2, <1>5 DEF PlacesInv, MembersHaveRows, HasRow
<1>7. ReservesFound'
    <2>1. x \in ClipGroups => x \in drawn /\ members[x] # {}
        BY <1>1, <1>2 DEF PlacesInv, MembersHaveRows
    <2> QED BY <1>1, <1>2, <1>3, <1>4, <1>5, <2>1 DEF PlacesInv, ReservesFound
<1>8. ReservationPlays'
    BY <1>1, <1>2, <1>5 DEF PlacesInv, ReservationPlays, HasRow
<1>9. PlacesInv'
    BY <1>6, <1>7, <1>8 DEF PlacesInv
<1> QED BY <1>1, <1>2, <1>3, <1>4, <1>5, <1>9, PlacesMoved, AudioTypes

\* The foreign keys see to it that what is reserved is there.
LEMMA ReserveWriteInv ==
    ASSUME AudioInv, NEW k \in Desks, ReserveWrite(k)
    PROVE  AudioInv'
<1> PICK t : t = desk[k]
    OBVIOUS
<1>1. AudioTyped /\ PlacesInv /\ Proper(t)
    BY DEF AudioInv, AudioTyped
<1>2. /\ t.kind = "reserve" /\ desk' = [desk EXCEPT ![k] = AtRest]
      /\ reserved' = IF reserved[t.line] = NoClip /\ (t.to \in Clips => HasRow(t.to))
                                                 /\ (t.to \in ClipGroups => t.to \in groups)
                     THEN [reserved EXCEPT ![t.line] = t.to] ELSE reserved
      /\ UNCHANGED <<disk, drawn, clipName, groups, members, emptied, PickVars, unsure>>
    BY DEF ReserveWrite
<1>3. t.line \in Lines /\ t.to \in Clips \cup ClipGroups /\ Proper(AtRest) /\ AtRest.kind = "rest"
    BY <1>1, <1>2, TaskKinds, TaskMakers DEF AtRest, Proper
<1>4. /\ desk' \in [Desks -> Tasks] /\ \A m \in Desks : Proper(desk'[m])
      /\ desk'[k] = AtRest /\ \A m \in Desks \ {k} : desk'[m] = desk[m]
    BY <1>1, <1>2, <1>3, DeskMoves
<1>5. reserved \in [Lines -> Clips \cup ClipGroups \cup {NoClip}]
    BY <1>1, AudioTypes
<1>6. /\ reserved' \in [Lines -> Clips \cup ClipGroups \cup {NoClip}]
      /\ \A l \in Lines : \/ reserved'[l] = reserved[l]
                          \/ /\ reserved'[l] = t.to
                             /\ t.to \in Clips => HasRow(t.to)
                             /\ t.to \in ClipGroups => t.to \in groups
    BY <1>2, <1>3, <1>5
<1>7. MembersHaveRows'
    BY <1>1, <1>2 DEF PlacesInv, MembersHaveRows, HasRow
<1>8. ReservesFound'
    BY <1>1, <1>2, <1>3, <1>4 DEF PlacesInv, ReservesFound
<1>9. ReservationPlays'
    <2>1. t.to \in ClipGroups /\ t.to \in groups => members[t.to] # {} \/ t.to \in emptied
        BY <1>1, <1>2 DEF PlacesInv, ReservesFound
    <2>2. \A g \in ClipGroups : \A f \in members[g] : HasRow(f)
        BY <1>1 DEF PlacesInv, MembersHaveRows
    <2>3. \A x : HasRow(x)' <=> HasRow(x)
        BY <1>2 DEF HasRow
    <2> SUFFICES ASSUME NEW l \in Lines
                 PROVE  /\ reserved'[l] \in Clips => HasRow(reserved'[l])
                        /\ reserved'[l] \in ClipGroups =>
                              /\ reserved'[l] \in groups /\ \A f \in members[reserved'[l]] : HasRow(f)
                              /\ members[reserved'[l]] # {} \/ reserved'[l] \in emptied
        BY <1>2, <2>3 DEF ReservationPlays, HasRow
    <2>4. CASE reserved'[l] = reserved[l]
        BY <1>1, <2>4 DEF PlacesInv, ReservationPlays
    <2>5. CASE reserved'[l] # reserved[l]
        BY <1>6, <2>1, <2>2, <2>5
    <2> QED BY <2>4, <2>5
<1>10. PlacesInv'
    BY <1>7, <1>8, <1>9 DEF PlacesInv
<1> QED BY <1>1, <1>2, <1>3, <1>4, <1>6, <1>10, PlacesMoved, AudioTypes

LEMMA ReleaseLineInv ==
    ASSUME AudioInv, NEW l \in Lines, ReleaseLine(l)
    PROVE  AudioInv'
<1>1. AudioTyped /\ PlacesInv
    BY DEF AudioInv
<1>2. /\ reserved' = [reserved EXCEPT ![l] = NoClip]
      /\ UNCHANGED <<disk, drawn, clipName, groups, members, emptied, desk, PickVars, unsure>>
    BY DEF ReleaseLine
<1>3. /\ reserved \in [Lines -> Clips \cup ClipGroups \cup {NoClip}]
      /\ desk \in [Desks -> Tasks] /\ \A m \in Desks : Proper(desk[m])
    BY <1>1 DEF AudioTyped, AudioTypeOK
<1>4. /\ reserved' \in [Lines -> Clips \cup ClipGroups \cup {NoClip}]
      /\ \A m \in Lines : reserved'[m] = reserved[m] \/ reserved'[m] = NoClip
    BY <1>2, <1>3
<1>5. MembersHaveRows'
    BY <1>1, <1>2 DEF PlacesInv, MembersHaveRows, HasRow
<1>6. ReservesFound'
    BY <1>1, <1>2 DEF PlacesInv, ReservesFound
<1>7. ReservationPlays'
    BY <1>1, <1>2, <1>4, AudioAssumption DEF PlacesInv, ReservationPlays, HasRow
<1>8. PlacesInv'
    BY <1>5, <1>6, <1>7 DEF PlacesInv
<1> QED BY <1>1, <1>2, <1>3, <1>4, <1>8, PlacesMoved, AudioTypes

\* A set with more than one element has one beside any other.
LEMMA TwoOrMore ==
    ASSUME NEW S, Cardinality(S) > 1, NEW x
    PROVE  S \ {x} # {}
<1>1. SUFFICES ASSUME S \ {x} = {} PROVE FALSE
    OBVIOUS
<1>2. S = {} \/ S = {x}
    BY <1>1
<1>3. Cardinality({}) = 0 /\ Cardinality({x}) = 1
    BY FS_EmptySet, FS_Singleton
<1> QED BY <1>2, <1>3

\* A step of a choice leaves everything else alone.
LEMMA PicksMoved ==
    ASSUME AudioInv, UNCHANGED <<disk, drawn, clipName, PlaceVars, desk, unsure>>,
           lastPlayed' \in [ClipGroups -> Clips \cup {NoClip}], heard' \in [ClipGroups -> Clips \cup {NoClip}],
           dialog' \in [Dialogs -> Dialog], PicksInv'
    PROVE  AudioInv'
<1>1. AudioTyped /\ RowsInv /\ PlacesInv
    BY DEF AudioInv
<1>2. AudioTyped'
    BY <1>1 DEF AudioTyped, AudioTypeOK, PlaceVars, Dialog, Proper
<1>3. PlacesInv'
    <2>1. members \in [ClipGroups -> SUBSET Clips]
        BY <1>1, AudioTypes
    <2> QED BY <1>1, <2>1, PlacesLeft DEF HasRow
<1> QED BY <1>1, <1>2, <1>3, RowsAlone DEF AudioInv

LEMMA PickOpenInv ==
    ASSUME AudioInv, NEW i \in Dialogs, NEW g \in ClipGroups, PickOpen(i, g)
    PROVE  AudioInv'
<1> DEFINE new == [at |-> "ask", group |-> g, pool |-> members[g], clip |-> NoClip, before |-> heard[g]]
<1>1. AudioTyped /\ PicksInv
    BY DEF AudioInv
<1>2. /\ lastPlayed \in [ClipGroups -> Clips \cup {NoClip}] /\ heard \in [ClipGroups -> Clips \cup {NoClip}]
      /\ dialog \in [Dialogs -> Dialog] /\ members \in [ClipGroups -> SUBSET Clips]
    BY <1>1, AudioTypes
<1>3. /\ Cardinality(members[g]) > 1 /\ dialog' = [dialog EXCEPT ![i] = new]
      /\ UNCHANGED <<disk, drawn, clipName, PlaceVars, desk, lastPlayed, unsure, heard>>
    BY DEF PickOpen
<1>4. new \in Dialog /\ new.at = "ask" /\ new.group = g /\ new.pool = members[g] /\ new.before = heard[g]
    BY <1>2 DEF Dialog
<1> HIDE DEF new
<1>5. /\ dialog' \in [Dialogs -> Dialog]
      /\ dialog'[i] = new /\ \A j \in Dialogs \ {i} : dialog'[j] = dialog[j]
    BY <1>2, <1>3, <1>4
<1>6. KeyHeard'
    BY <1>1, <1>3 DEF PicksInv, KeyHeard
<1>7. ChoicesOpen'
    <2>1. \A f \in Clips \cup {NoClip} : members[g] \ {f} # {}
        BY <1>3, TwoOrMore
    <2>2. heard[g] # NoClip => lastPlayed[g] = heard[g]
        BY <1>1 DEF PicksInv, KeyHeard
    <2> QED BY <1>1, <1>3, <1>4, <1>5, <2>1, <2>2 DEF PicksInv, ChoicesOpen
<1>8. NoRepeat'
    BY <1>1, <1>4, <1>5 DEF PicksInv, NoRepeat
<1>9. PicksInv'
    BY <1>6, <1>7, <1>8 DEF PicksInv
<1> QED BY <1>2, <1>3, <1>5, <1>9, PicksMoved

\* The clip to avoid is in the key, and is not the only candidate.
LEMMA PickChooseInv ==
    ASSUME AudioInv, NEW i \in Dialogs, PickChoose(i)
    PROVE  AudioInv'
<1> PICK d : d = dialog[i]
    OBVIOUS
<1>1. AudioTyped /\ PicksInv
    BY DEF AudioInv
<1>2. /\ lastPlayed \in [ClipGroups -> Clips \cup {NoClip}] /\ heard \in [ClipGroups -> Clips \cup {NoClip}]
      /\ dialog \in [Dialogs -> Dialog]
    BY <1>1, AudioTypes
<1>3. d.at = "ask" /\ UNCHANGED <<disk, drawn, clipName, PlaceVars, desk, lastPlayed, unsure, heard>>
    BY DEF PickChoose
<1>4. d \in Dialog /\ d.group \in ClipGroups
    BY <1>1, <1>2, <1>3 DEF PicksInv, ChoicesOpen
<1>5. /\ \A f \in Clips \cup {NoClip} : d.pool \ {f} # {}
      /\ d.before # NoClip => lastPlayed[d.group] = d.before
    BY <1>1, <1>3 DEF PicksInv, ChoicesOpen
<1>6. ASSUME NEW new \in Dialog, dialog' = [dialog EXCEPT ![i] = new], new.at = "set", new.group = d.group,
             new.before # NoClip => new.clip # new.before
      PROVE  AudioInv'
    <2>1. /\ dialog' \in [Dialogs -> Dialog]
          /\ dialog'[i] = new /\ \A j \in Dialogs \ {i} : dialog'[j] = dialog[j]
        BY <1>2, <1>6
    <2>2. KeyHeard'
        BY <1>1, <1>3 DEF PicksInv, KeyHeard
    <2>3. ChoicesOpen'
        BY <1>1, <1>3, <1>4, <1>6, <2>1 DEF PicksInv, ChoicesOpen
    <2>4. NoRepeat'
        BY <1>1, <1>6, <2>1 DEF PicksInv, NoRepeat
    <2>5. PicksInv'
        BY <2>2, <2>3, <2>4 DEF PicksInv
    <2> QED BY <1>2, <1>3, <2>1, <2>5, PicksMoved
<1>7. ASSUME NEW f \in Candidates(d.pool, lastPlayed[d.group]),
             dialog' = [dialog EXCEPT ![i].at = "set", ![i].clip = f]
      PROVE  AudioInv'
    <2> DEFINE new == [d EXCEPT !.at = "set", !.clip = f]
    <2>1. f \in d.pool \ {lastPlayed[d.group]}
        BY <1>2, <1>4, <1>5 DEF Candidates
    <2>2. f \in Clips
        BY <1>4, <2>1 DEF Dialog
    <2>3. new \in Dialog /\ new.at = "set" /\ new.group = d.group /\ new.clip = f /\ new.before = d.before
        BY <1>4, <2>2 DEF Dialog
    <2>4. dialog' = [dialog EXCEPT ![i] = new]
        BY <1>2, <1>4, <1>7 DEF Dialog
    <2> HIDE DEF new
    <2> QED BY <1>5, <1>6, <2>1, <2>3, <2>4
<1>8. ASSUME NEW f \in d.pool, dialog' = [dialog EXCEPT ![i].at = "set", ![i].clip = f, ![i].before = NoClip]
      PROVE  AudioInv'
    <2> DEFINE new == [d EXCEPT !.at = "set", !.clip = f, !.before = NoClip]
    <2>1. f \in Clips
        BY <1>4 DEF Dialog
    <2>2. new \in Dialog /\ new.at = "set" /\ new.group = d.group /\ new.before = NoClip
        BY <1>4, <2>1 DEF Dialog
    <2>3. dialog' = [dialog EXCEPT ![i] = new]
        BY <1>2, <1>4, <1>8 DEF Dialog
    <2> HIDE DEF new
    <2> QED BY <1>6, <2>2, <2>3
<1> QED BY <1>7, <1>8 DEF PickChoose

\* The key of a group changes, and every other choice in the group forgets what it was to avoid.
LEMMA KeyMoves ==
    ASSUME AudioInv, NEW g \in ClipGroups, NEW new \in Clips \cup {NoClip}, NEW old \in Clips \cup {NoClip},
           UNCHANGED <<disk, drawn, clipName, PlaceVars, desk, unsure>>,
           lastPlayed' \in {lastPlayed, [lastPlayed EXCEPT ![g] = new]},
           heard' = [heard EXCEPT ![g] = old], old # NoClip => lastPlayed'[g] = old,
           dialog' \in [Dialogs -> Dialog],
           \A j \in Dialogs : \/ dialog'[j].at = "off"
                              \/ dialog'[j] = dialog[j] /\ dialog[j].group # g
                              \/ /\ dialog'[j].before = NoClip
                                 /\ dialog'[j].at = dialog[j].at /\ dialog'[j].group = dialog[j].group
                                 /\ dialog'[j].pool = dialog[j].pool
    PROVE  AudioInv'
<1>1. AudioTyped /\ PicksInv
    BY DEF AudioInv
<1>2. lastPlayed \in [ClipGroups -> Clips \cup {NoClip}] /\ heard \in [ClipGroups -> Clips \cup {NoClip}]
    BY <1>1, AudioTypes
<1>3. /\ lastPlayed' \in [ClipGroups -> Clips \cup {NoClip}] /\ heard' \in [ClipGroups -> Clips \cup {NoClip}]
      /\ heard'[g] = old
      /\ \A h \in ClipGroups \ {g} : lastPlayed'[h] = lastPlayed[h] /\ heard'[h] = heard[h]
    BY <1>2
<1>4. KeyHeard'
    BY <1>1, <1>3 DEF PicksInv, KeyHeard
<1>5. ChoicesOpen'
    BY <1>1, <1>3 DEF PicksInv, ChoicesOpen
<1>6. NoRepeat'
    BY <1>1 DEF PicksInv, NoRepeat
<1>7. PicksInv'
    BY <1>4, <1>5, <1>6 DEF PicksInv
<1> QED BY <1>3, <1>7, PicksMoved

LEMMA PickSetInv ==
    ASSUME AudioInv, NEW i \in Dialogs, PickSet(i)
    PROVE  AudioInv'
<1> PICK g, f : g = dialog[i].group /\ f = dialog[i].clip
    OBVIOUS
<1>1. AudioTyped /\ PicksInv
    BY DEF AudioInv
<1>2. /\ lastPlayed \in [ClipGroups -> Clips \cup {NoClip}] /\ heard \in [ClipGroups -> Clips \cup {NoClip}]
      /\ dialog \in [Dialogs -> Dialog]
    BY <1>1, AudioTypes
<1>3. /\ dialog[i].at = "set" /\ UNCHANGED <<disk, drawn, clipName, PlaceVars, desk, unsure>>
      /\ \/ lastPlayed' = [lastPlayed EXCEPT ![g] = f] /\ heard' = [heard EXCEPT ![g] = f]
         \/ lastPlayed' = lastPlayed /\ heard' = [heard EXCEPT ![g] = NoClip]
      /\ dialog' = [Overtaken(g, i) EXCEPT ![i] = Quiet]
    BY DEF PickSet
<1>4. g \in ClipGroups /\ f \in Clips \cup {NoClip}
    BY <1>1, <1>2, <1>3 DEF PicksInv, ChoicesOpen, Dialog
<1>5. \A j \in Dialogs : /\ [dialog[j] EXCEPT !.before = NoClip] \in Dialog
                         /\ [dialog[j] EXCEPT !.before = NoClip].before = NoClip
                         /\ [dialog[j] EXCEPT !.before = NoClip].at = dialog[j].at
                         /\ [dialog[j] EXCEPT !.before = NoClip].group = dialog[j].group
                         /\ [dialog[j] EXCEPT !.before = NoClip].pool = dialog[j].pool
    BY <1>2 DEF Dialog
<1>6. Overtaken(g, i) \in [Dialogs -> Dialog] /\ Quiet \in Dialog /\ Quiet.at = "off"
    BY <1>2, <1>5 DEF Overtaken, Quiet, Dialog
<1>7. /\ dialog' \in [Dialogs -> Dialog] /\ dialog'[i].at = "off"
      /\ \A j \in Dialogs \ {i} : dialog'[j] = IF dialog[j].group = g THEN [dialog[j] EXCEPT !.before = NoClip]
                                               ELSE dialog[j]
    <2>1. /\ dialog' \in [Dialogs -> Dialog] /\ dialog'[i] = Quiet
          /\ \A j \in Dialogs \ {i} : dialog'[j] = Overtaken(g, i)[j]
        BY <1>3, <1>6
    <2> QED BY <1>6, <2>1 DEF Overtaken
<1>8. \A j \in Dialogs : \/ dialog'[j].at = "off"
                         \/ dialog'[j] = dialog[j] /\ dialog[j].group # g
                         \/ /\ dialog'[j].before = NoClip
                            /\ dialog'[j].at = dialog[j].at /\ dialog'[j].group = dialog[j].group
                            /\ dialog'[j].pool = dialog[j].pool
    BY <1>5, <1>7
<1>9. CASE lastPlayed' = [lastPlayed EXCEPT ![g] = f] /\ heard' = [heard EXCEPT ![g] = f]
    <2>1. lastPlayed'[g] = f
        BY <1>2, <1>4, <1>9
    <2> QED BY <1>3, <1>4, <1>7, <1>8, <1>9, <2>1, KeyMoves
<1>10. CASE lastPlayed' = lastPlayed /\ heard' = [heard EXCEPT ![g] = NoClip]
    BY <1>3, <1>4, <1>7, <1>8, <1>10, KeyMoves
<1> QED BY <1>3, <1>9, <1>10

LEMMA KeyExpiresInv ==
    ASSUME AudioInv, NEW g \in ClipGroups, KeyExpires(g)
    PROVE  AudioInv'
<1>1. AudioTyped
    BY DEF AudioInv
<1>2. dialog \in [Dialogs -> Dialog]
    BY <1>1, AudioTypes
<1>3. /\ lastPlayed' = [lastPlayed EXCEPT ![g] = NoClip] /\ heard' = [heard EXCEPT ![g] = NoClip]
      /\ UNCHANGED <<disk, drawn, clipName, PlaceVars, desk, unsure>>
      /\ dialog' = [j \in Dialogs |-> IF dialog[j].group = g
                                      THEN [dialog[j] EXCEPT !.before = NoClip] ELSE dialog[j]]
    BY DEF KeyExpires
<1>4. \A j \in Dialogs : /\ [dialog[j] EXCEPT !.before = NoClip] \in Dialog
                         /\ [dialog[j] EXCEPT !.before = NoClip].before = NoClip
                         /\ [dialog[j] EXCEPT !.before = NoClip].at = dialog[j].at
                         /\ [dialog[j] EXCEPT !.before = NoClip].group = dialog[j].group
                         /\ [dialog[j] EXCEPT !.before = NoClip].pool = dialog[j].pool
    BY <1>2 DEF Dialog
<1>5. dialog' \in [Dialogs -> Dialog]
    BY <1>2, <1>3, <1>4
<1>6. \A j \in Dialogs : \/ dialog'[j].at = "off"
                         \/ dialog'[j] = dialog[j] /\ dialog[j].group # g
                         \/ /\ dialog'[j].before = NoClip
                            /\ dialog'[j].at = dialog[j].at /\ dialog'[j].group = dialog[j].group
                            /\ dialog'[j].pool = dialog[j].pool
    BY <1>3, <1>4
<1> QED BY <1>3, <1>5, <1>6, KeyMoves

LEMMA AudioStepInv == AudioInv /\ AudioNext => AudioInv'
<1> SUFFICES ASSUME AudioInv, AudioNext PROVE AudioInv'
    OBVIOUS
<1>1. ASSUME NEW k \in Desks, DeskNext(k) PROVE AudioInv'
    BY <1>1, OpeningsInv, ConvertInv, ClipInsertInv, LinkInv, DeleteOpenInv, DeleteRowInv, DeleteFileInv,
       GroupDeleteInv, ReserveOpenInv, ReserveWriteInv DEF DeskNext
<1>2. ASSUME NEW i \in Dialogs, PickNext(i) PROVE AudioInv'
    BY <1>2, PickOpenInv, PickChooseInv, PickSetInv DEF PickNext
<1>3. ASSUME NEW f \in Clips, NEW n \in 1..MaxName, Rename(f, n) PROVE AudioInv'
    BY <1>3, RenameInv
<1>4. ASSUME NEW g \in ClipGroups,
             GroupCreate(g) \/ KeyExpires(g) \/ \E f \in Clips : AddMember(g, f) \/ RemoveMember(g, f)
      PROVE  AudioInv'
    BY <1>4, GroupCreateInv, KeyExpiresInv, MembersInv
<1>5. ASSUME NEW l \in Lines, ReleaseLine(l) PROVE AudioInv'
    BY <1>5, ReleaseLineInv
<1> QED BY <1>1, <1>2, <1>3, <1>4, <1>5 DEF AudioNext

LEMMA AudioInvariant == AudioSpec => []AudioInv
<1>1. AudioInv /\ UNCHANGED audioVars => AudioInv'
    <2> SUFFICES ASSUME AudioInv, UNCHANGED audioVars PROVE AudioInv'
        OBVIOUS
    <2>1. UNCHANGED <<disk, drawn, clipName, groups, members, reserved, desk, lastPlayed, dialog, unsure,
                      emptied, heard>>
        BY DEF audioVars
    <2>2. AudioTyped'
        BY <2>1 DEF AudioInv, AudioTyped, AudioTypeOK, Proper
    <2>3. RowsInv'
        BY <2>1, RowsAlone DEF AudioInv
    <2>4. PlacesInv'
        BY <2>1 DEF AudioInv, PlacesInv, MembersHaveRows, ReservesFound, ReservationPlays, HasRow
    <2>5. PicksInv'
        BY <2>1, PicksLeft DEF AudioInv, PickVars
    <2> QED BY <2>2, <2>3, <2>4, <2>5 DEF AudioInv
<1> QED BY <1>1, AudioInitInv, AudioStepInv, PTL DEF AudioSpec

\* The audio tables keep their types, and no two clips ever have one name, however uploads,
\* bulk uploads and renames overlap (UNIQUE on audio_files.name).
THEOREM AudioTypeCorrect == AudioSpec => []AudioTypeOK
<1>1. AudioInv => AudioTypeOK
    BY DEF AudioInv, AudioTyped
<1> QED BY <1>1, AudioInvariant, PTL

\* Every row of audio_files has its file, whatever uploads, deletions and crashes go on
\* beside each other, but for rows that an upload took for missing.
THEOREM RowsHaveFiles == AudioSpec => []RowHasFile
<1>1. AudioInv => RowHasFile
    BY DEF AudioInv, RowsInv
<1> QED BY <1>1, AudioInvariant, PTL

\* A reserved DID has something to play, whatever is deleted beside the reservation,
\* unless somebody took the last clip out of its group.
THEOREM ReservationsPlay == AudioSpec => []ReservationPlays
<1>1. AudioInv => ReservationPlays
    BY DEF AudioInv, PlacesInv
<1> QED BY <1>1, AudioInvariant, PTL

\* A call to a group does not play the clip of the call before it, unless their choices
\* overlapped, the key expired or Redis failed.
THEOREM NeverTwiceInARow == AudioSpec => []NoRepeat
<1>1. AudioInv => NoRepeat
    BY DEF AudioInv, PicksInv
<1> QED BY <1>1, AudioInvariant, PTL

-----------------------------------------------------------------------------
(* The resellers.  What a deletion has counted may be out of date when it   *)
(* deletes: whoever came since is late.                                    *)

\* Who is under a reseller that a deletion has counted came late, or the count failed.
Counted ==
    \A c \in Calls : call[c].at = "counted" =>
        /\ call[c].reseller \in resellers
        /\ \A u \in Customers : under[u] = call[c].reseller => u \in late \/ call[c].reseller \in blind

\* A user is where it was put, or has become direct.
PutOrDirect == \A u \in Customers : under[u] = chosen[u] \/ under[u] = Direct

ResellerInv == ResellerTypeOK /\ Counted /\ PutOrDirect /\ UsersKeepReseller

\* There is nobody to begin with.
LEMMA ResellerInitInv == ResellerInit => ResellerInv
BY ResellerAssumption
   DEF ResellerInit, ResellerInv, ResellerTypeOK, Counted, PutOrDirect, UsersKeepReseller, NoCall, Unborn

\* Putting a user somewhere keeps the users' part; it may make it late for a deletion.
LEMMA PutKeeps ==
    ASSUME ResellerInv, NEW u \in Customers, NEW r \in ResellerIds \cup {Direct}, Put(u, r),
           UNCHANGED <<resellers, live, blind>>,
           \A c \in Calls : call'[c] = call[c] \/ call'[c] = NoCall
    PROVE  /\ under' \in [Customers -> live' \cup {Direct, Unborn}]
           /\ chosen' \in [Customers -> resellers' \cup {Direct, Unborn}]
           /\ late' \subseteq Customers
           /\ Counted' /\ PutOrDirect' /\ UsersKeepReseller'
<1>1. /\ under' \in [Customers -> live' \cup {Direct, Unborn}]
      /\ chosen' \in [Customers -> resellers' \cup {Direct, Unborn}]
      /\ late' \subseteq Customers
    BY DEF ResellerInv, ResellerTypeOK, Put
<1>2. PutOrDirect'
    BY DEF ResellerInv, ResellerTypeOK, PutOrDirect, Put
<1>3. UsersKeepReseller'
    BY DEF ResellerInv, ResellerTypeOK, UsersKeepReseller, Put
<1>4. Counted'
    <2> SUFFICES ASSUME NEW c \in Calls, call'[c].at = "counted"
                 PROVE  /\ call'[c].reseller \in resellers'
                        /\ \A v \in Customers : under'[v] = call'[c].reseller
                              => v \in late' \/ call'[c].reseller \in blind'
        BY DEF Counted
    <2>1. call'[c] = call[c] /\ call[c].at = "counted"
        BY DEF NoCall
    <2>2. call[c].reseller \in resellers
        BY <2>1 DEF ResellerInv, Counted
    <2>3. call[c] = [at |-> "counted", reseller |-> call[c].reseller]
        BY <2>1 DEF ResellerInv, ResellerTypeOK
    <2>4. ASSUME NEW v \in Customers, under'[v] = call[c].reseller
          PROVE  v \in late' \/ call[c].reseller \in blind
        <3>1. CASE v = u
            <4>1. r = call[c].reseller
                BY <2>4, <3>1 DEF Put, ResellerInv, ResellerTypeOK
            <4>2. late' = late \cup {u}
                BY <2>3, <4>1 DEF Put
            <4> QED BY <3>1, <4>2
        <3>2. CASE v # u
            <4>1. under[v] = call[c].reseller
                BY <2>4, <3>2 DEF Put, ResellerInv, ResellerTypeOK
            <4>2. v \in late \/ call[c].reseller \in blind
                BY <2>1, <4>1 DEF ResellerInv, Counted
            <4> QED BY <3>2, <4>2 DEF Put
        <3> QED BY <3>1, <3>2
    <2> QED BY <2>1, <2>2, <2>4
<1> QED BY <1>1, <1>2, <1>3, <1>4

\* Every step keeps the invariant.
LEMMA ResellerStepInv == ResellerInv /\ [ResellerNext]_resellerVars => ResellerInv'
<1> SUFFICES ASSUME ResellerInv, [ResellerNext]_resellerVars PROVE ResellerInv'
    OBVIOUS
<1> USE ResellerAssumption
<1>1. ASSUME NEW r \in ResellerIds, ResellerCreate(r) PROVE ResellerInv'
    <2>1. ResellerTypeOK'
        BY <1>1 DEF ResellerInv, ResellerTypeOK, ResellerCreate
    <2>2. Counted' /\ PutOrDirect' /\ UsersKeepReseller'
        BY <1>1 DEF ResellerInv, ResellerCreate, Counted, PutOrDirect, UsersKeepReseller
    <2> QED BY <2>1, <2>2 DEF ResellerInv
<1>2. ASSUME NEW x \in KeyIds, NEW r \in ResellerIds, KeyCreate(x, r) PROVE ResellerInv'
    <2>1. ResellerTypeOK'
        BY <1>2 DEF ResellerInv, ResellerTypeOK, KeyCreate
    <2>2. Counted' /\ PutOrDirect' /\ UsersKeepReseller'
        BY <1>2 DEF ResellerInv, KeyCreate, Counted, PutOrDirect, UsersKeepReseller
    <2> QED BY <2>1, <2>2 DEF ResellerInv
<1>3. ASSUME NEW x \in KeyIds, KeyRevoke(x) PROVE ResellerInv'
    <2>1. ResellerTypeOK'
        BY <1>3 DEF ResellerInv, ResellerTypeOK, KeyRevoke
    <2>2. Counted' /\ PutOrDirect' /\ UsersKeepReseller'
        BY <1>3 DEF ResellerInv, KeyRevoke, Counted, PutOrDirect, UsersKeepReseller
    <2> QED BY <2>1, <2>2 DEF ResellerInv
<1>4. ASSUME NEW u \in Customers, NEW r \in ResellerIds \cup {Direct}, AdminPuts(u, r)
      PROVE  ResellerInv'
    <2>1. /\ under' \in [Customers -> live' \cup {Direct, Unborn}]
          /\ chosen' \in [Customers -> resellers' \cup {Direct, Unborn}]
          /\ late' \subseteq Customers
          /\ Counted' /\ PutOrDirect' /\ UsersKeepReseller'
        BY <1>4, PutKeeps DEF AdminPuts
    <2> QED BY <1>4, <2>1 DEF AdminPuts, ResellerInv, ResellerTypeOK
<1>5. ASSUME NEW c \in Calls, NEW x \in KeyIds, ApiOpen(c, x) PROVE ResellerInv'
    <2>1. ResellerTypeOK'
        BY <1>5 DEF ResellerInv, ResellerTypeOK, ApiOpen
    <2>2. Counted'
        BY <1>5 DEF ResellerInv, ResellerTypeOK, ApiOpen, Counted
    <2>3. PutOrDirect' /\ UsersKeepReseller'
        BY <1>5 DEF ResellerInv, ApiOpen, PutOrDirect, UsersKeepReseller
    <2> QED BY <2>1, <2>2, <2>3 DEF ResellerInv
<1>6. ASSUME NEW c \in Calls, NEW u \in Customers, ApiCreatesUser(c, u) PROVE ResellerInv'
    <2>1. /\ call' \in [Calls -> [at : {"off", "counted", "api"}, reseller : resellers \cup {Direct}]]
          /\ \A d \in Calls : call'[d] = call[d] \/ call'[d] = NoCall
        BY <1>6 DEF ResellerInv, ResellerTypeOK, ApiCreatesUser, NoCall
    <2>2. CASE call[c].reseller \in live
        <3>1. Put(u, call[c].reseller) /\ call[c].reseller \in ResellerIds \cup {Direct}
            BY <1>6, <2>2 DEF ApiCreatesUser, ResellerInv, ResellerTypeOK
        <3>2. /\ under' \in [Customers -> live' \cup {Direct, Unborn}]
              /\ chosen' \in [Customers -> resellers' \cup {Direct, Unborn}]
              /\ late' \subseteq Customers
              /\ Counted' /\ PutOrDirect' /\ UsersKeepReseller'
            BY <1>6, <2>1, <3>1, PutKeeps DEF ApiCreatesUser
        <3> QED BY <1>6, <2>1, <3>2 DEF ApiCreatesUser, ResellerInv, ResellerTypeOK
    <2>3. CASE call[c].reseller \notin live
        <3>1. UNCHANGED <<under, chosen, late, resellers, live, keyOf, blind>>
            BY <1>6, <2>3 DEF ApiCreatesUser
        <3>2. Counted'
            BY <2>1, <3>1 DEF ResellerInv, Counted, NoCall
        <3> QED BY <2>1, <3>1, <3>2
                DEF ResellerInv, ResellerTypeOK, PutOrDirect, UsersKeepReseller
    <2> QED BY <2>2, <2>3
<1>7. ASSUME NEW c \in Calls, NEW r \in ResellerIds, DeleteCounts(c, r) PROVE ResellerInv'
    <2>1. ResellerTypeOK'
        BY <1>7 DEF ResellerInv, ResellerTypeOK, DeleteCounts
    <2>2. (\A u \in Customers : under[u] # r) \/ r \in blind'
        BY <1>7 DEF DeleteCounts, UsersOf
    <2>3. Counted'
        BY <1>7, <2>2 DEF ResellerInv, ResellerTypeOK, DeleteCounts, Counted
    <2>4. PutOrDirect' /\ UsersKeepReseller'
        BY <1>7 DEF ResellerInv, DeleteCounts, PutOrDirect, UsersKeepReseller
    <2> QED BY <2>1, <2>3, <2>4 DEF ResellerInv
<1>8. ASSUME NEW c \in Calls, DeleteWrites(c) PROVE ResellerInv'
    <2> DEFINE r == call[c].reseller
    <2>1. r \in resellers /\ r # Direct
        BY <1>8 DEF DeleteWrites, ResellerInv, ResellerTypeOK, Counted
    <2>2. ResellerTypeOK'
        BY <1>8 DEF ResellerInv, ResellerTypeOK, DeleteWrites, NoCall
    <2>3. \A u \in Customers : under'[u] = IF under[u] = r THEN Direct ELSE under[u]
        BY <1>8 DEF DeleteWrites
    <2>4. \A d \in Calls : call'[d] = call[d] \/ call'[d] = NoCall
        BY <1>8 DEF DeleteWrites, ResellerInv, ResellerTypeOK
    <2>5. Counted'
        <3> SUFFICES ASSUME NEW d \in Calls, call'[d].at = "counted"
                     PROVE  /\ call'[d].reseller \in resellers'
                            /\ \A u \in Customers : under'[u] = call'[d].reseller
                                  => u \in late' \/ call'[d].reseller \in blind'
            BY DEF Counted
        <3>1. call'[d] = call[d] /\ call[d].at = "counted"
            BY <2>4 DEF NoCall
        <3>2. call[d].reseller \in resellers /\ call[d].reseller # Direct
            BY <3>1 DEF ResellerInv, ResellerTypeOK, Counted
        <3>3. \A u \in Customers : under'[u] = call[d].reseller => under[u] = call[d].reseller
            BY <2>3, <3>2
        <3> QED BY <1>8, <3>1, <3>2, <3>3 DEF ResellerInv, Counted, DeleteWrites
    <2>6. PutOrDirect'
        BY <1>8, <2>3 DEF ResellerInv, PutOrDirect, DeleteWrites
    <2>7. UsersKeepReseller'
        <3>1. \A u \in Customers : under[u] = r => chosen[u] = r /\ (u \in late \/ r \in blind)
            BY <1>8, <2>1 DEF ResellerInv, PutOrDirect, Counted, DeleteWrites
        <3> QED BY <1>8, <2>3, <3>1 DEF ResellerInv, UsersKeepReseller, DeleteWrites
    <2> QED BY <2>2, <2>5, <2>6, <2>7 DEF ResellerInv
<1>9. ASSUME NEW c \in Calls, CallLost(c) PROVE ResellerInv'
    <2>1. ResellerTypeOK'
        BY <1>9 DEF ResellerInv, ResellerTypeOK, CallLost, NoCall
    <2>2. Counted'
        BY <1>9 DEF ResellerInv, ResellerTypeOK, CallLost, NoCall, Counted
    <2>3. PutOrDirect' /\ UsersKeepReseller'
        BY <1>9 DEF ResellerInv, CallLost, PutOrDirect, UsersKeepReseller
    <2> QED BY <2>1, <2>2, <2>3 DEF ResellerInv
<1>10. CASE UNCHANGED resellerVars
    BY <1>10 DEF resellerVars, ResellerInv, ResellerTypeOK, Counted, PutOrDirect, UsersKeepReseller
<1> QED BY <1>1, <1>2, <1>3, <1>4, <1>5, <1>6, <1>7, <1>8, <1>9, <1>10 DEF ResellerNext

LEMMA ResellerInvariant == ResellerSpec => []ResellerInv
BY ResellerInitInv, ResellerStepInv, PTL DEF ResellerSpec

\* Users, keys and requests keep their types: no user and no key is left under a reseller
\* that is gone (ON DELETE SET NULL and ON DELETE CASCADE).
THEOREM ResellerTypeCorrect == ResellerSpec => []ResellerTypeOK
<1>1. ResellerInv => ResellerTypeOK
    BY DEF ResellerInv
<1> QED BY <1>1, ResellerInvariant, PTL

\* No user silently becomes direct, whatever is deleted, created or lost meanwhile.
THEOREM UsersStayWithReseller == ResellerSpec => []UsersKeepReseller
<1>1. ResellerInv => UsersKeepReseller
    BY DEF ResellerInv
<1> QED BY <1>1, ResellerInvariant, PTL
===============================================================================
