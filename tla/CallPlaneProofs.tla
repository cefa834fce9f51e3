---------------------------- MODULE CallPlaneProofs ----------------------------
(* What holds of CallPlane for every set of calls, DIDs and customers and every cap. *)
EXTENDS CallPlane, FiniteSetTheorems, TLAPS

USE DEF Attempts

-----------------------------------------------------------------------------
(* Types *)

\* The initial state is well typed.
LEMMA SipInitType == SipInit => TypeOK
<1> SUFFICES ASSUME SipInit PROVE TypeOK
    OBVIOUS
<1> USE SipCtlAssumption, ReservationAssumption
<1>1. routing \in [Dids -> Route]
    BY DEF SipInit, Route, RouteStatus, Maybe
<1>2. balance \in [Users -> Int] /\ ledger \in Seq(LedgerRow)
    BY DEF SipInit
<1>3. cdrs \in [Keys -> CdrRow]
    BY DEF SipInit, CdrRow, NoCdr, Maybe, Label
<1>4. auth \in [Calls -> [Attempts -> AuthReq]]
    BY DEF SipInit, AuthReq, NoAuth, Maybe
<1>5. cdr \in [Calls -> [Attempts -> CdrReq]]
    BY DEF SipInit, CdrReq, NoCdrReq, NewCdr, Maybe, Label
<1>6. leg \in [Calls -> Leg]
    BY DEF SipInit, Leg, Maybe
<1> QED BY <1>1, <1>2, <1>3, <1>4, <1>5, <1>6 DEF TypeOK, SipInit

\* The hangup handler starts dids-cdr.py with a well-typed first POST.
LEMMA TeardownType ==
    ASSUME TypeOK, NEW c \in Calls, NEW b \in Nat, BeginTeardown(c, b)
    PROVE  /\ chan' \in [Calls -> {"idle", "agi", "talking", "teardown", "over"}]
           /\ bill' \in [Calls -> Nat]
           /\ att' \in [Calls -> Attempts]
           /\ cdr' \in [Calls -> [Attempts -> CdrReq]]
<1>1. NewCdr \in CdrReq
    BY DEF NewCdr, CdrReq, Maybe, Label
<1> QED BY <1>1 DEF TypeOK, BeginTeardown

\* Closing the connections of a call keeps its authorize requests well typed.
LEMMA AbandonType ==
    ASSUME TypeOK, NEW c \in Calls, AbandonAuth(c)
    PROVE  auth' \in [Calls -> [Attempts -> AuthReq]]
<1>1. \A n \in Attempts : Abandoned(auth[c][n]) \in AuthReq
    BY DEF TypeOK, Abandoned, GoneAuth, NoAuth, AuthReq, Maybe
<1> QED BY <1>1 DEF TypeOK, AbandonAuth

\* A /cdr request may be replaced by any well-typed one.
LEMMA CdrUpdateType ==
    ASSUME TypeOK, NEW c \in Calls, NEW n \in Attempts, NEW r \in CdrReq
    PROVE  [cdr EXCEPT ![c][n] = r] \in [Calls -> [Attempts -> CdrReq]]
BY DEF TypeOK

\* An authorize request may be replaced by any well-typed one.
LEMMA AuthUpdateType ==
    ASSUME TypeOK, NEW c \in Calls, NEW n \in Attempts, NEW r \in AuthReq
    PROVE  [auth EXCEPT ![c][n] = r] \in [Calls -> [Attempts -> AuthReq]]
BY DEF TypeOK

\* The constant requests, new and gone, are well typed.
LEMMA RequestTypes ==
    /\ NoAuth \in AuthReq /\ GoneAuth \in AuthReq
    /\ NewCdr \in CdrReq /\ GoneCdr \in CdrReq
    /\ [NoAuth EXCEPT !.pc = "decide"] \in AuthReq
BY DEF NoAuth, GoneAuth, AuthReq, NewCdr, GoneCdr, CdrReq, Maybe, Label

\* Asterisk and the two scripts keep every variable in its type.
LEMMA AsteriskType ==
    ASSUME TypeOK, NEW c \in Calls, AsteriskStep(c)
    PROVE  TypeOK'
<1> USE SipCtlAssumption DEF pgVars, redisVars
<1>1. CASE Invite(c)
    <2>1. auth' \in [Calls -> [Attempts -> AuthReq]]
        <3>1. auth \in [Calls -> [Attempts -> AuthReq]]
            BY DEF TypeOK
        <3>2. [auth[c][1] EXCEPT !.pc = "decide"] \in AuthReq
            BY <3>1 DEF AuthReq
        <3>3. auth' = [auth EXCEPT ![c] = [@ EXCEPT ![1] = [auth[c][1] EXCEPT !.pc = "decide"]]]
            BY <1>1, <3>1 DEF Invite
        <3> QED BY <3>1, <3>2, <3>3
    <2> QED BY <1>1, <2>1 DEF TypeOK, Invite
<1>2. CASE AuthRetry(c)
    <2>1. att[c] + 1 \in Attempts
        <3>1. att[c] \in Attempts /\ AuthAttempts[c] \in Attempts /\ att[c] < AuthAttempts[c]
            BY <1>2 DEF TypeOK, AuthRetry, SipCtlAssumption
        <3> QED BY <3>1
    <2>2. \A n \in Attempts : Abandoned(auth[c][n]) \in AuthReq
        BY DEF TypeOK, Abandoned, GoneAuth, NoAuth, AuthReq, Maybe
    <2>4. auth' \in [Calls -> [Attempts -> AuthReq]]
        BY <1>2, <2>2, RequestTypes DEF TypeOK, AuthRetry
    <2> QED BY <1>2, <2>1, <2>4 DEF TypeOK, AuthRetry
<1>3. CASE AuthGivesUp(c)
    BY <1>3, TeardownType, AbandonType DEF TypeOK, AuthGivesUp
<1>4. CASE AuthAnswered(c)
    <2>1. att[c] \in Attempts
        BY DEF TypeOK
    <2>2. auth' \in [Calls -> [Attempts -> AuthReq]]
        BY <1>4, <2>1, RequestTypes, AuthUpdateType DEF AuthAnswered
    <2>3. auth[c][att[c]].user \in Maybe
        BY <2>1 DEF TypeOK, AuthReq
    <2>4. CASE auth[c][att[c]].pc = "allow"
        <3>1. /\ chan' = [chan EXCEPT ![c] = "talking"]
              /\ leg' = [leg EXCEPT ![c] = [kind |-> IF auth[c][att[c]].user = NoUser THEN "reserved"
                                                      ELSE "order",
                                            user |-> auth[c][att[c]].user]]
              /\ UNCHANGED <<bill, att, cdr>>
            BY <1>4, <2>4 DEF AuthAnswered
        <3>2. leg' \in [Calls -> Leg]
            BY <2>3, <3>1 DEF TypeOK, Leg
        <3> QED BY <1>4, <2>2, <3>1, <3>2 DEF TypeOK, AuthAnswered
    <2>5. CASE auth[c][att[c]].pc = "deny"
        <3>1. leg' = [leg EXCEPT ![c].kind = "denied"] /\ BeginTeardown(c, 0)
            BY <1>4, <2>5 DEF AuthAnswered
        <3>2. leg' \in [Calls -> Leg]
            BY <3>1 DEF TypeOK, Leg
        <3> QED BY <1>4, <2>2, <3>1, <3>2, TeardownType DEF TypeOK, AuthAnswered
    <2> QED BY <1>4, <2>4, <2>5 DEF AuthAnswered
<1>5. CASE Hangup(c)
    BY <1>5, TeardownType DEF TypeOK, Hangup
<1>6. CASE ChannelLost(c)
    BY <1>6, AbandonType DEF TypeOK, ChannelLost
<1>7. CASE CdrAnswered(c)
    <2>1. att[c] \in Attempts
        BY DEF TypeOK
    <2>2. cdr[c][att[c]].status \in {"ok", "no_match", "error"}
        BY <2>1 DEF TypeOK, CdrReq
    <2>3. cdr' \in [Calls -> [Attempts -> CdrReq]]
        BY <1>7, <2>1, RequestTypes, CdrUpdateType DEF CdrAnswered
    <2> QED BY <1>7, <2>2, <2>3 DEF TypeOK, CdrAnswered
<1>8. CASE CdrAttemptFails(c)
    <2>1. att[c] \in Attempts /\ CdrAttempts[c] \in Attempts
        BY DEF TypeOK, SipCtlAssumption
    <2>2. Unread(cdr[c][att[c]]) \in CdrReq
        BY <2>1, RequestTypes DEF TypeOK, Unread
    <2>3. CASE att[c] < CdrAttempts[c]
        <3>1. att[c] + 1 \in Attempts
            BY <2>1, <2>3
        <3>2. /\ att' = [att EXCEPT ![c] = @ + 1]
              /\ cdr' = [cdr EXCEPT ![c][att[c]] = Unread(@), ![c][att[c] + 1] = NewCdr]
              /\ chan' = chan
            BY <1>8, <2>1, <2>3 DEF CdrAttemptFails
        <3>3. cdr' \in [Calls -> [Attempts -> CdrReq]]
            BY <2>1, <2>2, <3>1, <3>2, RequestTypes DEF TypeOK
        <3> QED BY <1>8, <3>1, <3>2, <3>3 DEF TypeOK, CdrAttemptFails
    <2>4. CASE att[c] = CdrAttempts[c]
        <3>2. /\ chan' = [chan EXCEPT ![c] = "over"]
              /\ cdr' = [cdr EXCEPT ![c][att[c]] = Unread(@)]
              /\ att' = att
            BY <1>8, <2>1, <2>4 DEF CdrAttemptFails
        <3>3. cdr' \in [Calls -> [Attempts -> CdrReq]]
            BY <2>1, <2>2, <3>2 DEF TypeOK
        <3> QED BY <1>8, <3>2, <3>3 DEF TypeOK, CdrAttemptFails
    <2> QED BY <1>8, <2>3, <2>4 DEF CdrAttemptFails
<1> QED BY <1>1, <1>2, <1>3, <1>4, <1>5, <1>6, <1>7, <1>8 DEF AsteriskStep

\* An authorize request that moves on keeps its type.
LEMMA AuthMovesType ==
    ASSUME TypeOK, NEW c \in Calls, NEW n \in Attempts,
           NEW pc \in {"register", "write_denial", "allow", "deny"}, AuthMoves(c, n, pc)
    PROVE  auth' \in [Calls -> [Attempts -> AuthReq]]
<1>1. auth[c][n] \in AuthReq
    BY DEF TypeOK
<1>2. [auth[c][n] EXCEPT !.pc = pc] \in AuthReq
    BY <1>1 DEF AuthReq
<1> QED BY <1>2, RequestTypes, AuthUpdateType DEF AuthMoves

\* The INSERT of a denial or of an unbilled call writes a well-typed row.
LEMMA ShellCdrType ==
    ASSUME TypeOK, NEW c \in Calls, NEW u \in Maybe, ShellCdr(c, u)
    PROVE  cdrs' \in [Keys -> CdrRow]
<1>1. [kind |-> "shell", user |-> u, label |-> "none"] \in CdrRow
    BY DEF CdrRow, Label
<1>2. Sanitize[c] \in Keys
    BY ReservationAssumption
<1> QED BY <1>1, <1>2 DEF TypeOK, ShellCdr

\* SREM leaves sets of calls.
LEMMA WithoutType ==
    ASSUME NEW D, NEW S, NEW ids, NEW sets \in [D -> SUBSET S]
    PROVE  Without(sets, ids) \in [D -> SUBSET S]
<1>1. \A d \in D : sets[d] \ ids \in SUBSET S
    OBVIOUS
<1> QED BY <1>1 DEF Without

\* /sipctl/authorize keeps every variable in its type.
LEMMA AuthorizeType ==
    ASSUME TypeOK, NEW c \in Calls, NEW n \in Attempts, AuthorizeStep(c, n)
    PROVE  TypeOK'
<1> USE DEF pgVars, redisVars, astVars
<1>1. auth[c][n].user \in Maybe /\ DidOf[c] \in Dids /\ Sanitize[c] \in Keys
    BY SipCtlAssumption, ReservationAssumption DEF TypeOK, AuthReq
<1>2. routing[DidOf[c]].user \in Maybe
    BY <1>1 DEF TypeOK, Route
<1>3. CASE DecideRefuse(c, n)
    BY <1>3, AuthMovesType DEF TypeOK, DecideRefuse
<1>4. CASE DecideDeny(c, n)
    <2>1. \A u \in Maybe : [pc |-> "write_denial", user |-> u] \in AuthReq
        BY DEF AuthReq
    <2>2. auth' \in [Calls -> [Attempts -> AuthReq]]
        BY <1>2, <1>4, <2>1, AuthUpdateType DEF DecideDeny, Maybe
    <2> QED BY <1>4, <2>2 DEF TypeOK, DecideDeny
<1>5. CASE DecideReserved(c, n)
    <2>1. [pc |-> "write_shell", user |-> NoUser] \in AuthReq
        BY DEF AuthReq, Maybe
    <2>2. auth' \in [Calls -> [Attempts -> AuthReq]]
        BY <1>5, <2>1, AuthUpdateType DEF DecideReserved
    <2> QED BY <1>5, <2>2 DEF TypeOK, DecideReserved
<1>6. CASE DecideAdmit(c, n)
    <2>1. [pc |-> "reserve", user |-> routing[DidOf[c]].user] \in AuthReq
        BY <1>2 DEF AuthReq
    <2>2. auth' \in [Calls -> [Attempts -> AuthReq]]
        BY <1>6, <2>1, AuthUpdateType DEF DecideAdmit
    <2> QED BY <1>6, <2>2 DEF TypeOK, DecideAdmit
<1>7. CASE WriteShell(c, n)
    <2>1. cdrs' \in [Keys -> CdrRow]
        BY <1>1, <1>7, ShellCdrType DEF TypeOK, WriteShell
    <2>2. auth' \in [Calls -> [Attempts -> AuthReq]]
        BY <1>7, AuthMovesType DEF WriteShell
    <2> QED BY <1>7, <2>1, <2>2 DEF TypeOK, WriteShell
<1>8. CASE Reserve(c, n)
    <2>1. actUser' \in [Users -> SUBSET Calls] /\ actDid' \in [Dids -> SUBSET Calls]
        BY <1>1, <1>8 DEF TypeOK, Reserve
    <2>2. auth' \in [Calls -> [Attempts -> AuthReq]]
        BY <1>8, AuthMovesType DEF Reserve
    <2> QED BY <1>8, <2>1, <2>2 DEF TypeOK, Reserve
<1>9. CASE ReserveDenied(c, n)
    BY <1>9, AuthMovesType DEF TypeOK, ReserveDenied
<1>10. CASE PickFails(c, n)
    BY <1>10, AuthMovesType DEF TypeOK, PickFails
<1>11. CASE Register(c, n)
    <2>1. live' \in [Keys -> Calls \cup {NoCall}]
        BY <1>1, <1>11 DEF TypeOK, Register
    <2>2. auth' \in [Calls -> [Attempts -> AuthReq]]
        BY <1>11, AuthMovesType DEF Register
    <2> QED BY <1>11, <2>1, <2>2 DEF TypeOK, Register
<1>12. CASE DropAuth(c, n)
    <2>1. auth' \in [Calls -> [Attempts -> AuthReq]]
        BY <1>12, RequestTypes, AuthUpdateType DEF DropAuth
    <2> QED BY <1>12, <2>1 DEF TypeOK, DropAuth
<1> QED BY <1>3, <1>4, <1>5, <1>6, <1>7, <1>8, <1>9, <1>10, <1>11, <1>12 DEF AuthorizeStep

\* A /cdr request that moves on keeps its type.
LEMMA CdrMovesType ==
    ASSUME TypeOK, NEW c \in Calls, NEW n \in Attempts,
           NEW pc \in {"release", "deregister", "reply"}, CdrMoves(c, n, pc)
    PROVE  cdr' \in [Calls -> [Attempts -> CdrReq]]
<1>1. cdr[c][n] \in CdrReq
    BY DEF TypeOK
<1>2. [cdr[c][n] EXCEPT !.pc = pc] \in CdrReq
    BY <1>1 DEF CdrReq
<1> QED BY <1>2, RequestTypes, CdrUpdateType DEF CdrMoves

\* COALESCE of the admin mark with a row's label is a row.
LEMMA LabelledType ==
    ASSUME NEW row \in CdrRow, NEW label \in Label
    PROVE  Labelled(row, label) \in CdrRow
BY DEF Labelled, CdrRow, Label

\* A /cdr request that is dropped keeps its type.
LEMMA CdrEndsType ==
    ASSUME NEW r \in CdrReq, NEW status \in {"no_match", "error"}
    PROVE  [r EXCEPT !.pc = "release", !.status = status] \in CdrReq
BY DEF CdrReq

\* /sipctl/cdr keeps every variable in its type; the debit needs the payer to be a
\* customer, which is Owners.
LEMMA CdrType ==
    ASSUME TypeOK, Owners, NEW c \in Calls, NEW n \in Attempts, CdrStep(c, n)
    PROVE  TypeOK'
<1> USE DEF pgVars, redisVars, astVars
<1>0. cdr[c][n] \in CdrReq
    BY DEF TypeOK
<1>1. Sanitize[c] \in Keys
    BY ReservationAssumption
<1>2. CASE CdrLookup(c, n)
    <2>1. \A u \in Users : [pc |-> "tx", user |-> u, status |-> "ok",
                           label |-> PopLabel(Sanitize[c])] \in CdrReq
        BY DEF CdrReq, Maybe, Label, PopLabel
    <2>2. cdr' \in [Calls -> [Attempts -> CdrReq]]
        BY <1>2, <2>1, CdrUpdateType DEF CdrLookup, BillableUsers
    <2> QED BY <1>2, <2>2 DEF TypeOK, CdrLookup
<1>3. CASE CdrNoOrder(c, n)
    <2>1. cdr' \in [Calls -> [Attempts -> CdrReq]]
        BY <1>3, CdrMovesType DEF CdrNoOrder
    <2>2. Labelled(cdrs[Sanitize[c]], PopLabel(Sanitize[c])) \in CdrRow
        BY <1>1, LabelledType DEF TypeOK, PopLabel, Label
    <2>3. cdrs' \in [Keys -> CdrRow]
        BY <1>1, <1>3, <2>2 DEF TypeOK, CdrNoOrder
    <2> QED BY <1>3, <2>1, <2>3 DEF TypeOK, CdrNoOrder
<1>4. CASE CdrLookupFails(c, n)
    <2>1. [cdr[c][n] EXCEPT !.pc = "release", !.status = "no_match"] \in CdrReq
        BY <1>0, CdrEndsType
    <2>2. cdr' = [cdr EXCEPT ![c][n] = [cdr[c][n] EXCEPT !.pc = "release", !.status = "no_match"]]
        BY <1>4 DEF CdrLookupFails
    <2>3. cdr' \in [Calls -> [Attempts -> CdrReq]]
        BY <2>1, <2>2, CdrUpdateType
    <2> QED BY <1>4, <2>3 DEF TypeOK, CdrLookupFails
<1>5. CASE CdrCommit(c, n)
    <2>1. cdr' \in [Calls -> [Attempts -> CdrReq]]
        BY <1>5, CdrMovesType DEF CdrCommit
    <2>2. cdr[c][n].user \in Users /\ cdr[c][n].label \in Label
        BY <1>0, <1>5 DEF Owners, CdrCommit, CdrReq
    <2>3. cdrs' \in [Keys -> CdrRow]
        <3>1. [kind |-> "call", user |-> cdr[c][n].user, label |-> cdr[c][n].label] \in CdrRow
            BY <2>2 DEF CdrRow, Maybe
        <3>2. Labelled(cdrs[Sanitize[c]], cdr[c][n].label) \in CdrRow
            BY <1>1, <2>2, LabelledType DEF TypeOK
        <3> QED BY <1>1, <1>5, <3>1, <3>2 DEF TypeOK, CdrCommit
    <2>4. CASE bill[c] > 0
        <3>1. balance' = [balance EXCEPT ![cdr[c][n].user] = @ - bill[c]]
            BY <1>5, <2>4 DEF CdrCommit
        <3>2. balance' \in [Users -> Int]
            BY <2>2, <3>1 DEF TypeOK
        <3>3. ledger' = Append(ledger, [user |-> cdr[c][n].user, delta |-> -bill[c],
                                        after |-> balance[cdr[c][n].user] - bill[c],
                                        ref |-> Sanitize[c]])
            BY <1>5, <2>4 DEF CdrCommit
        <3>4. [user |-> cdr[c][n].user, delta |-> -bill[c],
               after |-> balance[cdr[c][n].user] - bill[c], ref |-> Sanitize[c]] \in LedgerRow
            BY <1>1, <2>2 DEF TypeOK, LedgerRow
        <3>5. ledger' \in Seq(LedgerRow)
            BY <3>3, <3>4 DEF TypeOK
        <3> QED BY <1>5, <2>1, <2>3, <3>2, <3>5 DEF TypeOK, CdrCommit
    <2>5. CASE ~(bill[c] > 0)
        <3>1. UNCHANGED <<balance, ledger>>
            BY <1>5, <2>5 DEF CdrCommit
        <3> QED BY <1>5, <2>1, <2>3, <3>1 DEF TypeOK, CdrCommit
    <2> QED BY <2>4, <2>5
<1>6. CASE CdrTxFails(c, n)
    <2>1. [cdr[c][n] EXCEPT !.pc = "release", !.status = "error"] \in CdrReq
        BY <1>0, CdrEndsType
    <2>2. cdr' = [cdr EXCEPT ![c][n] = [cdr[c][n] EXCEPT !.pc = "release", !.status = "error"]]
        BY <1>6 DEF CdrTxFails
    <2>3. cdr' \in [Calls -> [Attempts -> CdrReq]]
        BY <2>1, <2>2, CdrUpdateType
    <2> QED BY <1>6, <2>3 DEF TypeOK, CdrTxFails
<1>7. CASE CdrRelease(c, n)
    <2>1. cdr' \in [Calls -> [Attempts -> CdrReq]]
        BY <1>7, CdrMovesType DEF CdrRelease
    <2> QED BY <1>7, <2>1, WithoutType DEF TypeOK, CdrRelease
<1>8. CASE CdrDeregister(c, n)
    <2>1. cdr' \in [Calls -> [Attempts -> CdrReq]]
        BY <1>8, CdrMovesType DEF CdrDeregister
    <2> QED BY <1>1, <1>8, <2>1 DEF TypeOK, CdrDeregister
<1>9. CASE DropCdr(c, n)
    <2>1. cdr' \in [Calls -> [Attempts -> CdrReq]]
        BY <1>9, RequestTypes, CdrUpdateType DEF DropCdr
    <2> QED BY <1>9, <2>1 DEF TypeOK, DropCdr
<1> QED BY <1>2, <1>3, <1>4, <1>5, <1>6, <1>7, <1>8, <1>9 DEF CdrStep

\* The reconciler and "Force cleanup" keep every variable in its type.
LEMMA SweepType ==
    ASSUME PlaneTypeOK, SweepStep
    PROVE  PlaneTypeOK'
<1> USE DEF sipVars, pgVars, redisVars, astVars
<1>1. ASSUME NEW s \in Sweepers, NEW channels \in SUBSET Calls, Snapshot(s, channels)
      PROVE  PlaneTypeOK'
    <2>1. [NoSweep EXCEPT !.pc = "snapped", !.alive = channels] \in SweepState
        BY DEF NoSweep, SweepState
    <2>2. sweep' \in [Sweepers -> SweepState]
        BY <1>1, <2>1 DEF PlaneTypeOK, Snapshot
    <2> QED BY <1>1, <2>2 DEF PlaneTypeOK, TypeOK, Snapshot
<1>2. CASE ReconcilerSnapshot
    BY <1>1, <1>2 DEF ReconcilerSnapshot
<1>3. CASE ForceCleanupSnapshot
    BY <1>1, <1>3 DEF ForceCleanupSnapshot
<1>4. ASSUME NEW s \in Sweepers, SweepList(s)
      PROVE  PlaneTypeOK'
    <2> DEFINE victims == {k \in Keys : live[k] # NoCall /\ live[k] \notin sweep[s].alive}
    <2>1. NoSweep \in SweepState
        BY DEF NoSweep, SweepState
    <2>2. [pc |-> "listed", alive |-> {}, evict |-> victims, left |-> victims] \in SweepState
        BY DEF SweepState
    <2>3. sweep' = [sweep EXCEPT ![s] =
                        IF victims = {} THEN NoSweep
                        ELSE [pc |-> "listed", alive |-> {}, evict |-> victims, left |-> victims]]
        BY <1>4 DEF SweepList
    <2> HIDE DEF victims
    <2>4. sweep' \in [Sweepers -> SweepState]
        BY <2>1, <2>2, <2>3 DEF PlaneTypeOK
    <2> QED BY <1>4, <2>4 DEF PlaneTypeOK, TypeOK, SweepList
<1>5. ASSUME NEW s \in Sweepers, SweepDeregister(s)
      PROVE  PlaneTypeOK'
    <2>1. PICK k \in sweep[s].left : /\ live' = [live EXCEPT ![k] = NoCall]
                                    /\ sweep' = [sweep EXCEPT ![s].left = @ \ {k}]
        BY <1>5 DEF SweepDeregister
    <2>2. sweep[s] \in SweepState
        BY DEF PlaneTypeOK
    <2>3. [sweep[s] EXCEPT !.left = @ \ {k}] \in SweepState
        BY <2>2 DEF SweepState
    <2>4. sweep' \in [Sweepers -> SweepState]
        BY <2>1, <2>3 DEF PlaneTypeOK
    <2>5. live' \in [Keys -> Calls \cup {NoCall}]
        BY <2>1 DEF PlaneTypeOK, TypeOK
    <2> QED BY <1>5, <2>4, <2>5 DEF PlaneTypeOK, TypeOK, SweepDeregister
<1>6. ASSUME NEW s \in Sweepers, SweepRelease(s)
      PROVE  PlaneTypeOK'
    <2>1. NoSweep \in SweepState
        BY DEF NoSweep, SweepState
    <2>2. sweep' \in [Sweepers -> SweepState]
        BY <1>6, <2>1 DEF PlaneTypeOK, SweepRelease
    <2>3. actUser' \in [Users -> SUBSET Calls] /\ actDid' \in [Dids -> SUBSET Calls]
        BY <1>6, WithoutType DEF PlaneTypeOK, TypeOK, SweepRelease
    <2> QED BY <1>6, <2>2, <2>3 DEF PlaneTypeOK, TypeOK, SweepRelease
<1>7. CASE ForceCleanupCut
    <2>1. NoSweep \in SweepState
        BY DEF NoSweep, SweepState
    <2>2. sweep' \in [Sweepers -> SweepState]
        BY <1>7, <2>1 DEF PlaneTypeOK, ForceCleanupCut
    <2> QED BY <1>7, <2>2 DEF PlaneTypeOK, TypeOK, ForceCleanupCut
<1> QED BY <1>2, <1>3, <1>4, <1>5, <1>6, <1>7 DEF SweepStep

\* liveHangup and liveRedirect keep every variable in its type.
LEMMA AdminType ==
    ASSUME PlaneTypeOK, AdminStep
    PROVE  PlaneTypeOK'
<1> USE DEF sipVars, pgVars, redisVars, astVars
<1>1. TypeOK /\ admin \in AdminState /\ NoAdmin \in AdminState
    BY DEF PlaneTypeOK, NoAdmin, AdminState
<1>2. ASSUME admin.pc # "idle"
      PROVE  /\ admin.call \in Calls
             /\ \A pc \in {"hungup", "redirected", "marked"} : [admin EXCEPT !.pc = pc] \in AdminState
    BY <1>1, <1>2 DEF AdminState, NoAdmin
<1>3. ASSUME NEW c \in Calls, AdminOpen(c)
      PROVE  PlaneTypeOK'
    <2>1. admin' \in AdminState
        BY <1>3 DEF AdminOpen, AdminState
    <2> QED BY <1>3, <2>1 DEF PlaneTypeOK, TypeOK, AdminOpen
<1>4. CASE AdminHangup
    <2>1. admin.call \in Calls /\ admin' \in AdminState
        BY <1>2, <1>4 DEF AdminHangup
    <2>2. CASE chan[admin.call] \in {"agi", "talking"}
        <3>1. PICK b \in Nat : BeginTeardown(admin.call, b)
            BY <1>4, <2>2, SipCtlAssumption DEF AdminHangup
        <3>2. AbandonAuth(admin.call)
            BY <1>4, <2>2 DEF AdminHangup
        <3>3. /\ chan' \in [Calls -> {"idle", "agi", "talking", "teardown", "over"}]
              /\ bill' \in [Calls -> Nat] /\ att' \in [Calls -> Attempts]
              /\ cdr' \in [Calls -> [Attempts -> CdrReq]]
              /\ auth' \in [Calls -> [Attempts -> AuthReq]]
            BY <1>1, <2>1, <3>1, <3>2, TeardownType, AbandonType
        <3> QED BY <1>4, <2>1, <3>3 DEF PlaneTypeOK, TypeOK, AdminHangup
    <2>3. CASE chan[admin.call] \notin {"agi", "talking"}
        <3>1. UNCHANGED <<chan, bill, att, cdr, auth>>
            BY <1>4, <2>3 DEF AdminHangup
        <3> QED BY <1>4, <2>1, <3>1 DEF PlaneTypeOK, TypeOK, AdminHangup
    <2> QED BY <2>2, <2>3
<1>5. CASE AdminRedirect
    <2>1. admin.call \in Calls /\ admin' \in AdminState
        BY <1>2, <1>5 DEF AdminRedirect
    <2>2. CASE chan[admin.call] = "agi"
        <3>1. /\ chan' = [chan EXCEPT ![admin.call] = "talking"]
              /\ leg' = [leg EXCEPT ![admin.call].kind = "redirected"]
              /\ AbandonAuth(admin.call)
            BY <1>5, <2>2 DEF AdminRedirect
        <3>2. leg' \in [Calls -> Leg]
            BY <1>1, <2>1, <3>1 DEF TypeOK, Leg
        <3>3. auth' \in [Calls -> [Attempts -> AuthReq]]
            BY <1>1, <2>1, <3>1, AbandonType
        <3> QED BY <1>5, <2>1, <3>1, <3>2, <3>3 DEF PlaneTypeOK, TypeOK, AdminRedirect
    <2>3. CASE chan[admin.call] # "agi"
        <3>1. UNCHANGED <<chan, leg, auth>>
            BY <1>5, <2>3 DEF AdminRedirect
        <3> QED BY <1>5, <2>1, <3>1 DEF PlaneTypeOK, TypeOK, AdminRedirect
    <2> QED BY <2>2, <2>3
<1>6. CASE AdminMark
    <2>1. admin.call \in Calls /\ admin' \in AdminState
        BY <1>1, <1>2, <1>6 DEF AdminMark
    <2>2. Sanitize[admin.call] \in Keys
        BY <2>1, ReservationAssumption
    <2> QED BY <1>6, <2>1, <2>2 DEF PlaneTypeOK, TypeOK, AdminMark
<1>7. CASE AdminDeregister
    <2>1. admin.call \in Calls /\ admin' \in AdminState
        BY <1>1, <1>2, <1>7 DEF AdminDeregister
    <2>2. live' \in [Keys -> Calls \cup {NoCall}]
        BY <1>1, <1>7 DEF TypeOK, AdminDeregister
    <2> QED BY <1>7, <2>1, <2>2 DEF PlaneTypeOK, TypeOK, AdminDeregister
<1>8. CASE AdminGivesUp
    BY <1>1, <1>8 DEF PlaneTypeOK, TypeOK, AdminGivesUp
<1> QED BY <1>3, <1>4, <1>5, <1>6, <1>7, <1>8 DEF AdminStep

\* Every order, DID and user transaction is a Reroute to well-formed routing.
LEMMA OrderReroutes ==
    ASSUME PlaneTypeOK, Owners, OrderStep
    PROVE  \E new \in [Dids -> Route] :
              /\ Reroute(new)
              /\ \A d \in Dids : new[d].status \in {"active", "inactive", "blocked"}
                                    => new[d].user \in Users
<1> DEFINE Good(new) ==
        /\ new \in [Dids -> Route]
        /\ \A d \in Dids : new[d].status \in {"active", "inactive", "blocked"} => new[d].user \in Users
<1>1. Good(routing)
    BY DEF PlaneTypeOK, TypeOK, Owners
<1>2. ASSUME NEW d \in Dids, NEW status \in {"available", "reserved", "suspended"}
      PROVE  Good([routing EXCEPT ![d] = Vacant(status)])
    BY <1>1 DEF Vacant, Route, RouteStatus, Maybe
<1>3. ASSUME NEW d \in Dids, NEW u \in Users, NEW status \in {"active", "blocked"}
      PROVE  Good([routing EXCEPT ![d] = Owned(status, u)])
    BY <1>1 DEF Owned, Route, RouteStatus, Maybe
<1>4. ASSUME NEW d \in Dids, routing[d].status = "blocked"
      PROVE  Good([routing EXCEPT ![d].status = "active"])
    BY <1>1, <1>4 DEF Route, RouteStatus
<1>5. ASSUME NEW u \in Users, NEW from, NEW to \in {"active", "blocked", "inactive"}
      PROVE  Good([d \in Dids |-> IF routing[d] = Owned(from, u) THEN Owned(to, u) ELSE routing[d]])
    BY <1>1 DEF Owned, Route, RouteStatus, Maybe
<1>6. \E new : Good(new) /\ Reroute(new)
    <2> HIDE DEF Good
    <2>1. ASSUME NEW d \in Dids, OrderCancelled(d) \/ OrderSuspended(d) \/ DidReserved(d) \/ DidReleased(d)
          PROVE  \E new : Good(new) /\ Reroute(new)
        BY <1>2, <2>1 DEF OrderCancelled, OrderSuspended, DidReserved, DidReleased
    <2>2. ASSUME NEW d \in Dids, OrderCreated(d)
          PROVE  \E new : Good(new) /\ Reroute(new)
        BY <1>3, <2>2 DEF OrderCreated
    <2>3. ASSUME NEW d \in Dids, OrderApproved(d)
          PROVE  \E new : Good(new) /\ Reroute(new)
        BY <1>4, <2>3 DEF OrderApproved
    <2>4. ASSUME NEW u \in Users,
                 UserBlocked(u) \/ UserUnblocked(u) \/ UserDeactivated(u) \/ UserReactivated(u)
          PROVE  \E new : Good(new) /\ Reroute(new)
        BY <1>5, <2>4 DEF UserBlocked, UserUnblocked, UserDeactivated, UserReactivated, UserWide
    <2> QED BY <2>1, <2>2, <2>3, <2>4 DEF OrderStep
<1> QED BY <1>6

\* The order, DID and user handlers keep every variable in its type.
LEMMA OrderType ==
    ASSUME PlaneTypeOK, Owners, OrderStep
    PROVE  PlaneTypeOK'
<1>1. PICK new \in [Dids -> Route] : Reroute(new)
    BY OrderReroutes
<1>2. changes' \in 0..MaxChanges
    BY <1>1, CallPlaneAssumption DEF PlaneTypeOK, Reroute
<1> QED BY <1>1, <1>2 DEF PlaneTypeOK, TypeOK, Reroute, pgVars, redisVars, astVars

\* Every step of the call plane keeps every variable in its type.
LEMMA NextType ==
    ASSUME PlaneTypeOK, Owners, [Next]_vars
    PROVE  PlaneTypeOK'
<1>1. CASE SipNext /\ UNCHANGED planeVars
    <2>1. TypeOK'
        BY <1>1, AsteriskType, AuthorizeType, CdrType DEF SipNext, PlaneTypeOK
    <2> QED BY <1>1, <2>1 DEF PlaneTypeOK, planeVars
<1>2. CASE UNCHANGED vars
    BY <1>2 DEF PlaneTypeOK, TypeOK, vars, sipVars, pgVars, redisVars, astVars
<1> QED BY <1>1, <1>2, SweepType, AdminType, OrderType DEF Next

-----------------------------------------------------------------------------
(* What a step does to the two sets and to the requests *)

Monotone ==
    /\ \A u \in Users : actUser[u] \subseteq actUser'[u]
    /\ \A d \in Dids : actDid[d] \subseteq actDid'[d]

\* A step of an authorize request moves that request only, and only adds to the
\* sets; once past the reservation the call has its channel.
LEMMA AuthorizeShape ==
    ASSUME TypeOK, Owners, NEW c \in Calls, NEW n \in Attempts, AuthorizeStep(c, n)
    PROVE  /\ UNCHANGED <<routing, chan, leg, cdr>>
           /\ auth[c][n].pc # "idle"
           /\ Monotone
           /\ \E r \in AuthReq :
                /\ auth' = [auth EXCEPT ![c][n] = r]
                /\ r.pc = "reserve" => r.user \in Users
                /\ r.pc = "write_shell" => r.user \notin Users
                /\ r.pc \in {"register", "allow"} /\ r.user \in Users
                    => \/ auth[c][n].pc = "register" /\ auth[c][n].user = r.user
                       \/ Holds(c, r.user)'
<1> USE DEF pgVars, redisVars, astVars
<1> DEFINE Fits(r) ==
        /\ r \in AuthReq
        /\ auth' = [auth EXCEPT ![c][n] = r]
        /\ r.pc = "reserve" => r.user \in Users
        /\ r.pc = "write_shell" => r.user \notin Users
        /\ r.pc \in {"register", "allow"} /\ r.user \in Users
            => \/ auth[c][n].pc = "register" /\ auth[c][n].user = r.user
               \/ Holds(c, r.user)'
<1>1. auth[c][n] \in AuthReq /\ DidOf[c] \in Dids /\ routing[DidOf[c]].user \in Maybe
    BY SipCtlAssumption DEF TypeOK, Route
<1>2. ASSUME UNCHANGED <<actUser, actDid>>
      PROVE  Monotone
    BY <1>2 DEF Monotone
<1>3. ASSUME auth' = [auth EXCEPT ![c][n] = GoneAuth]
      PROVE  Fits(GoneAuth)
    BY <1>3, RequestTypes DEF GoneAuth, NoAuth
<1>4. ASSUME NEW pc \in {"register", "write_denial", "allow", "deny"}, AuthMoves(c, n, pc),
             pc \in {"register", "allow"} /\ auth[c][n].user \in Users
                => \/ auth[c][n].pc = "register"
                   \/ \E u \in Users : u = auth[c][n].user /\ Holds(c, u)'
      PROVE  \E r : Fits(r)
    <2>1. CASE AuthAwaited(c, n)
        <3>1. PICK r : r = [auth[c][n] EXCEPT !.pc = pc]
            OBVIOUS
        <3>2. auth' = [auth EXCEPT ![c][n] = r]
            BY <1>4, <2>1, <3>1 DEF AuthMoves
        <3>3. r \in AuthReq /\ r.pc = pc /\ r.user = auth[c][n].user
            BY <1>1, <3>1 DEF AuthReq
        <3>4. Fits(r)
            BY <1>4, <3>2, <3>3
        <3> HIDE DEF Fits
        <3> QED BY <3>4
    <2>2. CASE ~AuthAwaited(c, n)
        BY <1>3, <1>4, <2>2 DEF AuthMoves
    <2> QED BY <2>1, <2>2
<1>5. CASE DecideRefuse(c, n)
    <2>1. \E r : Fits(r)
        <3> HIDE DEF Fits
        <3> QED BY <1>4, <1>5 DEF DecideRefuse
    <2> QED BY <1>2, <1>5, <2>1 DEF DecideRefuse, Decides
<1>6. CASE DecideDeny(c, n)
    <2> DEFINE u == IF routing[DidOf[c]].status \in {"available", "suspended"} THEN NoUser
                    ELSE routing[DidOf[c]].user
    <2>1. [pc |-> "write_denial", user |-> u] \in AuthReq
        BY <1>1 DEF AuthReq, Maybe
    <2>2. auth' = [auth EXCEPT ![c][n] = [pc |-> "write_denial", user |-> u]]
        BY <1>6 DEF DecideDeny
    <2> HIDE DEF u
    <2>3. Fits([pc |-> "write_denial", user |-> u])
        BY <2>1, <2>2
    <2> QED BY <1>2, <1>6, <2>3 DEF DecideDeny, Decides
<1>7. CASE DecideReserved(c, n)
    <2>1. [pc |-> "write_shell", user |-> NoUser] \in AuthReq
        BY DEF AuthReq, Maybe
    <2>2. Fits([pc |-> "write_shell", user |-> NoUser])
        BY <1>7, <2>1, SipCtlAssumption DEF DecideReserved
    <2> QED BY <1>2, <1>7, <2>2 DEF DecideReserved, Decides
<1>8. CASE DecideAdmit(c, n)
    <2>1. routing[DidOf[c]].user \in Users
        BY <1>1, <1>8 DEF DecideAdmit, Owners
    <2>2. [pc |-> "reserve", user |-> routing[DidOf[c]].user] \in AuthReq
        BY <1>1 DEF AuthReq
    <2>3. Fits([pc |-> "reserve", user |-> routing[DidOf[c]].user])
        BY <1>8, <2>1, <2>2 DEF DecideAdmit
    <2> QED BY <1>2, <1>8, <2>3 DEF DecideAdmit, Decides
<1>9. CASE WriteShell(c, n)
    <2>1. auth[c][n].pc = "write_shell" => auth[c][n].user \notin Users
        BY DEF Owners
    <2>2. \E r : Fits(r)
        <3> HIDE DEF Fits
        <3> QED BY <1>4, <1>9, <2>1 DEF WriteShell
    <2> QED BY <1>2, <1>9, <2>2 DEF WriteShell
<1>10. CASE Reserve(c, n)
    <2>1. Monotone /\ \E u \in Users : u = auth[c][n].user /\ Holds(c, u)'
        <3>1. auth[c][n].user \in Users
            BY <1>10 DEF Reserve, Owners
        <3>2. /\ actUser' = [actUser EXCEPT ![auth[c][n].user] = @ \cup {c}]
              /\ actDid' = [actDid EXCEPT ![DidOf[c]] = @ \cup {c}]
            BY <1>10 DEF Reserve
        <3>3. actUser \in [Users -> SUBSET Calls] /\ actDid \in [Dids -> SUBSET Calls]
            BY DEF TypeOK
        <3>4. c \in actDid'[DidOf[c]] /\ c \in actUser'[auth[c][n].user]
            BY <1>1, <3>1, <3>2, <3>3
        <3>5. \E u \in Users : u = auth[c][n].user /\ Holds(c, u)'
            BY <3>1, <3>4 DEF Holds
        <3>6. \A u \in Users : actUser[u] \subseteq actUser'[u]
            BY <3>2, <3>3
        <3>7. \A d \in Dids : actDid[d] \subseteq actDid'[d]
            BY <3>2, <3>3
        <3> QED BY <3>5, <3>6, <3>7 DEF Monotone
    <2>2. \E r : Fits(r)
        <3> HIDE DEF Fits
        <3> QED BY <1>4, <1>10, <2>1 DEF Reserve
    <2> QED BY <1>10, <2>1, <2>2 DEF Reserve
<1>11. CASE ReserveDenied(c, n)
    <2>1. \E r : Fits(r)
        <3> HIDE DEF Fits
        <3> QED BY <1>4, <1>11 DEF ReserveDenied
    <2> QED BY <1>2, <1>11, <2>1 DEF ReserveDenied
<1>12. CASE PickFails(c, n)
    <2>1. \E r : Fits(r)
        <3> HIDE DEF Fits
        <3> QED BY <1>4, <1>12 DEF PickFails
    <2> QED BY <1>2, <1>12, <2>1 DEF PickFails
<1>13. CASE Register(c, n)
    <2>1. \E r : Fits(r)
        <3> HIDE DEF Fits
        <3> QED BY <1>4, <1>13 DEF Register
    <2> QED BY <1>2, <1>13, <2>1 DEF Register
<1>14. CASE DropAuth(c, n)
    BY <1>2, <1>3, <1>14 DEF DropAuth
<1> QED BY <1>5, <1>6, <1>7, <1>8, <1>9, <1>10, <1>11, <1>12, <1>13, <1>14 DEF AuthorizeStep

\* A step of a /cdr request moves that request only, towards a transaction in
\* some customer's name, and takes at most that call out of the sets.
LEMMA CdrShape ==
    ASSUME TypeOK, NEW c \in Calls, NEW n \in Attempts, CdrStep(c, n)
    PROVE  /\ UNCHANGED <<routing, chan, leg, auth>>
           /\ cdr[c][n].pc # "idle"
           /\ UNCHANGED <<actUser, actDid>> \/ CdrRelease(c, n)
           /\ \E r \in CdrReq :
                /\ cdr' = [cdr EXCEPT ![c][n] = r]
                /\ r.pc = "tx" => r.user \in Users
<1> USE DEF pgVars, redisVars, astVars
<1> DEFINE Fits(r) ==
        /\ r \in CdrReq
        /\ cdr' = [cdr EXCEPT ![c][n] = r]
        /\ r.pc = "tx" => r.user \in Users
<1>1. cdr[c][n] \in CdrReq /\ Sanitize[c] \in Keys
    BY ReservationAssumption DEF TypeOK
<1>2. ASSUME cdr' = [cdr EXCEPT ![c][n] = GoneCdr]
      PROVE  \E r : Fits(r)
    <2>1. GoneCdr \in CdrReq /\ GoneCdr.pc = "gone"
        BY RequestTypes DEF GoneCdr, NewCdr
    <2>2. Fits(GoneCdr)
        BY <1>2, <2>1
    <2> HIDE DEF Fits
    <2> QED BY <2>2
<1>3. ASSUME NEW pc \in {"release", "deregister", "reply"}, CdrMoves(c, n, pc)
      PROVE  \E r : Fits(r)
    <2>1. CASE CdrAwaited(c, n)
        <3>1. PICK r : r = [cdr[c][n] EXCEPT !.pc = pc]
            OBVIOUS
        <3>2. cdr' = [cdr EXCEPT ![c][n] = r]
            BY <1>3, <2>1, <3>1 DEF CdrMoves
        <3>3. r \in CdrReq /\ r.pc = pc
            BY <1>1, <3>1 DEF CdrReq
        <3>4. Fits(r)
            BY <3>2, <3>3
        <3> HIDE DEF Fits
        <3> QED BY <3>4
    <2>2. CASE ~CdrAwaited(c, n)
        BY <1>2, <1>3, <2>2 DEF CdrMoves
    <2> QED BY <2>1, <2>2
<1>4. ASSUME NEW st \in {"no_match", "error"},
             cdr' = [cdr EXCEPT ![c][n] = [@ EXCEPT !.pc = "release", !.status = st]]
      PROVE  \E r : Fits(r)
    <2>1. PICK r : r = [cdr[c][n] EXCEPT !.pc = "release", !.status = st]
        OBVIOUS
    <2>2. r \in CdrReq /\ r.pc = "release"
        BY <1>1, <2>1 DEF CdrReq
    <2>3. Fits(r)
        BY <1>4, <2>1, <2>2
    <2> HIDE DEF Fits
    <2> QED BY <2>3
<1>5. CASE CdrLookup(c, n)
    <2>1. PICK u \in BillableUsers(c) :
              cdr' = [cdr EXCEPT ![c][n] = [pc |-> "tx", user |-> u, status |-> "ok",
                                            label |-> PopLabel(Sanitize[c])]]
        BY <1>5 DEF CdrLookup
    <2>2. PICK r : r = [pc |-> "tx", user |-> u, status |-> "ok", label |-> PopLabel(Sanitize[c])]
        OBVIOUS
    <2>3. u \in Users /\ r \in CdrReq /\ r.user = u
        BY <2>1, <2>2, LabelledType DEF BillableUsers, CdrReq, Maybe, PopLabel, Label
    <2>4. Fits(r)
        BY <2>1, <2>2, <2>3
    <2>5. \E q : Fits(q)
        <3> HIDE DEF Fits
        <3> QED BY <2>4
    <2> QED BY <1>5, <2>5 DEF CdrLookup, CdrLooksUp
<1>6. CASE CdrNoOrder(c, n)
    <2>1. \E r : Fits(r)
        <3> HIDE DEF Fits
        <3> QED BY <1>3, <1>6 DEF CdrNoOrder
    <2> QED BY <1>6, <2>1 DEF CdrNoOrder, CdrLooksUp
<1>7. CASE CdrLookupFails(c, n)
    <2>1. \E r : Fits(r)
        <3> HIDE DEF Fits
        <3> QED BY <1>4, <1>7 DEF CdrLookupFails
    <2> QED BY <1>7, <2>1 DEF CdrLookupFails, CdrLooksUp
<1>8. CASE CdrCommit(c, n)
    <2>1. \E r : Fits(r)
        <3> HIDE DEF Fits
        <3> QED BY <1>3, <1>8 DEF CdrCommit
    <2> QED BY <1>8, <2>1 DEF CdrCommit
<1>9. CASE CdrTxFails(c, n)
    <2>1. \E r : Fits(r)
        <3> HIDE DEF Fits
        <3> QED BY <1>4, <1>9 DEF CdrTxFails
    <2> QED BY <1>9, <2>1 DEF CdrTxFails
<1>10. CASE CdrRelease(c, n)
    <2>1. \E r : Fits(r)
        <3> HIDE DEF Fits
        <3> QED BY <1>3, <1>10 DEF CdrRelease
    <2> QED BY <1>10, <2>1 DEF CdrRelease
<1>11. CASE CdrDeregister(c, n)
    <2>1. \E r : Fits(r)
        <3> HIDE DEF Fits
        <3> QED BY <1>3, <1>11 DEF CdrDeregister
    <2> QED BY <1>11, <2>1 DEF CdrDeregister
<1>12. CASE DropCdr(c, n)
    <2>1. \E r : Fits(r)
        <3> HIDE DEF Fits
        <3> QED BY <1>2, <1>12 DEF DropCdr
    <2> QED BY <1>12, <2>1 DEF DropCdr
<1> QED BY <1>5, <1>6, <1>7, <1>8, <1>9, <1>10, <1>11, <1>12 DEF CdrStep

-----------------------------------------------------------------------------
(* The two sets *)

\* Both kinds of set lose the members of S, and nothing else happens to them.
Lose(S) ==
    /\ \A u \in Users : actUser'[u] = actUser[u] \ S
    /\ \A d \in Dids : actDid'[d] = actDid[d] \ S

\* What happens to the sets: a call reserves, a call is released, a sweep releases
\* the keys it evicted, or nothing.
LEMMA SetsChange ==
    ASSUME PlaneTypeOK, [Next]_vars
    PROVE  \/ \E c \in Calls, n \in Attempts : Reserve(c, n)
           \/ \E c \in Calls, n \in Attempts : cdr[c][n].pc = "release" /\ UNCHANGED chan /\ Lose({c})
           \/ \E S \in SUBSET Keys : UNCHANGED chan /\ Lose(S)
           \/ UNCHANGED <<actUser, actDid>>
<1> USE DEF pgVars, redisVars, astVars, sipVars
<1>1. ASSUME NEW S, actUser' = Without(actUser, S), actDid' = Without(actDid, S)
      PROVE  Lose(S)
    BY <1>1 DEF Without, Lose, PlaneTypeOK, TypeOK
<1>2. CASE SipNext
    <2>1. PICK c \in Calls : \/ AsteriskStep(c)
                             \/ \E n \in Attempts : AuthorizeStep(c, n) \/ CdrStep(c, n)
        BY <1>2 DEF SipNext
    <2>2. CASE AsteriskStep(c)
        BY <2>2 DEF AsteriskStep, Invite, AuthRetry, AuthGivesUp, AuthAnswered, Hangup,
                    ChannelLost, CdrAnswered, CdrAttemptFails
    <2>3. ASSUME NEW n \in Attempts, AuthorizeStep(c, n)
          PROVE  Reserve(c, n) \/ UNCHANGED <<actUser, actDid>>
        BY <2>3 DEF AuthorizeStep, DecideRefuse, DecideDeny, DecideReserved, DecideAdmit,
                    WriteShell, ReserveDenied, PickFails, Register, DropAuth
    <2>4. ASSUME NEW n \in Attempts, CdrStep(c, n), ~UNCHANGED <<actUser, actDid>>
          PROVE  cdr[c][n].pc = "release" /\ UNCHANGED chan /\ Lose({c})
        <3>1. CdrRelease(c, n)
            BY <2>4, CdrShape DEF PlaneTypeOK
        <3> QED BY <1>1, <3>1 DEF CdrRelease
    <2> QED BY <2>1, <2>2, <2>3, <2>4
<1>3. CASE SweepStep
    <2>1. ASSUME NEW s \in Sweepers, SweepRelease(s)
          PROVE  sweep[s].evict \in SUBSET Keys /\ UNCHANGED chan /\ Lose(sweep[s].evict)
        BY <1>1, <2>1 DEF SweepRelease, PlaneTypeOK, SweepState
    <2>2. ASSUME \/ ReconcilerSnapshot \/ ForceCleanupSnapshot \/ ForceCleanupCut
                 \/ \E s \in Sweepers : SweepList(s) \/ SweepDeregister(s)
          PROVE  UNCHANGED <<actUser, actDid>>
        BY <2>2 DEF ReconcilerSnapshot, ForceCleanupSnapshot, ForceCleanupCut, Snapshot,
                    SweepList, SweepDeregister
    <2> QED BY <1>3, <2>1, <2>2 DEF SweepStep
<1>4. CASE AdminStep
    BY <1>4 DEF AdminStep, AdminOpen, AdminHangup, AdminRedirect, AdminMark, AdminDeregister, AdminGivesUp
<1>5. CASE OrderStep
    BY <1>5 DEF OrderStep, OrderCancelled, OrderCreated, OrderApproved, OrderSuspended, DidReserved,
                DidReleased, UserBlocked, UserUnblocked, UserDeactivated, UserReactivated, UserWide, Reroute
<1>6. CASE UNCHANGED vars
    BY <1>6 DEF vars
<1> QED BY <1>2, <1>3, <1>4, <1>5, <1>6 DEF Next

\* A set the cap admits one more call to is still within it with that call.
LEMMA RoomForOne ==
    ASSUME NEW S, IsFiniteSet(S), NEW c, NEW cap \in Int, ~(Cardinality(S) >= cap)
    PROVE  Cardinality(S \cup {c}) <= cap
<1>1. Cardinality(S) \in Nat /\ Cardinality(S \cup {c}) \in Nat
    BY FS_CardinalityType, FS_AddElement
<1>2. Cardinality(S \cup {c}) = Cardinality(S) \/ Cardinality(S \cup {c}) = Cardinality(S) + 1
    BY FS_AddElement
<1> QED BY <1>1, <1>2

\* The caps survive a step that only takes calls out.
LEMMA LoseKeepsCaps ==
    ASSUME PlaneTypeOK, CapRespected, NEW S, Lose(S)
    PROVE  CapRespected'
<1>1. ASSUME NEW T \in SUBSET Calls
      PROVE  Cardinality(T \ S) <= Cardinality(T) /\ Cardinality(T) \in Nat /\ Cardinality(T \ S) \in Nat
    <2>1. IsFiniteSet(T)
        BY FS_Subset, ReservationAssumption
    <2> QED BY <2>1, FS_Subset, FS_CardinalityType, T \ S \subseteq T
<1>2. ASSUME NEW d \in Dids
      PROVE  Cardinality(actDid'[d]) <= DidCap[d]
    <2>1. actDid[d] \in SUBSET Calls /\ DidCap[d] \in Int /\ actDid'[d] = actDid[d] \ S
        BY ReservationAssumption DEF PlaneTypeOK, TypeOK, Lose
    <2>2. Cardinality(actDid[d]) <= DidCap[d]
        BY DEF CapRespected
    <2> QED BY <1>1, <2>1, <2>2
<1>3. ASSUME NEW u \in Users, UserCap[u] >= 0
      PROVE  Cardinality(actUser'[u]) <= UserCap[u]
    <2>1. actUser[u] \in SUBSET Calls /\ UserCap[u] \in Int /\ actUser'[u] = actUser[u] \ S
        BY ReservationAssumption DEF PlaneTypeOK, TypeOK, Lose
    <2>2. Cardinality(actUser[u]) <= UserCap[u]
        BY <1>3 DEF CapRespected
    <2> QED BY <1>1, <2>1, <2>2
<1> QED BY <1>2, <1>3 DEF CapRespected

\* The caps survive reserveLua: it adds only where it has seen room.
LEMMA ReserveKeepsCaps ==
    ASSUME PlaneTypeOK, Owners, CapRespected, NEW c \in Calls, NEW n \in Attempts, Reserve(c, n)
    PROVE  CapRespected'
<1>1. PICK u \in Users : u = auth[c][n].user
    BY DEF Owners, Reserve
<1>2. /\ CodeFor(c, u) = 1
      /\ actUser' = [actUser EXCEPT ![u] = @ \cup {c}]
      /\ actDid' = [actDid EXCEPT ![DidOf[c]] = @ \cup {c}]
    BY <1>1 DEF Reserve
<1>3. /\ ~(UserCap[u] >= 0 /\ Cardinality(actUser[u]) >= UserCap[u])
      /\ ~(Cardinality(actDid[DidOf[c]]) >= DidCap[DidOf[c]])
    BY <1>2 DEF CodeFor, ReserveCode
<1>4. /\ actUser \in [Users -> SUBSET Calls] /\ actDid \in [Dids -> SUBSET Calls]
      /\ UserCap \in [Users -> Int] /\ DidCap \in [Dids -> Nat] /\ DidOf[c] \in Dids
    BY ReservationAssumption, SipCtlAssumption DEF PlaneTypeOK, TypeOK
<1>5. ASSUME NEW T \in SUBSET Calls
      PROVE  IsFiniteSet(T)
    BY FS_Subset, ReservationAssumption
<1>6. ASSUME NEW d \in Dids
      PROVE  Cardinality(actDid'[d]) <= DidCap[d]
    <2>1. CASE d = DidOf[c]
        <3>1. actDid'[d] = actDid[d] \cup {c}
            BY <1>2, <1>4, <2>1
        <3>2. IsFiniteSet(actDid[d]) /\ DidCap[d] \in Int /\ ~(Cardinality(actDid[d]) >= DidCap[d])
            BY <1>3, <1>4, <1>5, <2>1
        <3> QED BY <3>1, <3>2, RoomForOne
    <2>2. CASE d # DidOf[c]
        BY <1>2, <1>4, <2>2 DEF CapRespected
    <2> QED BY <2>1, <2>2
<1>7. ASSUME NEW v \in Users, UserCap[v] >= 0
      PROVE  Cardinality(actUser'[v]) <= UserCap[v]
    <2>1. CASE v = u
        <3>1. actUser'[v] = actUser[v] \cup {c}
            BY <1>2, <1>4, <2>1
        <3>2. IsFiniteSet(actUser[v]) /\ UserCap[v] \in Int /\ ~(Cardinality(actUser[v]) >= UserCap[v])
            BY <1>3, <1>4, <1>5, <1>7, <2>1
        <3> QED BY <3>1, <3>2, RoomForOne
    <2>2. CASE v # u
        BY <1>2, <1>4, <1>7, <2>2 DEF CapRespected
    <2> QED BY <2>1, <2>2
<1> QED BY <1>6, <1>7 DEF CapRespected

\* The two kinds of set stay in step when both lose the same calls.
LEMMA LoseKeepsAgreement ==
    ASSUME PlaneTypeOK, SetsAgree, NEW S, Lose(S)
    PROVE  SetsAgree'
<1>1. ASSUME NEW c \in Calls
      PROVE  c \in actDid'[DidOf[c]] <=> \E u \in Users : c \in actUser'[u]
    <2>1. DidOf[c] \in Dids /\ (c \in actDid[DidOf[c]] <=> \E u \in Users : c \in actUser[u])
        BY SipCtlAssumption DEF SetsAgree
    <2>2. /\ c \in actDid'[DidOf[c]] <=> c \in actDid[DidOf[c]] /\ c \notin S
          /\ \A u \in Users : c \in actUser'[u] <=> c \in actUser[u] /\ c \notin S
        BY <2>1 DEF Lose
    <2> QED BY <2>1, <2>2
<1> QED BY <1>1 DEF SetsAgree, Lose

\* The two kinds of set stay in step when a call reserves: it joins one of each.
LEMMA ReserveKeepsAgreement ==
    ASSUME PlaneTypeOK, Owners, SetsAgree, NEW c \in Calls, NEW n \in Attempts, Reserve(c, n)
    PROVE  SetsAgree'
<1>1. PICK u \in Users : u = auth[c][n].user
    BY DEF Owners, Reserve
<1>2. /\ actUser' = [actUser EXCEPT ![u] = @ \cup {c}]
      /\ actDid' = [actDid EXCEPT ![DidOf[c]] = @ \cup {c}]
    BY <1>1 DEF Reserve
<1>3. /\ actUser \in [Users -> SUBSET Calls] /\ actDid \in [Dids -> SUBSET Calls]
      /\ DidOf \in [Calls -> Dids]
    BY SipCtlAssumption DEF PlaneTypeOK, TypeOK
<1>4. /\ \A v \in Users : actUser'[v] = IF v = u THEN actUser[v] \cup {c} ELSE actUser[v]
      /\ \A d \in Dids : actDid'[d] = IF d = DidOf[c] THEN actDid[d] \cup {c} ELSE actDid[d]
    BY <1>2, <1>3
<1>5. ASSUME NEW e \in Calls
      PROVE  e \in actDid'[DidOf[e]] <=> \E v \in Users : e \in actUser'[v]
    <2>1. CASE e = c
        <3>1. c \in actDid'[DidOf[c]] /\ c \in actUser'[u]
            BY <1>3, <1>4
        <3> QED BY <2>1, <3>1
    <2>2. CASE e # c
        <3>1. e \in actDid'[DidOf[e]] <=> e \in actDid[DidOf[e]]
            BY <1>3, <1>4, <2>2
        <3>2. \A v \in Users : e \in actUser'[v] <=> e \in actUser[v]
            BY <1>4, <2>2
        <3> QED BY <3>1, <3>2 DEF SetsAgree
    <2> QED BY <2>1, <2>2
<1>6. ASSUME NEW d \in Dids, NEW e \in actDid'[d]
      PROVE  DidOf[e] = d
    <2>1. e \in actDid[d] \/ (e = c /\ d = DidOf[c])
        BY <1>4
    <2> QED BY <2>1 DEF SetsAgree
<1> QED BY <1>5, <1>6 DEF SetsAgree

\* The caps, and the agreement of the two kinds of set, survive every step.
LEMMA NextSets ==
    ASSUME PlaneTypeOK, Owners, CapRespected, SetsAgree, [Next]_vars
    PROVE  CapRespected' /\ SetsAgree'
<1>1. CASE UNCHANGED <<actUser, actDid>>
    BY <1>1 DEF CapRespected, SetsAgree
<1>2. ASSUME NEW S, Lose(S)
      PROVE  CapRespected' /\ SetsAgree'
    BY <1>2, LoseKeepsCaps, LoseKeepsAgreement
<1>3. ASSUME NEW c \in Calls, NEW n \in Attempts, Reserve(c, n)
      PROVE  CapRespected' /\ SetsAgree'
    BY <1>3, ReserveKeepsCaps, ReserveKeepsAgreement
<1> QED BY <1>1, <1>2, <1>3, SetsChange

-----------------------------------------------------------------------------
(* Channels held by calls that are up *)

\* A call with a host part in its Call-ID keeps its channel through every step
\* taken while it is up: only its own /cdr takes it, and that runs after the call.
LEMMA NextKeepsHolding ==
    ASSUME PlaneTypeOK, Owners, Quiet, [Next]_vars,
           NEW e \in Calls, ~Bare(e), chan[e] \in {"agi", "talking"},
           NEW v \in Users, Holds(e, v)
    PROVE  Holds(e, v)'
<1>1. DidOf[e] \in Dids
    BY SipCtlAssumption
<1>2. ASSUME NEW S, Lose(S), e \notin S
      PROVE  Holds(e, v)'
    BY <1>1, <1>2 DEF Lose, Holds
<1>3. CASE UNCHANGED <<actUser, actDid>>
    BY <1>3 DEF Holds
<1>4. ASSUME NEW c \in Calls, NEW n \in Attempts, Reserve(c, n)
      PROVE  Holds(e, v)'
    <2>1. Monotone
        BY <1>4, AuthorizeShape DEF AuthorizeStep, PlaneTypeOK
    <2> QED BY <1>1, <2>1 DEF Monotone, Holds
<1>5. ASSUME NEW c \in Calls, NEW n \in Attempts, cdr[c][n].pc = "release", Lose({c})
      PROVE  Holds(e, v)'
    <2>1. e # c
        BY <1>5 DEF Quiet
    <2> QED BY <1>2, <1>5, <2>1
<1>6. ASSUME NEW S \in SUBSET Keys, Lose(S)
      PROVE  Holds(e, v)'
    <2>1. e \notin S
        BY ReservationAssumption DEF Bare
    <2> QED BY <1>2, <1>6, <2>1
<1> QED BY <1>3, <1>4, <1>5, <1>6, SetsChange

\* The step connects call c on the order its awaited attempt was admitted to.
Connects(c) ==
    /\ chan[c] = "agi" /\ chan'[c] = "talking"
    /\ auth[c][att[c]].pc = "allow"
    /\ auth[c][att[c]].user # NoUser
    /\ leg'[c].user = auth[c][att[c]].user

\* What Asterisk, or an administrator through it, does to one call.
CallMoves(c) ==
    /\ UNCHANGED <<routing, actUser, actDid>>
    /\ \A e \in Calls \ {c} : /\ chan'[e] = chan[e] /\ leg'[e] = leg[e]
                              /\ auth'[e] = auth[e] /\ cdr'[e] = cdr[e]
    /\ chan'[c] # "idle"
    /\ chan'[c] = "agi" => chan[c] \in {"idle", "agi"}
    /\ \A n \in Attempts : auth'[c][n] = auth[c][n] \/ auth'[c][n].pc \in {"decide", "gone"}
    /\ \A n \in Attempts : cdr'[c][n] = cdr[c][n] \/ cdr'[c][n].pc # "tx"
    /\ chan'[c] \in {"agi", "talking"}
        => cdr'[c] = cdr[c] /\ chan[c] \in {"idle", "agi", "talking"}
    /\ leg'[c].kind = "order" => leg'[c] = leg[c] \/ Connects(c)
    /\ chan'[c] = "talking" /\ leg'[c].kind = "order"
        => Connects(c) \/ (chan[c] = "talking" /\ leg'[c] = leg[c])

\* Closing the connections of a call only ends requests, and only its own.
LEMMA AbandonMoves ==
    ASSUME TypeOK, NEW c \in Calls, AbandonAuth(c)
    PROVE  /\ \A e \in Calls \ {c} : auth'[e] = auth[e]
           /\ \A n \in Attempts : auth'[c][n] = auth[c][n] \/ auth'[c][n].pc \in {"decide", "gone"}
<1>1. auth \in [Calls -> [Attempts -> AuthReq]]
    BY DEF TypeOK
<1>2. auth' = [auth EXCEPT ![c] = [n \in Attempts |-> Abandoned(auth[c][n])]]
    BY DEF AbandonAuth
<1>3. auth'[c] = [n \in Attempts |-> Abandoned(auth[c][n])]
    BY <1>1, <1>2
<1>4. GoneAuth.pc = "gone"
    BY DEF GoneAuth, NoAuth
<1> QED BY <1>1, <1>2, <1>3, <1>4 DEF Abandoned

\* The end of a call touches that call only, and no transaction of its /cdr.
LEMMA TeardownMoves ==
    ASSUME TypeOK, NEW c \in Calls, NEW b, BeginTeardown(c, b)
    PROVE  /\ \A e \in Calls \ {c} : chan'[e] = chan[e] /\ cdr'[e] = cdr[e]
           /\ chan'[c] = "teardown"
           /\ \A n \in Attempts : cdr'[c][n] = cdr[c][n] \/ cdr'[c][n].pc # "tx"
<1>1. cdr \in [Calls -> [Attempts -> CdrReq]] /\ chan \in [Calls -> {"idle", "agi", "talking", "teardown", "over"}]
    BY DEF TypeOK
<1>2. cdr' = [cdr EXCEPT ![c][1] = NewCdr] /\ chan' = [chan EXCEPT ![c] = "teardown"]
    BY DEF BeginTeardown
<1>3. \A n \in Attempts : cdr'[c][n] = IF n = 1 THEN NewCdr ELSE cdr[c][n]
    BY <1>1, <1>2
<1>4. NewCdr.pc = "lookup"
    BY DEF NewCdr
<1> QED BY <1>1, <1>2, <1>3, <1>4

\* What Asterisk and the scripts do to a call is a CallMoves of it.
LEMMA AsteriskMoves ==
    ASSUME TypeOK, NEW c \in Calls, AsteriskStep(c)
    PROVE  CallMoves(c)
<1> USE DEF pgVars, redisVars, astVars, CallMoves
<1>1. /\ auth \in [Calls -> [Attempts -> AuthReq]] /\ cdr \in [Calls -> [Attempts -> CdrReq]]
      /\ chan \in [Calls -> {"idle", "agi", "talking", "teardown", "over"}]
      /\ leg \in [Calls -> Leg] /\ att \in [Calls -> Attempts]
    BY DEF TypeOK
<1>2. CASE Invite(c)
    <2>1. \A n \in Attempts : auth'[c][n] = auth[c][n] \/ auth'[c][n].pc = "decide"
        <3>1. auth' = [auth EXCEPT ![c][1].pc = "decide"]
            BY <1>2 DEF Invite
        <3>2. \A n \in Attempts : auth'[c][n] = IF n = 1 THEN [auth[c][n] EXCEPT !.pc = "decide"] ELSE auth[c][n]
            BY <1>1, <3>1
        <3> QED BY <1>1, <3>2 DEF AuthReq
    <2> QED BY <1>1, <1>2, <2>1 DEF Invite
<1>3. CASE AuthRetry(c)
    <2>1. \A n \in Attempts : auth'[c][n] = auth[c][n] \/ auth'[c][n].pc \in {"decide", "gone"}
        <3>1. auth' = [auth EXCEPT ![c] = [n \in Attempts |->
                            IF n = att[c] + 1 THEN [NoAuth EXCEPT !.pc = "decide"]
                                              ELSE Abandoned(auth[c][n])]]
            BY <1>3 DEF AuthRetry
        <3>2. auth'[c] = [n \in Attempts |-> IF n = att[c] + 1 THEN [NoAuth EXCEPT !.pc = "decide"]
                                                               ELSE Abandoned(auth[c][n])]
            BY <1>1, <3>1
        <3>3. [NoAuth EXCEPT !.pc = "decide"].pc = "decide" /\ GoneAuth.pc = "gone"
            BY DEF NoAuth, GoneAuth
        <3> QED BY <3>2, <3>3 DEF Abandoned
    <2> QED BY <1>1, <1>3, <2>1 DEF AuthRetry
<1>4. CASE AuthGivesUp(c)
    BY <1>1, <1>4, AbandonMoves, TeardownMoves DEF AuthGivesUp
<1>5. CASE AuthAnswered(c)
    <2> DEFINE req == auth[c][att[c]]
    <2>1. auth' = [auth EXCEPT ![c][att[c]] = GoneAuth]
        BY <1>5 DEF AuthAnswered
    <2>2. /\ \A e \in Calls \ {c} : auth'[e] = auth[e]
          /\ \A n \in Attempts : auth'[c][n] = auth[c][n] \/ auth'[c][n].pc = "gone"
        <3>1. GoneAuth.pc = "gone"
            BY DEF GoneAuth, NoAuth
        <3> QED BY <1>1, <2>1, <3>1
    <2>3. CASE req.pc = "allow"
        <3>1. /\ chan[c] = "agi" /\ chan' = [chan EXCEPT ![c] = "talking"]
              /\ leg' = [leg EXCEPT ![c] = [kind |-> IF req.user = NoUser THEN "reserved" ELSE "order",
                                           user |-> req.user]]
              /\ UNCHANGED <<routing, actUser, actDid, cdr>>
            BY <1>5, <2>3 DEF AuthAnswered
        <3>2. /\ leg'[c].kind = IF req.user = NoUser THEN "reserved" ELSE "order"
              /\ leg'[c].user = req.user
            BY <1>1, <3>1
        <3>3. leg'[c].kind = "order" => Connects(c)
            BY <1>1, <2>3, <3>1, <3>2 DEF Connects
        <3> HIDE DEF req
        <3> QED BY <1>1, <2>2, <3>1, <3>3
    <2>4. CASE req.pc = "deny"
        <3>1. /\ BeginTeardown(c, 0) /\ leg' = [leg EXCEPT ![c].kind = "denied"]
              /\ UNCHANGED <<routing, actUser, actDid>>
            BY <1>5, <2>4 DEF AuthAnswered
        <3>2. leg'[c].kind = "denied" /\ \A e \in Calls \ {c} : leg'[e] = leg[e]
            BY <1>1, <3>1 DEF Leg
        <3> HIDE DEF req
        <3> QED BY <1>1, <2>2, <3>1, <3>2, TeardownMoves
    <2> QED BY <1>5, <2>3, <2>4 DEF AuthAnswered
<1>6. CASE Hangup(c)
    BY <1>1, <1>6, TeardownMoves DEF Hangup
<1>7. CASE ChannelLost(c)
    BY <1>1, <1>7, AbandonMoves DEF ChannelLost
<1>8. CASE CdrAnswered(c)
    <2>1. cdr' = [cdr EXCEPT ![c][att[c]] = GoneCdr] /\ GoneCdr.pc = "gone"
        BY <1>8 DEF CdrAnswered, GoneCdr, NewCdr
    <2>2. \A n \in Attempts : cdr'[c][n] = cdr[c][n] \/ cdr'[c][n].pc # "tx"
        BY <1>1, <2>1
    <2> QED BY <1>1, <1>8, <2>1, <2>2 DEF CdrAnswered
<1>9. CASE CdrAttemptFails(c)
    <2>1. GoneCdr.pc = "gone" /\ NewCdr.pc = "lookup"
        BY DEF GoneCdr, NewCdr
    <2>2. Unread(cdr[c][att[c]]) = cdr[c][att[c]] \/ Unread(cdr[c][att[c]]).pc = "gone"
        BY <2>1 DEF Unread
    <2>3. CASE att[c] + 1 \in Attempts
                /\ cdr' = [cdr EXCEPT ![c][att[c]] = Unread(@), ![c][att[c] + 1] = NewCdr]
                /\ UNCHANGED chan
        <3>1. \A n \in Attempts : cdr'[c][n] = IF n = att[c] + 1 THEN NewCdr
                                               ELSE IF n = att[c] THEN Unread(cdr[c][n])
                                               ELSE cdr[c][n]
            BY <1>1, <2>3
        <3>2. \A n \in Attempts : cdr'[c][n] = cdr[c][n] \/ cdr'[c][n].pc # "tx"
            BY <2>1, <2>2, <3>1
        <3> QED BY <1>1, <1>9, <2>3, <3>2 DEF CdrAttemptFails
    <2>4. CASE /\ chan' = [chan EXCEPT ![c] = "over"]
               /\ cdr' = [cdr EXCEPT ![c][att[c]] = Unread(@)]
        <3>1. \A n \in Attempts : cdr'[c][n] = IF n = att[c] THEN Unread(cdr[c][n]) ELSE cdr[c][n]
            BY <1>1, <2>4
        <3>2. \A n \in Attempts : cdr'[c][n] = cdr[c][n] \/ cdr'[c][n].pc # "tx"
            BY <2>2, <3>1
        <3> QED BY <1>1, <1>9, <2>4, <3>2 DEF CdrAttemptFails
    <2>5. att[c] < CdrAttempts[c] => att[c] + 1 \in Attempts
        BY <1>1, SipCtlAssumption
    <2> QED BY <1>9, <2>3, <2>4, <2>5 DEF CdrAttemptFails
<1> QED BY <1>2, <1>3, <1>4, <1>5, <1>6, <1>7, <1>8, <1>9 DEF AsteriskStep

\* What an administrator does is a CallMoves of one call, or leaves calls alone.
LEMMA AdminMoves ==
    ASSUME PlaneTypeOK, AdminStep
    PROVE  \/ UNCHANGED <<routing, actUser, actDid, chan, leg, auth, cdr>>
           \/ \E c \in Calls : CallMoves(c)
<1> USE DEF pgVars, redisVars, astVars, sipVars
<1>1. /\ auth \in [Calls -> [Attempts -> AuthReq]] /\ cdr \in [Calls -> [Attempts -> CdrReq]]
      /\ chan \in [Calls -> {"idle", "agi", "talking", "teardown", "over"}]
      /\ leg \in [Calls -> Leg] /\ TypeOK
    BY DEF PlaneTypeOK, TypeOK
<1>2. admin.pc = "opened" => admin.call \in Calls
    BY DEF PlaneTypeOK, AdminState, NoAdmin
<1>3. CASE AdminHangup
    <2>1. PICK c \in Calls : c = admin.call
        BY <1>2, <1>3 DEF AdminHangup
    <2>2. CASE chan[c] \in {"agi", "talking"}
        <3>1. (\E b : BeginTeardown(c, b)) /\ AbandonAuth(c)
              /\ UNCHANGED <<routing, actUser, actDid, leg>>
            BY <1>3, <2>1, <2>2 DEF AdminHangup
        <3>2. CallMoves(c)
            BY <1>1, <3>1, AbandonMoves, TeardownMoves DEF CallMoves
        <3> QED BY <3>2
    <2>3. CASE chan[c] \notin {"agi", "talking"}
        BY <1>3, <2>1, <2>3 DEF AdminHangup
    <2> QED BY <2>2, <2>3
<1>4. CASE AdminRedirect
    <2>1. PICK c \in Calls : c = admin.call
        BY <1>2, <1>4 DEF AdminRedirect
    <2>2. CASE chan[c] = "agi"
        <3>1. /\ chan' = [chan EXCEPT ![c] = "talking"]
              /\ leg' = [leg EXCEPT ![c].kind = "redirected"]
              /\ AbandonAuth(c)
              /\ UNCHANGED <<routing, actUser, actDid, cdr>>
            BY <1>4, <2>1, <2>2 DEF AdminRedirect
        <3>2. leg'[c].kind = "redirected" /\ \A e \in Calls \ {c} : leg'[e] = leg[e]
            BY <1>1, <3>1 DEF Leg
        <3>3. CallMoves(c)
            BY <1>1, <2>2, <3>1, <3>2, AbandonMoves DEF CallMoves
        <3> QED BY <3>3
    <2>3. CASE chan[c] # "agi"
        BY <1>4, <2>1, <2>3 DEF AdminRedirect
    <2> QED BY <2>2, <2>3
<1>5. CASE AdminMark \/ AdminDeregister \/ AdminGivesUp \/ \E c \in Calls : AdminOpen(c)
    BY <1>5 DEF AdminMark, AdminDeregister, AdminGivesUp, AdminOpen
<1> QED BY <1>3, <1>4, <1>5 DEF AdminStep

\* The parts of the invariant that say who holds what, over the state they read.
Held == Owners /\ Quiet /\ PastReserveHolds /\ LiveCallHoldsChannel

\* A call connects only on an attempt past its reservation, so what is held of calls
\* survives whatever Asterisk does to one.
LEMMA CallMovesHeld ==
    ASSUME PlaneTypeOK, Held, [Next]_vars, NEW c \in Calls, CallMoves(c)
    PROVE  Held'
<1>1. \A e \in Calls, v \in Users : Holds(e, v)' <=> Holds(e, v)
    BY DEF CallMoves, Holds
<1>2. \A n \in Attempts : auth[c][n].user \in Maybe
    BY DEF PlaneTypeOK, TypeOK, AuthReq
<1>3. att[c] \in Attempts
    BY DEF PlaneTypeOK, TypeOK
<1>4. Connects(c) => auth[c][att[c]].user \in Users
    BY <1>2, <1>3 DEF Connects, Maybe
<1>5. Owners'
    <2>1. \A d \in Dids : routing'[d].status \in {"active", "inactive", "blocked"}
                              => routing'[d].user \in Users
        BY DEF Held, Owners, CallMoves
    <2>2. ASSUME NEW e \in Calls, leg'[e].kind = "order"
          PROVE  leg'[e].user \in Users
        <3>1. CASE e # c
            BY <2>2, <3>1 DEF Held, Owners, CallMoves
        <3>2. CASE e = c
            <4>1. leg'[c] = leg[c] \/ Connects(c)
                BY <2>2, <3>2 DEF CallMoves
            <4> QED BY <1>4, <2>2, <3>2, <4>1 DEF Held, Owners, Connects
        <3> QED BY <3>1, <3>2
    <2>3. ASSUME NEW e \in Calls, NEW n \in Attempts
          PROVE  /\ auth'[e][n].pc = "reserve" => auth'[e][n].user \in Users
                 /\ auth'[e][n].pc = "write_shell" => auth'[e][n].user \notin Users
                 /\ cdr'[e][n].pc = "tx" => cdr'[e][n].user \in Users
        <3>1. auth'[e][n] = auth[e][n] \/ auth'[e][n].pc \in {"decide", "gone"}
            BY DEF CallMoves
        <3>2. cdr'[e][n] = cdr[e][n] \/ cdr'[e][n].pc # "tx"
            BY DEF CallMoves
        <3> QED BY <3>1, <3>2 DEF Held, Owners
    <2> QED BY <2>1, <2>2, <2>3 DEF Owners
<1>6. Quiet'
    <2>1. ASSUME NEW e \in Calls, NEW n \in Attempts
          PROVE  /\ chan'[e] = "idle" => auth'[e][n].pc = "idle"
                 /\ chan'[e] \in {"idle", "agi", "talking"} => cdr'[e][n].pc = "idle"
        <3>1. CASE e # c
            BY <3>1 DEF Held, Quiet, CallMoves
        <3>2. CASE e = c
            BY <3>2 DEF Held, Quiet, CallMoves
        <3> QED BY <3>1, <3>2
    <2> QED BY <2>1 DEF Quiet
<1>7. PastReserveHolds'
    <2>1. ASSUME NEW e \in Calls, NEW n \in Attempts, chan'[e] = "agi", ~Bare(e),
                 auth'[e][n].pc \in {"register", "allow"}, auth'[e][n].user \in Users
          PROVE  Holds(e, auth[e][n].user)'
        <3>1. auth'[e][n] = auth[e][n]
            BY <2>1 DEF CallMoves
        <3>2. chan[e] = "agi"
            BY <2>1, <3>1 DEF CallMoves, Held, Quiet
        <3>3. Holds(e, auth[e][n].user)
            BY <2>1, <3>1, <3>2 DEF Held, PastReserveHolds
        <3> QED BY <2>1, <3>1, <3>3 DEF Holds, CallMoves
    <2> QED BY <2>1 DEF PastReserveHolds, Bare, Holds
<1>8. LiveCallHoldsChannel'
    <2>1. ASSUME NEW e \in Calls, chan'[e] = "talking", leg'[e].kind = "order", ~Bare(e)
          PROVE  Holds(e, leg[e].user)'
        <3>1. CASE (chan[e] = "talking" /\ leg'[e] = leg[e])
            BY <2>1, <3>1 DEF Held, LiveCallHoldsChannel, Holds, CallMoves
        <3>2. CASE Connects(e)
            <4>1. e = c \/ chan'[e] = chan[e]
                BY DEF CallMoves
            <4>2. e = c
                BY <3>2, <4>1 DEF Connects
            <4>3. Holds(c, auth[c][att[c]].user)
                BY <1>3, <1>4, <2>1, <3>2, <4>2 DEF Held, PastReserveHolds, Connects
            <4> QED BY <3>2, <4>2, <4>3 DEF Holds, CallMoves, Connects
        <3> QED BY <2>1, <3>1, <3>2 DEF CallMoves
    <2> QED BY <2>1 DEF LiveCallHoldsChannel, Bare, Holds
<1> QED BY <1>5, <1>6, <1>7, <1>8 DEF Held

\* An attempt gets past its reservation only by reserving, so what is held of calls
\* survives /sipctl/authorize.
LEMMA AuthorizeHeld ==
    ASSUME PlaneTypeOK, Held, [Next]_vars, NEW c \in Calls, NEW n \in Attempts, AuthorizeStep(c, n)
    PROVE  Held'
<1>1. /\ UNCHANGED <<routing, chan, leg, cdr>>
      /\ auth[c][n].pc # "idle"
    BY AuthorizeShape DEF PlaneTypeOK, Held
<1>2. PICK r \in AuthReq :
        /\ auth' = [auth EXCEPT ![c][n] = r]
        /\ r.pc = "reserve" => r.user \in Users
        /\ r.pc = "write_shell" => r.user \notin Users
        /\ r.pc \in {"register", "allow"} /\ r.user \in Users
            => \/ auth[c][n].pc = "register" /\ auth[c][n].user = r.user
               \/ Holds(c, r.user)'
    BY AuthorizeShape DEF PlaneTypeOK, Held
<1>3. auth \in [Calls -> [Attempts -> AuthReq]]
    BY DEF PlaneTypeOK, TypeOK
<1>4. \A e \in Calls, m \in Attempts : auth'[e][m] = IF e = c /\ m = n THEN r ELSE auth[e][m]
    BY <1>2, <1>3
<1>5. Owners' /\ Quiet'
    BY <1>1, <1>2, <1>4 DEF Held, Owners, Quiet
<1>6. ASSUME NEW e \in Calls, NEW v \in Users, ~Bare(e), chan[e] \in {"agi", "talking"}, Holds(e, v)
      PROVE  Holds(e, v)'
    BY <1>6, NextKeepsHolding DEF Held
<1>7. PastReserveHolds'
    <2>1. ASSUME NEW e \in Calls, NEW m \in Attempts, chan'[e] = "agi", ~Bare(e),
                 auth'[e][m].pc \in {"register", "allow"}, auth'[e][m].user \in Users
          PROVE  Holds(e, auth[e][m].user)'
        <3>1. CASE auth'[e][m] = auth[e][m]
            <4>1. PICK v \in Users : v = auth[e][m].user
                BY <2>1, <3>1
            <4>2. Holds(e, v)
                BY <1>1, <2>1, <3>1, <4>1 DEF Held, PastReserveHolds
            <4>3. Holds(e, v)'
                BY <1>1, <1>6, <2>1, <4>2
            <4> QED BY <3>1, <4>1, <4>3 DEF Holds
        <3>2. CASE e = c /\ m = n /\ auth'[e][m] = r
            <4>1. PICK v \in Users : v = r.user
                BY <2>1, <3>2
            <4>2. Holds(e, v)'
                <5>1. CASE auth[c][n].pc = "register" /\ auth[c][n].user = r.user
                    <6>1. Holds(e, v)
                        BY <1>1, <2>1, <3>2, <4>1, <5>1 DEF Held, PastReserveHolds
                    <6> QED BY <1>1, <1>6, <2>1, <6>1
                <5>2. CASE Holds(c, r.user)'
                    BY <3>2, <4>1, <5>2 DEF Holds
                <5> QED BY <1>2, <2>1, <3>2, <5>1, <5>2
            <4> QED BY <3>2, <4>1, <4>2 DEF Holds
        <3> QED BY <1>4, <3>1, <3>2
    <2> QED BY <2>1 DEF PastReserveHolds, Bare, Holds
<1>8. LiveCallHoldsChannel'
    <2>1. ASSUME NEW e \in Calls, chan'[e] = "talking", leg'[e].kind = "order", ~Bare(e)
          PROVE  Holds(e, leg[e].user)'
        <3>1. PICK v \in Users : v = leg[e].user
            BY <1>1, <2>1 DEF Held, Owners
        <3>2. Holds(e, v)
            BY <1>1, <2>1, <3>1 DEF Held, LiveCallHoldsChannel
        <3> QED BY <1>1, <1>6, <2>1, <3>1, <3>2 DEF Holds
    <2> QED BY <2>1 DEF LiveCallHoldsChannel, Bare, Holds
<1> QED BY <1>5, <1>7, <1>8 DEF Held

\* Steps that touch neither a channel nor an authorize request keep what is held,
\* if they keep the requests and the routing in order.
LEMMA OthersHeld ==
    ASSUME PlaneTypeOK, Held, [Next]_vars, UNCHANGED <<chan, leg, auth>>, Owners', Quiet'
    PROVE  Held'
<1>1. ASSUME NEW e \in Calls, NEW v \in Users, ~Bare(e), chan[e] \in {"agi", "talking"}, Holds(e, v)
      PROVE  Holds(e, v)'
    BY <1>1, NextKeepsHolding DEF Held
<1>2. PastReserveHolds'
    BY <1>1 DEF Held, PastReserveHolds, Bare, Holds
<1>3. LiveCallHoldsChannel'
    BY <1>1 DEF Held, Owners, LiveCallHoldsChannel, Bare, Holds
<1> QED BY <1>2, <1>3 DEF Held

\* What is held of calls survives every step.
LEMMA NextHeld ==
    ASSUME PlaneTypeOK, Held, [Next]_vars
    PROVE  Held'
<1> USE DEF pgVars, redisVars, astVars, sipVars
<1>1. ASSUME NEW c \in Calls, AsteriskStep(c)
      PROVE  Held'
    BY <1>1, AsteriskMoves, CallMovesHeld DEF PlaneTypeOK
<1>2. ASSUME NEW c \in Calls, NEW n \in Attempts, CdrStep(c, n)
      PROVE  Held'
    <2>1. UNCHANGED <<routing, chan, leg, auth>> /\ cdr[c][n].pc # "idle"
        BY <1>2, CdrShape DEF PlaneTypeOK
    <2>2. PICK r \in CdrReq : cdr' = [cdr EXCEPT ![c][n] = r] /\ (r.pc = "tx" => r.user \in Users)
        BY <1>2, CdrShape DEF PlaneTypeOK
    <2>3. \A e \in Calls, m \in Attempts : cdr'[e][m] = IF e = c /\ m = n THEN r ELSE cdr[e][m]
        BY <2>2 DEF PlaneTypeOK, TypeOK
    <2>4. Owners' /\ Quiet'
        BY <2>1, <2>2, <2>3 DEF Held, Owners, Quiet
    <2> QED BY <2>1, <2>4, OthersHeld
<1>3. CASE SweepStep
    <2>1. UNCHANGED <<routing, chan, leg, auth, cdr>>
        BY <1>3 DEF SweepStep, ReconcilerSnapshot, ForceCleanupSnapshot, ForceCleanupCut, Snapshot,
                    SweepList, SweepDeregister, SweepRelease
    <2>2. Owners' /\ Quiet'
        BY <2>1 DEF Held, Owners, Quiet
    <2> QED BY <2>1, <2>2, OthersHeld
<1>4. CASE AdminStep
    <2>1. CASE UNCHANGED <<routing, actUser, actDid, chan, leg, auth, cdr>>
        <3>1. Owners' /\ Quiet'
            BY <2>1 DEF Held, Owners, Quiet
        <3> QED BY <2>1, <3>1, OthersHeld
    <2>2. CASE \E c \in Calls : CallMoves(c)
        BY <2>2, CallMovesHeld
    <2> QED BY <1>4, <2>1, <2>2, AdminMoves
<1>5. CASE OrderStep
    <2>1. PICK new \in [Dids -> Route] :
              /\ Reroute(new)
              /\ \A d \in Dids : new[d].status \in {"active", "inactive", "blocked"}
                                    => new[d].user \in Users
        BY <1>5, OrderReroutes DEF Held
    <2>2. routing' = new /\ UNCHANGED <<chan, leg, auth, cdr>>
        BY <2>1 DEF Reroute
    <2>3. Owners' /\ Quiet'
        BY <2>1, <2>2 DEF Held, Owners, Quiet
    <2> QED BY <2>2, <2>3, OthersHeld
<1>6. CASE UNCHANGED vars
    <2>1. UNCHANGED <<routing, chan, leg, auth, cdr, actUser, actDid>>
        BY <1>6 DEF vars
    <2>2. Owners' /\ Quiet'
        BY <2>1 DEF Held, Owners, Quiet
    <2> QED BY <2>1, <2>2, OthersHeld
<1> QED BY <1>1, <1>2, <1>3, <1>4, <1>5, <1>6, AuthorizeHeld DEF Next, SipNext

-----------------------------------------------------------------------------
(* Theorems *)

\* The invariant holds initially: nothing runs and the sets are empty.
LEMMA InitInv ==
    ASSUME Init
    PROVE  ChannelInv
<1>1. PlaneTypeOK
    BY SipInitType, CallPlaneAssumption DEF Init, PlaneTypeOK, SweepState, NoSweep, AdminState
<1>2. CapRespected
    <2>1. Cardinality({}) = 0
        BY FS_EmptySet
    <2> QED BY <2>1, ReservationAssumption DEF Init, SipInit, CapRespected
<1>3. SetsAgree
    BY SipCtlAssumption DEF Init, SipInit, SetsAgree
<1>4. \A c \in Calls, n \in Attempts : /\ auth[c][n].pc = "idle" /\ cdr[c][n].pc = "idle"
                                         /\ chan[c] = "idle" /\ leg[c].kind = "none"
    BY DEF Init, SipInit, NoAuth, NoCdrReq, NewCdr
<1>5. Owners
    <2>1. ASSUME NEW d \in Dids, routing[d].status \in {"active", "inactive", "blocked"}
          PROVE  routing[d].user \in Users
        BY <2>1 DEF Init, SipInit
    <2>2. \A c \in Calls : leg[c].kind = "none"
        BY DEF Init, SipInit
    <2> QED BY <1>4, <2>1, <2>2 DEF Owners
<1>6. Quiet /\ PastReserveHolds /\ LiveCallHoldsChannel
    BY <1>4 DEF Quiet, PastReserveHolds, LiveCallHoldsChannel
<1> QED BY <1>1, <1>2, <1>3, <1>5, <1>6 DEF ChannelInv

\* The invariant is inductive.
LEMMA NextInv ==
    ASSUME ChannelInv, [Next]_vars
    PROVE  ChannelInv'
<1>1. PlaneTypeOK'
    BY NextType DEF ChannelInv
<1>2. CapRespected' /\ SetsAgree'
    BY NextSets DEF ChannelInv
<1>3. Held'
    BY NextHeld DEF ChannelInv, Held
<1> QED BY <1>1, <1>2, <1>3 DEF ChannelInv, Held

\* The inductive invariant of the call plane holds in every state, whatever the
\* calls, DIDs, customers and caps, and whoever sweeps.
THEOREM Inductive == Spec => []ChannelInv
<1>1. Init => ChannelInv
    BY InitInv
<1>2. ChannelInv /\ [Next]_vars => ChannelInv'
    BY NextInv
<1> QED BY <1>1, <1>2, PTL DEF Spec

\* Every variable of the call plane keeps its type.
THEOREM TypeCorrect == Spec => []PlaneTypeOK
<1>1. ChannelInv => PlaneTypeOK
    BY DEF ChannelInv
<1> QED BY <1>1, Inductive, PTL

\* reserveLua never lets an act:* set outgrow its cap.
THEOREM CapsHold == Spec => []CapRespected
<1>1. ChannelInv => CapRespected
    BY DEF ChannelInv
<1> QED BY <1>1, Inductive, PTL

\* A call counts against its DID exactly when it counts against a customer.
THEOREM SetsStayInStep == Spec => []SetsAgree
<1>1. ChannelInv => SetsAgree
    BY DEF ChannelInv
<1> QED BY <1>1, Inductive, PTL

\* No sweep, retry or other call takes the channel of a call that is up.
THEOREM LiveCallsHoldChannels == Spec => []LiveCallHoldsChannel
<1>1. ChannelInv => LiveCallHoldsChannel
    BY DEF ChannelInv
<1> QED BY <1>1, Inductive, PTL

\* The calls up on a DID's order never outnumber its channels: each of them holds
\* a place in the DID's set, and the set is within its cap.
THEOREM ConcurrencyHolds == Spec => []ConcurrencyWithinCap
<1>1. ASSUME ChannelInv, NEW d \in Dids
      PROVE  Cardinality({c \in Calls : /\ DidOf[c] = d /\ ~Bare(c)
                                        /\ chan[c] = "talking" /\ leg[c].kind = "order"}) <= DidCap[d]
    <2> DEFINE Up == {c \in Calls : /\ DidOf[c] = d /\ ~Bare(c)
                                    /\ chan[c] = "talking" /\ leg[c].kind = "order"}
    <2>1. Up \subseteq actDid[d]
        BY <1>1 DEF ChannelInv, LiveCallHoldsChannel, Holds
    <2>2. IsFiniteSet(actDid[d])
        BY <1>1, FS_Subset, ReservationAssumption DEF ChannelInv, PlaneTypeOK, TypeOK
    <2> HIDE DEF Up
    <2>3. Cardinality(Up) <= Cardinality(actDid[d]) /\ IsFiniteSet(Up)
        BY <2>1, <2>2, FS_Subset
    <2>4. Cardinality(Up) \in Nat /\ Cardinality(actDid[d]) \in Nat /\ DidCap[d] \in Int
        BY <2>2, <2>3, FS_CardinalityType, ReservationAssumption
    <2>5. Cardinality(actDid[d]) <= DidCap[d]
        BY <1>1 DEF ChannelInv, CapRespected
    <2>6. Cardinality(Up) <= DidCap[d]
        BY <2>3, <2>4, <2>5
    <2> QED BY <2>6 DEF Up
<1>2. ChannelInv => ConcurrencyWithinCap
    BY <1>1 DEF ConcurrencyWithinCap
<1> QED BY <1>2, Inductive, PTL

\* Every step of the call plane is a posting to the ledger or leaves it alone.
THEOREM LedgerHolds == Spec => LedgerImplemented
<1>1. Init => Book!Init
    BY DEF Init, SipInit, Book!Init
<1>2. PlaneTypeOK /\ Owners /\ [Next]_vars => [Book!Next]_<<balance, ledger>>
    <2> SUFFICES ASSUME PlaneTypeOK, Owners, [Next]_vars
                 PROVE  Book!Next \/ UNCHANGED <<balance, ledger>>
        OBVIOUS
    <2> USE DEF pgVars, redisVars, astVars, sipVars
    <2>1. ASSUME NEW c \in Calls, NEW n \in Attempts, CdrCommit(c, n), bill[c] > 0
          PROVE  Book!Next
        <3>1. PICK u \in Users : u = cdr[c][n].user
            BY <2>1 DEF CdrCommit, Owners
        <3>2. bill[c] \in Nat /\ balance \in [Users -> Int] /\ Sanitize[c] \in Keys
            BY ReservationAssumption DEF PlaneTypeOK, TypeOK
        <3>3. /\ balance' = [balance EXCEPT ![u] = @ - bill[c]]
              /\ ledger' = Append(ledger, [user |-> u, delta |-> -bill[c],
                                           after |-> balance[u] - bill[c], ref |-> Sanitize[c]])
            BY <2>1, <3>1 DEF CdrCommit
        <3>4. balance'[u] - balance[u] = -bill[c] /\ -bill[c] # 0
            BY <2>1, <3>2, <3>3
        <3>5. balance[u] - bill[c] = balance[u] + (-bill[c])
            BY <3>2
        <3>6. Book!Post(u, -bill[c], Sanitize[c])
            BY <3>2, <3>3, <3>4, <3>5 DEF Book!Post
        <3> QED BY <3>2, <3>4, <3>6 DEF Book!Next
    <2>2. ASSUME NEW c \in Calls, NEW n \in Attempts, CdrCommit(c, n), ~(bill[c] > 0)
          PROVE  UNCHANGED <<balance, ledger>>
        BY <2>2 DEF CdrCommit
    <2>3. ASSUME NEW c \in Calls, NEW n \in Attempts, AuthorizeStep(c, n)
          PROVE  UNCHANGED <<balance, ledger>>
        BY <2>3 DEF AuthorizeStep, DecideRefuse, DecideDeny, DecideReserved, DecideAdmit,
                    WriteShell, Reserve, ReserveDenied, PickFails, Register, DropAuth
    <2>4. ASSUME NEW c \in Calls, NEW n \in Attempts, CdrStep(c, n), ~CdrCommit(c, n)
          PROVE  UNCHANGED <<balance, ledger>>
        BY <2>4 DEF CdrStep, CdrLookup, CdrNoOrder, CdrLookupFails, CdrTxFails, CdrRelease,
                    CdrDeregister, DropCdr
    <2>5. ASSUME NEW c \in Calls, AsteriskStep(c)
          PROVE  UNCHANGED <<balance, ledger>>
        BY <2>5 DEF AsteriskStep, Invite, AuthRetry, AuthGivesUp, AuthAnswered, Hangup,
                    ChannelLost, CdrAnswered, CdrAttemptFails
    <2>6. ASSUME SweepStep \/ AdminStep
          PROVE  UNCHANGED <<balance, ledger>>
        BY <2>6 DEF SweepStep, ReconcilerSnapshot, ForceCleanupSnapshot, ForceCleanupCut, Snapshot,
                    SweepList, SweepDeregister, SweepRelease, AdminStep, AdminOpen, AdminHangup,
                    AdminRedirect, AdminMark,
                    AdminDeregister, AdminGivesUp
    <2>7. ASSUME OrderStep
          PROVE  UNCHANGED <<balance, ledger>>
        BY <2>7, OrderReroutes DEF Reroute
    <2>8. CASE UNCHANGED vars
        BY <2>8 DEF vars
    <2> QED BY <2>1, <2>2, <2>3, <2>4, <2>5, <2>6, <2>7, <2>8 DEF Next, SipNext
<1>3. ChannelInv => PlaneTypeOK /\ Owners
    BY DEF ChannelInv
<1> QED BY <1>1, <1>2, <1>3, Inductive, PTL DEF Spec, LedgerImplemented, Book!Spec, Book!lvars
===============================================================================
