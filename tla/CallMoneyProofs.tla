---------------------------- MODULE CallMoneyProofs ----------------------------
(***************************************************************************)
(* What a call leaves behind, for every set of calls, DIDs and customers:  *)
(* nothing in Redis once its /cdr is answered, and on the balance at most  *)
(* one charge per POST, to the right customer, and not none.               *)
(***************************************************************************)
EXTENDS CallPlaneProofs

-----------------------------------------------------------------------------
(* What a step of a request is: the paths of the two handlers *)

\* The order's customer, or nobody.
Home(c) == routing[DidOf[c]].user
StatusOf(c) == routing[DidOf[c]].status

\* An authorize request that was q becomes r.
AuthFlow(c, q, r) ==
    \/ r.pc = "gone"
    \/ q.pc = "decide" /\ r.pc = "deny"
    \/ /\ q.pc = "decide" /\ r.pc = "write_denial" /\ r.user \in {NoUser, Home(c)}
       /\ StatusOf(c) # "reserved"
    \/ q.pc = "decide" /\ r.pc = "write_shell" /\ r.user = NoUser /\ StatusOf(c) = "reserved"
    \/ q.pc = "decide" /\ r.pc = "reserve" /\ r.user = Home(c) /\ StatusOf(c) = "active"
    \/ q.pc = "write_shell" /\ r.pc = "register" /\ r.user = q.user
    \/ q.pc = "write_denial" /\ r.pc = "deny"
    \/ q.pc = "reserve" /\ r.pc \in {"register", "write_denial"} /\ r.user = q.user
    \/ q.pc = "register" /\ r.pc \in {"allow", "deny"} /\ r.user = q.user

\* A request that moves on is the one it was, further on, or gone.
LEMMA AuthMoved ==
    ASSUME TypeOK, NEW c \in Calls, NEW n \in Attempts,
           NEW pc \in {"register", "write_denial", "allow", "deny"}, AuthMoves(c, n, pc)
    PROVE  \E r \in AuthReq : /\ auth' = [auth EXCEPT ![c][n] = r]
                              /\ r.pc = "gone" \/ (r.pc = pc /\ r.user = auth[c][n].user)
<1>1. auth[c][n] \in AuthReq
    BY DEF TypeOK
<1>2. CASE AuthAwaited(c, n)
    <2>1. PICK r : r = [auth[c][n] EXCEPT !.pc = pc]
        OBVIOUS
    <2>2. auth' = [auth EXCEPT ![c][n] = r]
        BY <1>2, <2>1 DEF AuthMoves
    <2>3. r \in AuthReq /\ r.pc = pc /\ r.user = auth[c][n].user
        BY <1>1, <2>1 DEF AuthReq
    <2> QED BY <2>2, <2>3
<1>3. CASE ~AuthAwaited(c, n)
    <2>1. auth' = [auth EXCEPT ![c][n] = GoneAuth]
        BY <1>3 DEF AuthMoves
    <2> QED BY <2>1, RequestTypes DEF GoneAuth, NoAuth
<1> QED BY <1>2, <1>3

\* A step of /sipctl/authorize is a step along AuthFlow of one request.  It puts its own
\* call into the sets and the index, the row of a call it does not connect into cdrs, and
\* changes nothing else.
LEMMA AuthorizeEffect ==
    ASSUME TypeOK, NEW c \in Calls, NEW n \in Attempts, AuthorizeStep(c, n)
    PROVE  /\ UNCHANGED <<routing, balance, ledger, astVars, cdr>>
           /\ auth[c][n].pc \in {"decide", "write_shell", "write_denial", "reserve", "register"}
           /\ \E r \in AuthReq :
                /\ auth' = [auth EXCEPT ![c][n] = r]
                /\ r.pc # "idle" /\ AuthFlow(c, auth[c][n], r)
                /\ live' = live \/ (live' = [live EXCEPT ![Sanitize[c]] = c] /\ r.pc \in {"allow", "gone"})
           /\ \A d \in Dids, e \in Calls \ {c} : e \in actDid'[d] <=> e \in actDid[d]
           /\ \/ cdrs' = cdrs
              \/ auth[c][n].pc \in {"write_shell", "write_denial"} /\ ShellCdr(c, auth[c][n].user)
<1> USE DEF pgVars, redisVars, astVars
<1>1. DidOf[c] \in Dids /\ actDid \in [Dids -> SUBSET Calls]
    BY SipCtlAssumption DEF TypeOK
<1>2. ASSUME auth' = [auth EXCEPT ![c][n] = GoneAuth]
      PROVE  \E r \in AuthReq : /\ auth' = [auth EXCEPT ![c][n] = r]
                                /\ r.pc = "gone" /\ AuthFlow(c, auth[c][n], r)
    BY <1>2, RequestTypes DEF GoneAuth, NoAuth, AuthFlow
<1>3. CASE DecideRefuse(c, n)
    BY <1>3, AuthMoved DEF DecideRefuse, Decides, AuthFlow
<1>4. CASE DecideDeny(c, n)
    <2> DEFINE u == IF StatusOf(c) \in {"available", "suspended"} THEN NoUser ELSE Home(c)
    <2>1. PICK r : r = [pc |-> "write_denial", user |-> u]
        OBVIOUS
    <2>2. r \in AuthReq /\ r.pc = "write_denial" /\ r.user \in {NoUser, Home(c)}
        BY <1>1, <2>1 DEF AuthReq, Maybe, Home, TypeOK, Route
    <2>3. auth' = [auth EXCEPT ![c][n] = r]
        BY <1>4, <2>1 DEF DecideDeny, Home, StatusOf
    <2>4. StatusOf(c) # "reserved" /\ auth[c][n].pc = "decide"
        BY <1>4 DEF DecideDeny, Decides, StatusOf
    <2>5. AuthFlow(c, auth[c][n], r)
        BY <2>2, <2>4 DEF AuthFlow
    <2> QED BY <1>4, <2>2, <2>3, <2>4, <2>5 DEF DecideDeny
<1>5. CASE DecideReserved(c, n)
    <2>1. PICK r : r = [pc |-> "write_shell", user |-> NoUser]
        OBVIOUS
    <2>2. r \in AuthReq /\ r.pc = "write_shell" /\ r.user = NoUser
        BY <2>1 DEF AuthReq, Maybe
    <2>3. AuthFlow(c, auth[c][n], r) /\ auth[c][n].pc = "decide"
        BY <1>5, <2>2 DEF DecideReserved, Decides, AuthFlow, StatusOf
    <2> QED BY <1>5, <2>1, <2>2, <2>3 DEF DecideReserved
<1>6. CASE DecideAdmit(c, n)
    <2>1. PICK r : r = [pc |-> "reserve", user |-> Home(c)]
        OBVIOUS
    <2>2. r \in AuthReq /\ r.pc = "reserve" /\ r.user = Home(c)
        BY <1>1, <2>1 DEF AuthReq, Home, TypeOK, Route
    <2>3. AuthFlow(c, auth[c][n], r) /\ auth[c][n].pc = "decide"
        BY <1>6, <2>2 DEF DecideAdmit, Decides, AuthFlow, StatusOf
    <2> QED BY <1>6, <2>1, <2>2, <2>3 DEF DecideAdmit, Home
<1>7. CASE WriteShell(c, n)
    BY <1>7, AuthMoved DEF WriteShell, AuthFlow
<1>8. CASE Reserve(c, n)
    <2>1. \A d \in Dids, e \in Calls \ {c} : e \in actDid'[d] <=> e \in actDid[d]
        BY <1>1, <1>8 DEF Reserve
    <2> QED BY <1>8, <2>1, AuthMoved DEF Reserve, AuthFlow
<1>9. CASE ReserveDenied(c, n)
    BY <1>9, AuthMoved DEF ReserveDenied, AuthFlow
<1>10. CASE PickFails(c, n)
    BY <1>10, AuthMoved DEF PickFails, AuthFlow
<1>11. CASE Register(c, n)
    BY <1>11, AuthMoved DEF Register, AuthFlow
<1>12. CASE DropAuth(c, n)
    BY <1>2, <1>12 DEF DropAuth
<1> QED BY <1>3, <1>4, <1>5, <1>6, <1>7, <1>8, <1>9, <1>10, <1>11, <1>12 DEF AuthorizeStep

\* A /cdr request that was q becomes r.
CdrFlow(c, q, r) ==
    \/ r.pc = "gone"
    \/ q.pc = "lookup" /\ r.pc = "tx" /\ r.user \in BillableUsers(c) /\ r.status = "ok"
    \/ q.pc = "lookup" /\ r.pc = "release" /\ (r.status = "ok" => BillableUsers(c) = {})
    \/ q.pc = "tx" /\ r.pc = "release" /\ r.status = "error"
    \/ /\ \/ q.pc = "tx" /\ r.pc = "release"
          \/ q.pc = "release" /\ r.pc = "deregister"
          \/ q.pc = "deregister" /\ r.pc = "reply"
       /\ r.user = q.user /\ r.status = q.status

\* A /cdr request that moves on is the one it was, further on, or gone.
LEMMA CdrMoved ==
    ASSUME TypeOK, NEW c \in Calls, NEW n \in Attempts,
           NEW pc \in {"release", "deregister", "reply"}, CdrMoves(c, n, pc)
    PROVE  \E r \in CdrReq :
              /\ cdr' = [cdr EXCEPT ![c][n] = r]
              /\ \/ r.pc = "gone"
                 \/ r.pc = pc /\ r.user = cdr[c][n].user /\ r.status = cdr[c][n].status
<1>1. cdr[c][n] \in CdrReq
    BY DEF TypeOK
<1>2. CASE CdrAwaited(c, n)
    <2>1. PICK r : r = [cdr[c][n] EXCEPT !.pc = pc]
        OBVIOUS
    <2>2. cdr' = [cdr EXCEPT ![c][n] = r]
        BY <1>2, <2>1 DEF CdrMoves
    <2>3. r \in CdrReq /\ r.pc = pc /\ r.user = cdr[c][n].user /\ r.status = cdr[c][n].status
        BY <1>1, <2>1 DEF CdrReq
    <2> QED BY <2>2, <2>3
<1>3. CASE ~CdrAwaited(c, n)
    <2>1. cdr' = [cdr EXCEPT ![c][n] = GoneCdr]
        BY <1>3 DEF CdrMoves
    <2> QED BY <2>1, RequestTypes DEF GoneCdr, NewCdr
<1> QED BY <1>2, <1>3

\* What a /cdr request that leaves q for r does to the sets and the index: one on its way
\* to "deregister" has taken the call out of the sets, one on its way to "reply" has taken
\* its row out of the index too.
CleansUp(c, q, r) ==
    /\ \A d \in Dids : actDid'[d] \subseteq actDid[d]
    /\ \A k \in Keys : live'[k] \in {live[k], NoCall}
    /\ q.pc = "release" /\ r.pc = "deregister" => c \notin actDid'[DidOf[c]]
    /\ q.pc = "deregister" /\ r.pc = "reply" => live'[Sanitize[c]] = NoCall

\* What it does to the money and the CDR row: only the transaction pays, and only it makes
\* the row; what else touches the row is the label.
Books(c, n) ==
    \/ UNCHANGED <<balance, ledger, cdrs>>
    \/ CdrCommit(c, n)
    \/ /\ UNCHANGED <<balance, ledger>> /\ cdr[c][n].pc = "lookup"
       /\ \E label \in Label : cdrs' = [cdrs EXCEPT ![Sanitize[c]] = Labelled(@, label)]

\* A step of /sipctl/cdr is a step along CdrFlow of one request, with what that does to
\* the sets, the index and the books.
LEMMA CdrEffect ==
    ASSUME TypeOK, NEW c \in Calls, NEW n \in Attempts, CdrStep(c, n)
    PROVE  /\ UNCHANGED <<routing, astVars, auth>>
           /\ cdr[c][n].pc \in {"lookup", "tx", "release", "deregister"}
           /\ Books(c, n)
           /\ \E r \in CdrReq :
                /\ cdr' = [cdr EXCEPT ![c][n] = r]
                /\ CdrFlow(c, cdr[c][n], r) /\ CleansUp(c, cdr[c][n], r)
                /\ CdrCommit(c, n) => r.pc \in {"release", "gone"}
                /\ cdr[c][n].pc = "tx" /\ r.pc = "release" /\ r.status # "error" => CdrCommit(c, n)
<1> USE DEF pgVars, redisVars, astVars
<1> DEFINE Fits(r) ==
        /\ r \in CdrReq
        /\ cdr' = [cdr EXCEPT ![c][n] = r]
        /\ CdrFlow(c, cdr[c][n], r) /\ CleansUp(c, cdr[c][n], r)
        /\ CdrCommit(c, n) => r.pc \in {"release", "gone"}
        /\ cdr[c][n].pc = "tx" /\ r.pc = "release" /\ r.status # "error" => CdrCommit(c, n)
<1> SUFFICES /\ UNCHANGED <<routing, astVars, auth>> /\ Books(c, n)
             /\ cdr[c][n].pc \in {"lookup", "tx", "release", "deregister"}
             /\ \E r : Fits(r)
    OBVIOUS
<1>1. /\ DidOf[c] \in Dids /\ actDid \in [Dids -> SUBSET Calls] /\ Sanitize[c] \in Keys
      /\ live \in [Keys -> Calls \cup {NoCall}] /\ cdr[c][n] \in CdrReq
    BY SipCtlAssumption, ReservationAssumption DEF TypeOK
<1>2. ASSUME UNCHANGED <<actDid, live>>, NEW r, r.pc \in {"gone", "tx", "release"}
      PROVE  CleansUp(c, cdr[c][n], r)
    BY <1>2 DEF CleansUp
<1>3. CASE CdrLookup(c, n)
    <2> DEFINE Found(u) == [pc |-> "tx", user |-> u, status |-> "ok", label |-> PopLabel(Sanitize[c])]
    <2>0. PICK u \in BillableUsers(c) : cdr' = [cdr EXCEPT ![c][n] = Found(u)]
        BY <1>3 DEF CdrLookup
    <2> PICK r : r = Found(u)
        OBVIOUS
    <2>1. /\ r = [pc |-> "tx", user |-> u, status |-> "ok", label |-> PopLabel(Sanitize[c])]
          /\ cdr' = [cdr EXCEPT ![c][n] = r]
        BY <2>0
    <2> HIDE DEF Found
    <2>2. /\ r \in CdrReq /\ r.pc = "tx" /\ r.user = u /\ r.status = "ok"
          /\ cdr[c][n].pc = "lookup"
        BY <1>3, <2>1 DEF CdrLookup, CdrLooksUp, BillableUsers, CdrReq, Maybe, Label, PopLabel
    <2>3. CdrFlow(c, cdr[c][n], r) /\ ~CdrCommit(c, n)
        BY <2>1, <2>2 DEF CdrFlow, CdrCommit
    <2>4. Fits(r)
        BY <1>2, <2>1, <2>2, <2>3, <1>3 DEF CdrLookup
    <2>5. UNCHANGED <<routing, astVars, auth>> /\ Books(c, n)
                /\ cdr[c][n].pc \in {"lookup", "tx", "release", "deregister"}
        BY <1>3, <2>1, <2>2, <2>3 DEF CdrLookup, Books
    <2> HIDE DEF Fits
    <2> QED BY <2>4, <2>5
<1>4. CASE CdrNoOrder(c, n)
    <2>1. PICK r \in CdrReq : /\ cdr' = [cdr EXCEPT ![c][n] = r]
                              /\ \/ r.pc = "gone"
                                 \/ r.pc = "release"
        BY <1>4, CdrMoved DEF CdrNoOrder
    <2>2. cdr[c][n].pc = "lookup" /\ BillableUsers(c) = {} /\ UNCHANGED <<balance, ledger, live, actDid>>
        BY <1>4 DEF CdrNoOrder, CdrLooksUp
    <2>3. CdrFlow(c, cdr[c][n], r) /\ ~CdrCommit(c, n)
        BY <2>1, <2>2 DEF CdrFlow, CdrCommit
    <2>4. PopLabel(Sanitize[c]) \in Label
        BY DEF PopLabel, Label
    <2>5. Books(c, n)
        BY <1>4, <2>2, <2>4 DEF CdrNoOrder, Books
    <2>6. Fits(r)
        BY <1>2, <2>1, <2>2, <2>3, <2>5, <1>4 DEF CdrNoOrder
    <2>7. UNCHANGED <<routing, astVars, auth>> /\ Books(c, n)
                /\ cdr[c][n].pc \in {"lookup", "tx", "release", "deregister"}
        BY <1>4, <2>1, <2>2, <2>3, <2>5 DEF CdrNoOrder, Books
    <2> HIDE DEF Fits
    <2> QED BY <2>6, <2>7
<1>5. CASE CdrLookupFails(c, n)
    <2>1. PICK r : r = [cdr[c][n] EXCEPT !.pc = "release", !.status = "no_match"]
        OBVIOUS
    <2>2. cdr' = [cdr EXCEPT ![c][n] = r] /\ cdr[c][n].pc = "lookup"
        BY <1>5, <2>1 DEF CdrLookupFails, CdrLooksUp
    <2>3. r \in CdrReq /\ r.pc = "release" /\ r.status = "no_match"
        BY <1>1, <2>1 DEF CdrReq
    <2>4. CdrFlow(c, cdr[c][n], r) /\ ~CdrCommit(c, n)
        BY <2>2, <2>3 DEF CdrFlow, CdrCommit
    <2>5. Fits(r)
        BY <1>2, <2>2, <2>3, <2>4, <1>5 DEF CdrLookupFails
    <2>6. UNCHANGED <<routing, astVars, auth>> /\ Books(c, n)
                /\ cdr[c][n].pc \in {"lookup", "tx", "release", "deregister"}
        BY <1>5, <2>2, <2>3, <2>4 DEF CdrLookupFails, Books
    <2> HIDE DEF Fits
    <2> QED BY <2>5, <2>6
<1>6. CASE CdrCommit(c, n)
    <2>1. PICK r \in CdrReq : /\ cdr' = [cdr EXCEPT ![c][n] = r]
                              /\ \/ r.pc = "gone"
                                 \/ r.pc = "release" /\ r.user = cdr[c][n].user /\ r.status = cdr[c][n].status
        BY <1>6, CdrMoved DEF CdrCommit
    <2>2. cdr[c][n].pc = "tx" /\ UNCHANGED <<live, actDid, routing, astVars, auth>>
        BY <1>6 DEF CdrCommit
    <2>3. CdrFlow(c, cdr[c][n], r)
        BY <2>1, <2>2 DEF CdrFlow
    <2>4. Fits(r)
        BY <1>2, <2>1, <2>2, <2>3, <1>6 DEF CdrCommit
    <2>5. UNCHANGED <<routing, astVars, auth>> /\ Books(c, n)
                /\ cdr[c][n].pc \in {"lookup", "tx", "release", "deregister"}
        BY <1>6, <2>1, <2>2, <2>3 DEF CdrCommit, Books
    <2> HIDE DEF Fits
    <2> QED BY <2>4, <2>5
<1>7. CASE CdrTxFails(c, n)
    <2>1. PICK r : r = [cdr[c][n] EXCEPT !.pc = "release", !.status = "error"]
        OBVIOUS
    <2>2. cdr' = [cdr EXCEPT ![c][n] = r] /\ cdr[c][n].pc = "tx"
        BY <1>7, <2>1 DEF CdrTxFails
    <2>3. r \in CdrReq /\ r.pc = "release" /\ r.status = "error"
        BY <1>1, <2>1 DEF CdrReq
    <2>4. CdrFlow(c, cdr[c][n], r)
        BY <2>2, <2>3 DEF CdrFlow
    <2>5. Fits(r)
        BY <1>2, <2>2, <2>3, <2>4, <1>7 DEF CdrTxFails
    <2>6. UNCHANGED <<routing, astVars, auth>> /\ Books(c, n)
                /\ cdr[c][n].pc \in {"lookup", "tx", "release", "deregister"}
        BY <1>7, <2>2, <2>3, <2>4 DEF CdrTxFails, Books
    <2> HIDE DEF Fits
    <2> QED BY <2>5, <2>6
<1>8. CASE CdrRelease(c, n)
    <2>1. PICK r \in CdrReq : /\ cdr' = [cdr EXCEPT ![c][n] = r]
                              /\ \/ r.pc = "gone"
                                 \/ r.pc = "deregister" /\ r.user = cdr[c][n].user /\ r.status = cdr[c][n].status
        BY <1>8, CdrMoved DEF CdrRelease
    <2>2. cdr[c][n].pc = "release" /\ live' = live /\ \A d \in Dids : actDid'[d] = actDid[d] \ {c}
        BY <1>1, <1>8 DEF CdrRelease, Without
    <2>3. CdrFlow(c, cdr[c][n], r) /\ CleansUp(c, cdr[c][n], r) /\ ~CdrCommit(c, n)
        BY <1>1, <2>1, <2>2 DEF CdrFlow, CleansUp, CdrCommit
    <2>4. Fits(r)
        BY <1>2, <2>1, <2>2, <2>3, <1>8 DEF CdrRelease
    <2>5. UNCHANGED <<routing, astVars, auth>> /\ Books(c, n)
                /\ cdr[c][n].pc \in {"lookup", "tx", "release", "deregister"}
        BY <1>8, <2>1, <2>2, <2>3 DEF CdrRelease, Books
    <2> HIDE DEF Fits
    <2> QED BY <2>4, <2>5
<1>9. CASE CdrDeregister(c, n)
    <2>1. PICK r \in CdrReq : /\ cdr' = [cdr EXCEPT ![c][n] = r]
                              /\ \/ r.pc = "gone"
                                 \/ r.pc = "reply" /\ r.user = cdr[c][n].user /\ r.status = cdr[c][n].status
        BY <1>9, CdrMoved DEF CdrDeregister
    <2>2. cdr[c][n].pc = "deregister" /\ live' = [live EXCEPT ![Sanitize[c]] = NoCall] /\ actDid' = actDid
        BY <1>9 DEF CdrDeregister
    <2>3. CdrFlow(c, cdr[c][n], r) /\ CleansUp(c, cdr[c][n], r) /\ ~CdrCommit(c, n)
        BY <1>1, <2>1, <2>2 DEF CdrFlow, CleansUp, CdrCommit
    <2>4. Fits(r)
        BY <1>2, <2>1, <2>2, <2>3, <1>9 DEF CdrDeregister
    <2>5. UNCHANGED <<routing, astVars, auth>> /\ Books(c, n)
                /\ cdr[c][n].pc \in {"lookup", "tx", "release", "deregister"}
        BY <1>9, <2>1, <2>2, <2>3 DEF CdrDeregister, Books
    <2> HIDE DEF Fits
    <2> QED BY <2>4, <2>5
<1>10. CASE DropCdr(c, n)
    <2>1. PICK r : r = GoneCdr
        OBVIOUS
    <2>2. cdr' = [cdr EXCEPT ![c][n] = r] /\ r \in CdrReq /\ r.pc = "gone"
        BY <1>10, <2>1, RequestTypes DEF DropCdr, GoneCdr, NewCdr
    <2>3. CdrFlow(c, cdr[c][n], r)
        BY <2>2 DEF CdrFlow
    <2>4. Fits(r)
        BY <1>2, <2>2, <2>3, <1>10 DEF DropCdr
    <2>5. UNCHANGED <<routing, astVars, auth>> /\ Books(c, n)
                /\ cdr[c][n].pc \in {"lookup", "tx", "release", "deregister"}
        BY <1>10, <2>2, <2>3 DEF DropCdr, Books
    <2> HIDE DEF Fits
    <2> QED BY <2>4, <2>5
<1> QED BY <1>3, <1>4, <1>5, <1>6, <1>7, <1>8, <1>9, <1>10 DEF CdrStep

-----------------------------------------------------------------------------
(* What happens to a call: the steps of Asterisk, the scripts and an administrator *)

\* Nothing of a call changes that only its end changes.
BeforeEnd(c) == bill'[c] = bill[c] /\ acked'[c] = acked[c] /\ cdr'[c] = cdr[c]

\* The connections of a call are closed: its authorize requests run on unread or are gone.
Closed(c) ==
    \A n \in Attempts :
        /\ auth'[c][n] = auth[c][n] \/ auth'[c][n].pc = "gone"
        /\ auth[c][n].pc \in {"allow", "deny"} => auth'[c][n].pc = "gone"

Starts(c) ==
    /\ chan[c] = "idle" /\ chan'[c] = "agi" /\ att'[c] = 1
    /\ auth'[c][1].pc = "decide" /\ \A n \in Attempts \ {1} : auth'[c][n] = auth[c][n]
    /\ leg'[c] = leg[c] /\ BeforeEnd(c)
Retries(c) ==
    /\ chan[c] = "agi" /\ chan'[c] = "agi"
    /\ att'[c] = att[c] + 1 /\ att'[c] \in Attempts
    /\ \A n \in Attempts :
        IF n = att'[c] THEN auth'[c][n].pc = "decide"
                       ELSE auth'[c][n] = auth[c][n] \/ auth'[c][n].pc = "gone"
    /\ leg'[c] = leg[c] /\ BeforeEnd(c)
Answered(c) ==
    /\ chan[c] = "agi" /\ chan'[c] = "talking" /\ att'[c] = att[c]
    /\ auth[c][att[c]].pc = "allow" /\ auth'[c][att[c]].pc = "gone"
    /\ \A n \in Attempts \ {att[c]} : auth'[c][n] = auth[c][n]
    /\ leg'[c].kind = IF auth[c][att[c]].user = NoUser THEN "reserved" ELSE "order"
    /\ leg'[c].user = auth[c][att[c]].user
    /\ BeforeEnd(c)
Redirected(c) ==
    /\ chan[c] = "agi" /\ chan'[c] = "talking" /\ att'[c] = att[c]
    /\ admin.pc = "opened" /\ admin.call = c
    /\ Closed(c) /\ leg'[c].kind = "redirected" /\ BeforeEnd(c)
Lost(c) ==
    /\ chan[c] \in {"agi", "talking"} /\ chan'[c] = "over" /\ att'[c] = att[c]
    /\ Closed(c) /\ leg'[c] = leg[c] /\ BeforeEnd(c)
Ended(c) ==
    /\ chan[c] \in {"agi", "talking"} /\ chan'[c] = "teardown" /\ att'[c] = 1
    /\ cdr'[c][1] = NewCdr /\ \A n \in Attempts \ {1} : cdr'[c][n] = cdr[c][n]
    /\ bill'[c] \in Nat /\ (chan[c] = "agi" => bill'[c] = 0) /\ acked'[c] = acked[c]
    /\ \A n \in Attempts : auth'[c][n] = auth[c][n] \/ auth'[c][n].pc = "gone"
    /\ \/ leg'[c] = leg[c]
       \/ chan[c] = "agi" /\ leg'[c].kind = "denied" /\ auth'[c][att[c]].pc = "gone"

\* After the end only dids-cdr.py's attempts are left.
Told(c) == leg'[c] = leg[c] /\ bill'[c] = bill[c] /\ auth'[c] = auth[c] /\ chan[c] = "teardown"
\* An answer is read, or closed unread.
ReplyGone(c) ==
    /\ cdr'[c][att[c]] = cdr[c][att[c]] \/ (cdr[c][att[c]].pc = "reply" /\ cdr'[c][att[c]].pc = "gone")
    /\ \A n \in Attempts : n < att[c] => cdr'[c][n] = cdr[c][n]
CdrTaken(c) ==
    /\ Told(c) /\ ReplyGone(c) /\ chan'[c] = "over" /\ att'[c] = att[c]
    /\ \A n \in Attempts : n > att[c] => cdr'[c][n] = cdr[c][n]
    /\ cdr[c][att[c]].pc = "reply" /\ acked'[c] = cdr[c][att[c]].status
CdrRetried(c) ==
    /\ Told(c) /\ ReplyGone(c) /\ chan'[c] = "teardown" /\ acked'[c] = acked[c]
    /\ att'[c] = att[c] + 1 /\ att'[c] \in Attempts /\ cdr'[c][att'[c]] = NewCdr
    /\ \A n \in Attempts : n > att'[c] => cdr'[c][n] = cdr[c][n]
CdrLeft(c) ==
    /\ Told(c) /\ ReplyGone(c) /\ chan'[c] = "over" /\ att'[c] = att[c] /\ acked'[c] = acked[c]
    /\ \A n \in Attempts : n > att[c] => cdr'[c][n] = cdr[c][n]

CallStep(c) ==
    /\ UNCHANGED <<routing, pgVars, redisVars>>
    /\ \A e \in Calls \ {c} :
        /\ chan'[e] = chan[e] /\ leg'[e] = leg[e] /\ bill'[e] = bill[e] /\ att'[e] = att[e]
        /\ acked'[e] = acked[e] /\ auth'[e] = auth[e] /\ cdr'[e] = cdr[e]
    /\ \/ Starts(c) \/ Retries(c) \/ Answered(c) \/ Redirected(c) \/ Lost(c) \/ Ended(c)
       \/ CdrTaken(c) \/ CdrRetried(c) \/ CdrLeft(c)

\* Closing the connections of a call closes them, and only its own.
LEMMA AbandonCloses ==
    ASSUME TypeOK, NEW c \in Calls, AbandonAuth(c)
    PROVE  Closed(c) /\ \A e \in Calls \ {c} : auth'[e] = auth[e]
<1>1. auth \in [Calls -> [Attempts -> AuthReq]]
    BY DEF TypeOK
<1>2. auth'[c] = [n \in Attempts |-> Abandoned(auth[c][n])] /\ \A e \in Calls \ {c} : auth'[e] = auth[e]
    BY <1>1 DEF AbandonAuth
<1>3. GoneAuth.pc = "gone"
    BY DEF GoneAuth, NoAuth
<1> QED BY <1>2, <1>3 DEF Closed, Abandoned

\* What the hangup handler sets up, for its own call only.
LEMMA TeardownSets ==
    ASSUME TypeOK, NEW c \in Calls, NEW b \in Nat, BeginTeardown(c, b)
    PROVE  /\ \A e \in Calls \ {c} : /\ chan'[e] = chan[e] /\ bill'[e] = bill[e]
                                      /\ att'[e] = att[e] /\ cdr'[e] = cdr[e]
           /\ chan'[c] = "teardown" /\ bill'[c] = b /\ att'[c] = 1
           /\ cdr'[c][1] = NewCdr /\ \A n \in Attempts \ {1} : cdr'[c][n] = cdr[c][n]
<1>1. /\ cdr \in [Calls -> [Attempts -> CdrReq]] /\ att \in [Calls -> Attempts] /\ bill \in [Calls -> Nat]
      /\ chan \in [Calls -> {"idle", "agi", "talking", "teardown", "over"}]
    BY DEF TypeOK
<1>2. /\ chan' = [chan EXCEPT ![c] = "teardown"] /\ bill' = [bill EXCEPT ![c] = b]
      /\ att' = [att EXCEPT ![c] = 1] /\ cdr' = [cdr EXCEPT ![c][1] = NewCdr]
    BY DEF BeginTeardown
<1>3. chan'[c] = "teardown" /\ bill'[c] = b /\ att'[c] = 1
    BY <1>1, <1>2
<1>4. \A n \in Attempts : cdr'[c][n] = IF n = 1 THEN NewCdr ELSE cdr[c][n]
    BY <1>1, <1>2
<1>5. \A e \in Calls \ {c} : /\ chan'[e] = chan[e] /\ bill'[e] = bill[e]
                              /\ att'[e] = att[e] /\ cdr'[e] = cdr[e]
    BY <1>1, <1>2
<1>6. 1 \in Attempts
    BY DEF Attempts
<1> QED BY <1>3, <1>4, <1>5, <1>6

\* The end of a call, with its connections closed or not, is an Ended of it.
LEMMA TeardownEnds ==
    ASSUME TypeOK, NEW c \in Calls, NEW b \in Nat, BeginTeardown(c, b),
           chan[c] \in {"agi", "talking"}, chan[c] = "agi" => b = 0,
           AbandonAuth(c) \/ auth' = auth,
           UNCHANGED <<routing, pgVars, redisVars, leg, acked>>
    PROVE  CallStep(c)
<1>1. /\ \A e \in Calls \ {c} : chan'[e] = chan[e] /\ bill'[e] = bill[e] /\ att'[e] = att[e] /\ cdr'[e] = cdr[e]
      /\ chan'[c] = "teardown" /\ bill'[c] = b /\ att'[c] = 1
      /\ cdr'[c][1] = NewCdr /\ \A n \in Attempts \ {1} : cdr'[c][n] = cdr[c][n]
    BY TeardownSets
<1>2. /\ \A e \in Calls \ {c} : auth'[e] = auth[e]
      /\ \A n \in Attempts : auth'[c][n] = auth[c][n] \/ auth'[c][n].pc = "gone"
    BY AbandonCloses DEF Closed
<1>3. Ended(c)
    BY <1>1, <1>2 DEF Ended
<1> QED BY <1>1, <1>2, <1>3 DEF CallStep

\* What Asterisk and the scripts do to a call is a CallStep of it.
LEMMA AsteriskEffect ==
    ASSUME TypeOK, NEW c \in Calls, AsteriskStep(c)
    PROVE  CallStep(c)
<1> USE DEF BeforeEnd, Attempts
<1>1. /\ auth \in [Calls -> [Attempts -> AuthReq]] /\ cdr \in [Calls -> [Attempts -> CdrReq]]
      /\ chan \in [Calls -> {"idle", "agi", "talking", "teardown", "over"}]
      /\ leg \in [Calls -> Leg] /\ att \in [Calls -> Attempts] /\ bill \in [Calls -> Nat]
      /\ acked \in [Calls -> {"none", "ok", "no_match"}]
    BY DEF TypeOK
<1>2. GoneAuth.pc = "gone" /\ [NoAuth EXCEPT !.pc = "decide"].pc = "decide" /\ GoneCdr.pc = "gone"
    BY DEF GoneAuth, NoAuth, GoneCdr, NewCdr
<1>3. CASE Invite(c)
    <2>1. \A n \in Attempts : auth'[c][n] = IF n = 1 THEN [auth[c][n] EXCEPT !.pc = "decide"] ELSE auth[c][n]
        BY <1>1, <1>3 DEF Invite
    <2>2. auth'[c][1].pc = "decide"
        <3>1. auth'[c][1] = [auth[c][1] EXCEPT !.pc = "decide"] /\ auth[c][1] \in AuthReq
            BY <1>1, <2>1, 1 \in Attempts
        <3> QED BY <3>1 DEF AuthReq
    <2>3. Starts(c)
        BY <1>1, <1>3, <2>1, <2>2 DEF Invite, Starts
    <2> QED BY <1>1, <1>3, <2>3 DEF Invite, CallStep
<1>4. CASE AuthRetry(c)
    <2>1. att'[c] = att[c] + 1 /\ att'[c] \in Attempts
        <3>1. att[c] \in Attempts /\ AuthAttempts[c] \in Attempts /\ att[c] < AuthAttempts[c]
            BY <1>1, <1>4, SipCtlAssumption DEF AuthRetry
        <3> QED BY <1>1, <1>4, <3>1 DEF AuthRetry
    <2>2. auth'[c] = [n \in Attempts |-> IF n = att[c] + 1 THEN [NoAuth EXCEPT !.pc = "decide"]
                                                           ELSE Abandoned(auth[c][n])]
        BY <1>1, <1>4 DEF AuthRetry
    <2>3. Retries(c)
        BY <1>1, <1>2, <1>4, <2>1, <2>2 DEF AuthRetry, Retries, Abandoned
    <2> QED BY <1>1, <1>4, <2>3 DEF AuthRetry, CallStep
<1>5. CASE AuthGivesUp(c)
    BY <1>5, TeardownEnds DEF AuthGivesUp
<1>6. CASE AuthAnswered(c)
    <2>1. /\ chan[c] = "agi" /\ UNCHANGED <<routing, pgVars, redisVars, acked>>
          /\ auth' = [auth EXCEPT ![c][att[c]] = GoneAuth]
        BY <1>6 DEF AuthAnswered
    <2>2. /\ auth'[c][att[c]].pc = "gone" /\ \A n \in Attempts \ {att[c]} : auth'[c][n] = auth[c][n]
          /\ \A e \in Calls \ {c} : auth'[e] = auth[e]
        BY <1>1, <1>2, <2>1
    <2>3. CASE auth[c][att[c]].pc = "allow"
        <3> DEFINE l == [kind |-> IF auth[c][att[c]].user = NoUser THEN "reserved" ELSE "order",
                         user |-> auth[c][att[c]].user]
        <3>1. chan' = [chan EXCEPT ![c] = "talking"] /\ leg' = [leg EXCEPT ![c] = l] /\ UNCHANGED <<bill, att, cdr>>
            BY <1>6, <2>3 DEF AuthAnswered
        <3>2. leg'[c] = l /\ \A e \in Calls \ {c} : leg'[e] = leg[e]
            <4> HIDE DEF l
            <4> QED BY <1>1, <3>1
        <3>3. Answered(c)
            BY <1>1, <2>1, <2>2, <2>3, <3>1, <3>2 DEF Answered
        <3> QED BY <1>1, <2>1, <2>2, <3>1, <3>2, <3>3 DEF CallStep
    <2>4. CASE auth[c][att[c]].pc = "deny"
        <3>1. BeginTeardown(c, 0) /\ leg' = [leg EXCEPT ![c].kind = "denied"]
            BY <1>6, <2>4 DEF AuthAnswered
        <3>2. leg'[c].kind = "denied" /\ \A e \in Calls \ {c} : leg'[e] = leg[e]
            BY <1>1, <3>1 DEF Leg
        <3>3. /\ \A e \in Calls \ {c} : chan'[e] = chan[e] /\ bill'[e] = bill[e] /\ att'[e] = att[e] /\ cdr'[e] = cdr[e]
              /\ chan'[c] = "teardown" /\ bill'[c] = 0 /\ att'[c] = 1
              /\ cdr'[c][1] = NewCdr /\ \A n \in Attempts \ {1} : cdr'[c][n] = cdr[c][n]
            BY <3>1, TeardownSets
        <3>4. Ended(c)
            BY <2>1, <2>2, <3>2, <3>3 DEF Ended
        <3> QED BY <2>1, <2>2, <3>2, <3>3, <3>4 DEF CallStep
    <2> QED BY <1>6, <2>3, <2>4 DEF AuthAnswered
<1>7. CASE Hangup(c)
    BY <1>7, TeardownEnds, SipCtlAssumption DEF Hangup
<1>8. CASE ChannelLost(c)
    <2>1. Lost(c)
        BY <1>1, <1>8, AbandonCloses DEF ChannelLost, Lost
    <2> QED BY <1>1, <1>8, <2>1, AbandonCloses DEF ChannelLost, CallStep
<1>9. CASE CdrAnswered(c)
    <2>1. /\ cdr'[c][att[c]].pc = "gone" /\ \A n \in Attempts \ {att[c]} : cdr'[c][n] = cdr[c][n]
          /\ \A e \in Calls \ {c} : cdr'[e] = cdr[e]
        BY <1>1, <1>2, <1>9 DEF CdrAnswered
    <2>2. CdrTaken(c)
        <3>1. att[c] \in Attempts /\ cdr[c][att[c]].pc = "reply" /\ chan[c] = "teardown"
            BY <1>1, <1>9 DEF CdrAnswered
        <3>2. acked'[c] = cdr[c][att[c]].status /\ chan'[c] = "over"
            BY <1>1, <1>9 DEF CdrAnswered
        <3>3. leg' = leg /\ bill' = bill /\ att' = att /\ auth' = auth
            BY <1>9 DEF CdrAnswered
        <3> QED BY <2>1, <3>1, <3>2, <3>3 DEF CdrTaken, Told, ReplyGone
    <2> QED BY <1>1, <1>9, <2>1, <2>2 DEF CdrAnswered, CallStep
<1>10. CASE CdrAttemptFails(c)
    <2>1. Unread(cdr[c][att[c]]) = cdr[c][att[c]]
          \/ (cdr[c][att[c]].pc = "reply" /\ Unread(cdr[c][att[c]]).pc = "gone")
        BY <1>2 DEF Unread
    <2>2. /\ chan[c] = "teardown" /\ att[c] \in Attempts /\ CdrAttempts[c] \in Attempts
          /\ UNCHANGED <<routing, pgVars, redisVars, leg, bill, acked, auth>>
        BY <1>1, <1>10, SipCtlAssumption DEF CdrAttemptFails
    <2>3. CASE /\ att[c] < CdrAttempts[c] /\ att' = [att EXCEPT ![c] = @ + 1] /\ chan' = chan
               /\ cdr' = [cdr EXCEPT ![c][att[c]] = Unread(@), ![c][att[c] + 1] = NewCdr]
        <3>1. att'[c] = att[c] + 1 /\ att'[c] \in Attempts
            BY <1>1, <2>2, <2>3
        <3>2. /\ \A n \in Attempts : cdr'[c][n] = IF n = att[c] + 1 THEN NewCdr
                                                  ELSE IF n = att[c] THEN Unread(cdr[c][n])
                                                  ELSE cdr[c][n]
              /\ \A e \in Calls \ {c} : cdr'[e] = cdr[e]
            BY <1>1, <2>3
        <3>3. ReplyGone(c)
            BY <2>1, <2>2, <3>2 DEF ReplyGone
        <3>4. /\ cdr'[c][att'[c]] = NewCdr
              /\ \A n \in Attempts : n > att'[c] => cdr'[c][n] = cdr[c][n]
            BY <2>2, <3>1, <3>2
        <3>5. CdrRetried(c)
            BY <2>2, <2>3, <3>1, <3>3, <3>4 DEF CdrRetried, Told
        <3>6. \A e \in Calls \ {c} : att'[e] = att[e]
            BY <1>1, <2>3
        <3> QED BY <2>2, <2>3, <3>2, <3>5, <3>6 DEF CallStep
    <2>4. CASE /\ chan' = [chan EXCEPT ![c] = "over"] /\ att' = att
               /\ cdr' = [cdr EXCEPT ![c][att[c]] = Unread(@)]
        <3>1. /\ \A n \in Attempts : cdr'[c][n] = IF n = att[c] THEN Unread(cdr[c][n]) ELSE cdr[c][n]
              /\ \A e \in Calls \ {c} : cdr'[e] = cdr[e]
            BY <1>1, <2>4
        <3>2. /\ ReplyGone(c)
              /\ \A n \in Attempts : n > att[c] => cdr'[c][n] = cdr[c][n]
            BY <2>1, <2>2, <3>1 DEF ReplyGone
        <3>3. chan'[c] = "over" /\ \A e \in Calls \ {c} : chan'[e] = chan[e]
            BY <1>1, <2>4
        <3>4. CdrLeft(c)
            BY <2>2, <2>4, <3>2, <3>3 DEF CdrLeft, Told
        <3> QED BY <2>2, <2>4, <3>1, <3>3, <3>4 DEF CallStep
    <2> QED BY <1>10, <2>3, <2>4 DEF CdrAttemptFails
<1> QED BY <1>3, <1>4, <1>5, <1>6, <1>7, <1>8, <1>9, <1>10 DEF AsteriskStep

-----------------------------------------------------------------------------
(* What a step of the call plane is *)

\* While no order changes, the routing is what it was.
OrdersKept == changes' = 0 => changes = 0 /\ routing' = routing

\* The administrator opens a call only off the index.
AdminSees ==
    admin'.pc # "idle" => \/ admin.pc # "idle" /\ admin'.call = admin.call
                          \/ live[Sanitize[admin'.call]] = admin'.call

\* A step that is no call's and no request's: it touches the sets and the index, and them
\* only to take out of them.
Outside ==
    /\ UNCHANGED <<pgVars, astVars, auth, cdr>>
    /\ \A d \in Dids : actDid'[d] \subseteq actDid[d]
    /\ \A k \in Keys : live'[k] \in {live[k], NoCall}

\* An administrator's step is a CallStep of one call, or Outside.
LEMMA AdminEffect ==
    ASSUME PlaneTypeOK, AdminStep
    PROVE  /\ changes' = changes /\ routing' = routing /\ AdminSees
           /\ Outside \/ \E c \in Calls : CallStep(c)
<1> USE DEF sipVars, pgVars, redisVars, astVars
<1>1. /\ auth \in [Calls -> [Attempts -> AuthReq]] /\ cdr \in [Calls -> [Attempts -> CdrReq]]
      /\ chan \in [Calls -> {"idle", "agi", "talking", "teardown", "over"}]
      /\ leg \in [Calls -> Leg] /\ TypeOK /\ live \in [Keys -> Calls \cup {NoCall}]
    BY DEF PlaneTypeOK, TypeOK
<1>2. /\ admin.pc # "idle" => admin.call \in Calls
      /\ \A pc : [admin EXCEPT !.pc = pc].call = admin.call
      /\ NoAdmin.pc = "idle"
    BY DEF PlaneTypeOK, AdminState, NoAdmin
<1>3. CASE AdminHangup
    <2>1. PICK c \in Calls : c = admin.call
        BY <1>2, <1>3 DEF AdminHangup
    <2>2. changes' = changes /\ routing' = routing /\ AdminSees
        BY <1>2, <1>3 DEF AdminHangup, AdminSees
    <2>3. CASE chan[c] \in {"agi", "talking"}
        <3>1. PICK b \in Nat : BeginTeardown(c, b) /\ (chan[c] = "agi" => b = 0)
            BY <1>3, <2>1, <2>3, SipCtlAssumption DEF AdminHangup
        <3>2. AbandonAuth(c) /\ UNCHANGED <<routing, pgVars, redisVars, leg, acked>>
            BY <1>3, <2>1, <2>3 DEF AdminHangup
        <3>3. CallStep(c)
            BY <1>1, <2>3, <3>1, <3>2, TeardownEnds
        <3> QED BY <2>2, <3>3
    <2>4. CASE chan[c] \notin {"agi", "talking"}
        BY <1>3, <2>1, <2>2, <2>4 DEF AdminHangup, Outside
    <2> QED BY <2>3, <2>4
<1>4. CASE AdminRedirect
    <2>1. PICK c \in Calls : c = admin.call
        BY <1>2, <1>4 DEF AdminRedirect
    <2>2. changes' = changes /\ routing' = routing /\ AdminSees
        BY <1>2, <1>4 DEF AdminRedirect, AdminSees
    <2>3. CASE chan[c] = "agi"
        <3>1. /\ chan' = [chan EXCEPT ![c] = "talking"] /\ leg' = [leg EXCEPT ![c].kind = "redirected"]
              /\ AbandonAuth(c) /\ UNCHANGED <<routing, pgVars, redisVars, bill, att, acked, cdr>>
              /\ admin.pc = "opened"
            BY <1>4, <2>1, <2>3 DEF AdminRedirect
        <3>2. /\ leg'[c].kind = "redirected" /\ \A e \in Calls \ {c} : leg'[e] = leg[e]
              /\ chan'[c] = "talking" /\ \A e \in Calls \ {c} : chan'[e] = chan[e]
            BY <1>1, <3>1 DEF Leg
        <3>3. Redirected(c)
            BY <1>1, <2>1, <2>3, <3>1, <3>2, AbandonCloses DEF Redirected, BeforeEnd
        <3>4. CallStep(c)
            BY <1>1, <3>1, <3>2, <3>3, AbandonCloses DEF CallStep
        <3> QED BY <2>2, <3>4
    <2>4. CASE chan[c] # "agi"
        BY <1>4, <2>1, <2>2, <2>4 DEF AdminRedirect, Outside
    <2> QED BY <2>3, <2>4
<1>5. CASE AdminMark
    BY <1>2, <1>5 DEF AdminMark, Outside, AdminSees
<1>6. CASE AdminDeregister
    BY <1>1, <1>2, <1>6 DEF AdminDeregister, Outside, AdminSees
<1>7. CASE AdminGivesUp
    BY <1>2, <1>7 DEF AdminGivesUp, Outside, AdminSees
<1>8. ASSUME NEW c \in Calls, AdminOpen(c)
      PROVE  changes' = changes /\ routing' = routing /\ AdminSees /\ Outside
    BY <1>8 DEF AdminOpen, Outside, AdminSees
<1> QED BY <1>3, <1>4, <1>5, <1>6, <1>7, <1>8 DEF AdminStep

\* A sweep is Outside.
LEMMA SweepEffect ==
    ASSUME PlaneTypeOK, SweepStep
    PROVE  changes' = changes /\ routing' = routing /\ admin' = admin /\ Outside
<1> USE DEF sipVars, pgVars, redisVars, astVars
<1>1. live \in [Keys -> Calls \cup {NoCall}] /\ actDid \in [Dids -> SUBSET Calls]
    BY DEF PlaneTypeOK, TypeOK
<1>2. CASE ReconcilerSnapshot \/ ForceCleanupSnapshot \/ ForceCleanupCut
           \/ \E s \in Sweepers : SweepList(s)
    BY <1>2 DEF ReconcilerSnapshot, ForceCleanupSnapshot, ForceCleanupCut, Snapshot, SweepList, Outside
<1>3. ASSUME NEW s \in Sweepers, SweepDeregister(s)
      PROVE  changes' = changes /\ routing' = routing /\ admin' = admin /\ Outside
    BY <1>1, <1>3 DEF SweepDeregister, Outside
<1>4. ASSUME NEW s \in Sweepers, SweepRelease(s)
      PROVE  changes' = changes /\ routing' = routing /\ admin' = admin /\ Outside
    BY <1>1, <1>4 DEF SweepRelease, Without, Outside
<1> QED BY <1>2, <1>3, <1>4 DEF SweepStep

\* A step of the call plane is one of a request, of a call, or Outside.
LEMMA StepCases ==
    ASSUME ChannelInv, [Next]_vars
    PROVE  /\ OrdersKept /\ AdminSees
           /\ \/ \E c \in Calls, n \in Attempts : AuthorizeStep(c, n)
              \/ \E c \in Calls, n \in Attempts : CdrStep(c, n)
              \/ \E c \in Calls : CallStep(c)
              \/ Outside
<1> USE DEF sipVars, redisVars
<1>1. PlaneTypeOK /\ TypeOK /\ Owners
    BY DEF ChannelInv, PlaneTypeOK
<1>2. CASE SipNext /\ UNCHANGED planeVars
    <2>1. PICK c \in Calls : \/ AsteriskStep(c)
                             \/ \E n \in Attempts : AuthorizeStep(c, n) \/ CdrStep(c, n)
        BY <1>2 DEF SipNext
    <2>2. routing' = routing
        BY <1>1, <2>1, AsteriskEffect, AuthorizeEffect, CdrEffect DEF CallStep
    <2> QED BY <1>1, <1>2, <2>1, <2>2, AsteriskEffect DEF planeVars, OrdersKept, AdminSees
<1>3. CASE SweepStep
    BY <1>1, <1>3, SweepEffect DEF OrdersKept, AdminSees
<1>4. CASE AdminStep
    BY <1>1, <1>4, AdminEffect DEF OrdersKept
<1>5. CASE OrderStep
    <2>1. changes' = changes + 1 /\ UNCHANGED <<pgVars, redisVars, astVars, auth, cdr, admin>>
        BY <1>1, <1>5, OrderReroutes DEF Reroute
    <2>2. changes \in Nat
        BY <1>1, CallPlaneAssumption DEF PlaneTypeOK
    <2> QED BY <2>1, <2>2 DEF OrdersKept, AdminSees, Outside
<1>6. CASE UNCHANGED vars
    BY <1>6 DEF vars, OrdersKept, AdminSees, Outside
<1> QED BY <1>2, <1>3, <1>4, <1>5, <1>6 DEF Next

-----------------------------------------------------------------------------
(* The invariant behind CleanAfterAck *)

\* A call has no answer to its /cdr before its end, no leg before it is answered, and an
\* awaited authorize request while dids-authorize.py runs.
InOrder(c) ==
    /\ chan[c] \in {"idle", "agi", "talking"} => acked[c] = "none"
    /\ chan[c] \in {"idle", "agi"} => leg[c].kind = "none"
    /\ chan[c] = "agi" => auth[c][att[c]].pc # "idle"

\* Who sees the call in the index sees it after its only attempt got through.
ListedLate(c) ==
    OneAttempt(c) /\ (live[Sanitize[c]] = c \/ (admin.pc # "idle" /\ admin.call = c))
        => auth[c][1].pc \in {"allow", "gone"}

\* Once the call has a leg its only attempt is over, so what a /cdr request has taken out
\* of the sets or the index stays out.
StaysOut(c) ==
    OneAttempt(c) /\ leg[c].kind # "none" =>
        /\ auth[c][1].pc = "gone"
        /\ \A n \in Attempts :
            /\ cdr[c][n].pc \in {"deregister", "reply"} => c \notin actDid[DidOf[c]]
            /\ cdr[c][n].pc = "reply" => live[Sanitize[c]] # c

CleanInv ==
    /\ \A c \in Calls : InOrder(c) /\ ListedLate(c) /\ StaysOut(c)
    /\ CleanAfterAck

\* A call posted to authorize once was so before the step; the step of its request is the
\* step of its only one.
LEMMA OneAttemptBack ==
    ASSUME TypeOK,
           \/ UNCHANGED auth
           \/ \E c \in Calls : CallStep(c)
           \/ \E c \in Calls, n \in Attempts, r \in AuthReq :
                  r.pc # "idle" /\ auth' = [auth EXCEPT ![c][n] = r],
           NEW e \in Calls, OneAttempt(e)'
    PROVE  OneAttempt(e)
<1>1. auth \in [Calls -> [Attempts -> AuthReq]] /\ att[e] \in Attempts
    BY DEF TypeOK
<1>2. ASSUME NEW c \in Calls, CallStep(c), c = e
      PROVE  OneAttempt(e)
    <2>1. \A n \in Attempts : auth'[c][n] = auth[c][n] \/ auth'[c][n].pc # "idle"
        BY <1>1, <1>2 DEF CallStep, Starts, Retries, Answered, Redirected, Lost, Ended,
                          CdrTaken, CdrRetried, CdrLeft, Told, Closed
    <2> QED BY <1>2, <2>1 DEF OneAttempt
<1>3. ASSUME NEW c \in Calls, CallStep(c), c # e
      PROVE  OneAttempt(e)
    BY <1>3 DEF CallStep, OneAttempt
<1>4. ASSUME NEW c \in Calls, NEW n \in Attempts, NEW r \in AuthReq,
             r.pc # "idle", auth' = [auth EXCEPT ![c][n] = r]
      PROVE  OneAttempt(e)
    <2>1. \A m \in Attempts : auth'[e][m] = auth[e][m] \/ auth'[e][m].pc # "idle"
        BY <1>1, <1>4
    <2> QED BY <2>1 DEF OneAttempt
<1> QED BY <1>2, <1>3, <1>4 DEF OneAttempt

\* A late step of /sipctl/authorize puts nothing back: the only attempt of a call with a
\* leg is over.
LEMMA AuthorizeClean ==
    ASSUME ChannelInv, CleanInv, AdminSees, NEW c \in Calls, NEW n \in Attempts, AuthorizeStep(c, n)
    PROVE  CleanInv'
<1>1. TypeOK /\ auth \in [Calls -> [Attempts -> AuthReq]] /\ live \in [Keys -> Calls \cup {NoCall}]
      /\ Sanitize \in [Calls -> Keys] /\ DidOf \in [Calls -> Dids]
    BY ReservationAssumption, SipCtlAssumption DEF ChannelInv, PlaneTypeOK, TypeOK
<1>2. /\ UNCHANGED <<chan, leg, bill, att, acked, cdr>>
      /\ auth[c][n].pc \in {"decide", "write_shell", "write_denial", "reserve", "register"}
      /\ \A d \in Dids, e \in Calls \ {c} : e \in actDid'[d] <=> e \in actDid[d]
    BY <1>1, AuthorizeEffect DEF astVars
<1>3. PICK r \in AuthReq :
              /\ auth' = [auth EXCEPT ![c][n] = r] /\ r.pc # "idle"
              /\ live' = live \/ (live' = [live EXCEPT ![Sanitize[c]] = c] /\ r.pc \in {"allow", "gone"})
    BY <1>1, AuthorizeEffect
<1>4. \A e \in Calls, m \in Attempts : auth'[e][m] = IF e = c /\ m = n THEN r ELSE auth[e][m]
    BY <1>1, <1>3
<1>5. \A e \in Calls : OneAttempt(e)' => OneAttempt(e)
    BY <1>1, <1>3, OneAttemptBack
<1>6. OneAttempt(c)' => n = 1 /\ 1 \in Attempts
    BY <1>3, <1>4 DEF OneAttempt, Attempts
<1>7. OneAttempt(c)' => leg[c].kind = "none" /\ live[Sanitize[c]] # c /\ ~(admin.pc # "idle" /\ admin.call = c)
    BY <1>2, <1>5, <1>6 DEF CleanInv, ListedLate, StaysOut
<1>8. \A e \in Calls \ {c} : live'[Sanitize[e]] = e => live[Sanitize[e]] = e
    BY <1>1, <1>3
<1>9. ASSUME NEW e \in Calls
      PROVE  InOrder(e)' /\ ListedLate(e)' /\ StaysOut(e)'
    <2>1. InOrder(e)'
        BY <1>2, <1>3, <1>4 DEF CleanInv, InOrder
    <2>2. CASE e = c
        <3>1. ListedLate(c)'
            BY <1>3, <1>4, <1>6, <1>7 DEF ListedLate, AdminSees
        <3>2. StaysOut(c)'
            BY <1>2, <1>7 DEF StaysOut
        <3> QED BY <2>1, <2>2, <3>1, <3>2
    <2>3. CASE e # c
        <3>1. ListedLate(e)'
            BY <1>4, <1>5, <1>8, <2>3 DEF CleanInv, ListedLate, AdminSees, Attempts
        <3>2. StaysOut(e)'
            BY <1>1, <1>2, <1>4, <1>5, <1>8, <2>3 DEF CleanInv, StaysOut, Attempts
        <3> QED BY <2>1, <3>1, <3>2
    <2> QED BY <2>2, <2>3
<1>10. ASSUME NEW e \in Calls, acked'[e] # "none", leg'[e].kind # "none", OneAttempt(e)'
       PROVE  e \notin actDid'[DidOf[e]] /\ live'[Sanitize[e]] # e
    <2>1. e # c
        BY <1>2, <1>7, <1>10
    <2> QED BY <1>1, <1>2, <1>5, <1>8, <1>10, <2>1 DEF CleanInv, CleanAfterAck
<1> QED BY <1>9, <1>10 DEF CleanInv, CleanAfterAck

\* The deferred clean-up of a /cdr request takes the call out before it is answered.
LEMMA CdrClean ==
    ASSUME ChannelInv, CleanInv, AdminSees, NEW c \in Calls, NEW n \in Attempts, CdrStep(c, n)
    PROVE  CleanInv'
<1>1. TypeOK /\ cdr \in [Calls -> [Attempts -> CdrReq]]
      /\ Sanitize \in [Calls -> Keys] /\ DidOf \in [Calls -> Dids] /\ NoCall \notin Calls
    BY ReservationAssumption, SipCtlAssumption DEF ChannelInv, PlaneTypeOK, TypeOK
<1>2. UNCHANGED <<chan, leg, bill, att, acked, auth>>
    BY <1>1, CdrEffect DEF astVars
<1>3. PICK r \in CdrReq :
              /\ cdr' = [cdr EXCEPT ![c][n] = r]
              /\ CdrFlow(c, cdr[c][n], r) /\ CleansUp(c, cdr[c][n], r)
    BY <1>1, CdrEffect
<1>4. \A e \in Calls, m \in Attempts : cdr'[e][m] = IF e = c /\ m = n THEN r ELSE cdr[e][m]
    BY <1>1, <1>3
<1>5. \A e \in Calls : /\ e \in actDid'[DidOf[e]] => e \in actDid[DidOf[e]]
                       /\ live'[Sanitize[e]] = e => live[Sanitize[e]] = e
                       /\ OneAttempt(e)' <=> OneAttempt(e)
    BY <1>1, <1>2, <1>3 DEF CleansUp, OneAttempt
<1>6. ASSUME NEW e \in Calls
      PROVE  InOrder(e)' /\ ListedLate(e)' /\ StaysOut(e)'
    <2>1. InOrder(e)' /\ ListedLate(e)'
        BY <1>2, <1>5 DEF CleanInv, InOrder, ListedLate, AdminSees
    <2>2. ASSUME OneAttempt(e), leg[e].kind # "none", NEW m \in Attempts
          PROVE  /\ cdr'[e][m].pc \in {"deregister", "reply"} => e \notin actDid'[DidOf[e]]
                 /\ cdr'[e][m].pc = "reply" => live'[Sanitize[e]] # e
        <3>1. /\ cdr[e][m].pc \in {"deregister", "reply"} => e \notin actDid[DidOf[e]]
              /\ cdr[e][m].pc = "reply" => live[Sanitize[e]] # e
            BY <2>2 DEF CleanInv, StaysOut
        <3>2. CASE e = c /\ m = n
            <4>1. r.pc = "deregister" => cdr[c][n].pc = "release"
                BY <1>3 DEF CdrFlow
            <4>2. r.pc = "reply" => cdr[c][n].pc = "deregister"
                BY <1>3 DEF CdrFlow
            <4> QED BY <1>1, <1>3, <1>4, <1>5, <3>1, <3>2, <4>1, <4>2 DEF CleansUp
        <3>3. CASE ~(e = c /\ m = n)
            BY <1>4, <1>5, <3>1, <3>3
        <3> QED BY <3>2, <3>3
    <2>3. StaysOut(e)'
        BY <1>2, <1>5, <2>2 DEF CleanInv, StaysOut
    <2> QED BY <2>1, <2>3
<1>7. CleanAfterAck'
    BY <1>2, <1>5 DEF CleanInv, CleanAfterAck
<1> QED BY <1>6, <1>7 DEF CleanInv

\* A call gets its leg, and its answer, in the order its requests went through.
LEMMA CallClean ==
    ASSUME ChannelInv, CleanInv, AdminSees, NEW c \in Calls, CallStep(c)
    PROVE  CleanInv'
<1>1. TypeOK /\ att \in [Calls -> Attempts] /\ NewCdr.pc = "lookup" /\ 1 \in Attempts /\ Attempts \subseteq Nat
    BY DEF ChannelInv, PlaneTypeOK, TypeOK, NewCdr, Attempts
<1>2. UNCHANGED <<actDid, live>>
    BY DEF CallStep, redisVars
<1>3. \A e \in Calls : OneAttempt(e)' => OneAttempt(e)
    BY <1>1, OneAttemptBack
<1>4. /\ \A n \in Attempts : chan[c] = "idle" => auth[c][n].pc = "idle"
      /\ \A n \in Attempts : chan[c] \in {"idle", "agi", "talking"} => cdr[c][n].pc = "idle"
    BY DEF ChannelInv, Quiet
<1>5. InOrder(c) /\ ListedLate(c) /\ StaysOut(c)
    BY DEF CleanInv
<1>6. OneAttempt(c) /\ chan[c] = "agi" => att[c] = 1
    <2>1. chan[c] = "agi" => auth[c][att[c]].pc # "idle"
        BY <1>5 DEF InOrder
    <2> QED BY <1>1, <2>1 DEF OneAttempt, Attempts
<1>7. ASSUME NEW e \in Calls \ {c}
       PROVE  /\ InOrder(e)' /\ ListedLate(e)' /\ StaysOut(e)'
              /\ acked'[e] # "none" /\ leg'[e].kind # "none" /\ OneAttempt(e)'
                    => e \notin actDid'[DidOf[e]] /\ live'[Sanitize[e]] # e
    <2>1. /\ chan'[e] = chan[e] /\ leg'[e] = leg[e] /\ att'[e] = att[e] /\ acked'[e] = acked[e]
          /\ auth'[e] = auth[e] /\ cdr'[e] = cdr[e]
        BY DEF CallStep
    <2> QED BY <1>2, <1>3, <2>1 DEF CleanInv, CleanAfterAck, InOrder, ListedLate, StaysOut, AdminSees
<1> DEFINE Good ==
        /\ InOrder(c)' /\ ListedLate(c)' /\ StaysOut(c)'
        /\ acked'[c] # "none" /\ leg'[c].kind # "none" /\ OneAttempt(c)'
              => c \notin actDid'[DidOf[c]] /\ live'[Sanitize[c]] # c
<1> SUFFICES Good
    BY <1>7 DEF CleanInv, CleanAfterAck
<1>8. CASE Starts(c)
    BY <1>1, <1>2, <1>3, <1>4, <1>5, <1>8 DEF Starts, BeforeEnd, InOrder, ListedLate, StaysOut, AdminSees
<1>9. CASE Retries(c)
    <2>1. ~OneAttempt(c)'
        BY <1>1, <1>9 DEF Retries, OneAttempt, Attempts
    <2> QED BY <1>5, <1>9, <2>1 DEF Retries, BeforeEnd, InOrder, ListedLate, StaysOut
<1>10. CASE Answered(c)
    <2>1. InOrder(c)'
        BY <1>5, <1>10 DEF Answered, BeforeEnd, InOrder
    <2>2. OneAttempt(c)' => auth'[c][1].pc = "gone"
        BY <1>3, <1>6, <1>10 DEF Answered
    <2>3. acked'[c] = "none" /\ \A n \in Attempts : cdr'[c][n].pc = "idle"
        BY <1>4, <1>5, <1>10 DEF Answered, BeforeEnd, InOrder
    <2> QED BY <2>1, <2>2, <2>3 DEF ListedLate, StaysOut
<1>11. CASE Redirected(c)
    <2>1. InOrder(c)'
        BY <1>5, <1>11 DEF Redirected, BeforeEnd, InOrder
    <2>2. OneAttempt(c)' => auth'[c][1].pc = "gone"
        BY <1>1, <1>3, <1>5, <1>11 DEF Redirected, ListedLate, Closed
    <2>3. acked'[c] = "none" /\ \A n \in Attempts : cdr'[c][n].pc = "idle"
        BY <1>4, <1>5, <1>11 DEF Redirected, BeforeEnd, InOrder
    <2> QED BY <2>1, <2>2, <2>3 DEF ListedLate, StaysOut
<1>12. CASE Lost(c)
    BY <1>1, <1>2, <1>3, <1>5, <1>12 DEF Lost, Closed, BeforeEnd, InOrder, ListedLate, StaysOut, AdminSees
<1>13. CASE Ended(c)
    <2>1. acked'[c] = "none" /\ InOrder(c)'
        BY <1>5, <1>13 DEF Ended, InOrder
    <2>2. \A n \in Attempts : cdr'[c][n].pc \in {"idle", "lookup"}
        BY <1>1, <1>4, <1>13 DEF Ended
    <2>3. ListedLate(c)'
        BY <1>1, <1>2, <1>3, <1>5, <1>13 DEF Ended, ListedLate, AdminSees
    <2>4. OneAttempt(c)' /\ leg'[c].kind # "none" => auth'[c][1].pc = "gone"
        BY <1>1, <1>3, <1>5, <1>6, <1>13 DEF Ended, StaysOut
    <2> QED BY <2>1, <2>2, <2>3, <2>4 DEF StaysOut
<1>14. ASSUME Told(c), ReplyGone(c) 
       PROVE  /\ ListedLate(c)'
              /\ acked'[c] = acked[c] /\ leg'[c].kind # "none" /\ OneAttempt(c)' /\ acked'[c] # "none"
                  => c \notin actDid'[DidOf[c]] /\ live'[Sanitize[c]] # c
    BY <1>2, <1>3, <1>5, <1>14 DEF Told, ListedLate, AdminSees, CleanInv, CleanAfterAck
<1>15. CASE CdrTaken(c)
    <2>1. \A n \in Attempts : cdr'[c][n] = cdr[c][n] \/ cdr'[c][n].pc = "gone"
        BY <1>1, <1>15 DEF CdrTaken, ReplyGone, Attempts
    <2>2. InOrder(c)' /\ StaysOut(c)'
        BY <1>2, <1>3, <1>5, <1>15, <2>1 DEF CdrTaken, Told, InOrder, StaysOut
    <2>3. OneAttempt(c)' /\ leg'[c].kind # "none" => c \notin actDid'[DidOf[c]] /\ live'[Sanitize[c]] # c
        BY <1>1, <1>2, <1>3, <1>5, <1>15 DEF CdrTaken, Told, StaysOut
    <2> QED BY <1>14, <1>15, <2>2, <2>3 DEF CdrTaken
<1>16. CASE CdrRetried(c) \/ CdrLeft(c)
    <2>1. \A n \in Attempts : cdr'[c][n] = cdr[c][n] \/ cdr'[c][n].pc \in {"gone", "lookup"}
        BY <1>1, <1>16 DEF CdrRetried, CdrLeft, ReplyGone, Attempts
    <2>2. InOrder(c)' /\ StaysOut(c)'
        BY <1>2, <1>3, <1>5, <1>16, <2>1 DEF CdrRetried, CdrLeft, Told, InOrder, StaysOut
    <2> QED BY <1>14, <1>16, <2>2 DEF CdrRetried, CdrLeft
<1> QED BY <1>8, <1>9, <1>10, <1>11, <1>12, <1>13, <1>15, <1>16 DEF CallStep

\* What sweeps and administrators do besides only takes out of the sets and the index.
LEMMA OutsideClean ==
    ASSUME ChannelInv, CleanInv, AdminSees, Outside
    PROVE  CleanInv'
<1>1. \A e \in Calls : /\ e \in actDid'[DidOf[e]] => e \in actDid[DidOf[e]]
                       /\ live'[Sanitize[e]] = e => live[Sanitize[e]] = e
                       /\ OneAttempt(e)' <=> OneAttempt(e)
    BY ReservationAssumption, SipCtlAssumption DEF Outside, OneAttempt
<1>2. UNCHANGED <<chan, leg, att, acked, auth, cdr>>
    BY DEF Outside, astVars
<1> QED BY <1>1, <1>2 DEF CleanInv, CleanAfterAck, InOrder, ListedLate, StaysOut, AdminSees

\* Every step of the call plane keeps the invariant.
LEMMA NextClean ==
    ASSUME ChannelInv, CleanInv, [Next]_vars
    PROVE  CleanInv'
BY StepCases, AuthorizeClean, CdrClean, CallClean, OutsideClean

\* A call admitted at the first attempt whose /cdr was answered holds no channel and has no
\* row in the index, however late the other commands of its requests land.
THEOREM AcksAreClean == Spec => []CleanAfterAck
<1>1. Init => CleanInv
    BY SipCtlAssumption, ReservationAssumption
       DEF Init, SipInit, CleanInv, CleanAfterAck, InOrder, ListedLate, StaysOut, NoAdmin
<1>2. ChannelInv /\ CleanInv /\ [Next]_vars => CleanInv'
    BY NextClean
<1>3. CleanInv => CleanAfterAck
    BY DEF CleanInv
<1> QED BY <1>1, <1>2, <1>3, Inductive, PTL DEF Spec

-----------------------------------------------------------------------------
(* The invariant behind OneChargePerPost *)

\* The POSTs for calls of key k that are past their transaction.
PastTx(k) == {p \in Calls \X Attempts :
                 Sanitize[p[1]] = k /\ cdr[p[1]][p[2]].pc \notin {"idle", "lookup", "tx"}}

\* Each charge is a POST's that is past its transaction, and the POST to come is none that
\* was made before.
ChargeInv ==
    /\ \A k \in Keys : Cardinality(ChargesTo(k)) <= Cardinality(PastTx(k))
    /\ \A c \in Calls, n \in Attempts : chan[c] = "teardown" /\ n > att[c] => cdr[c][n].pc = "idle"

\* A POST that is past its transaction is so for good.
NoneComesBack == \A k \in Keys : PastTx(k) \subseteq PastTx(k)'

\* There are finitely many POSTs.
LEMMA PostsFinite ==
    ASSUME NEW S, S \subseteq Calls \X Attempts
    PROVE  IsFiniteSet(S) /\ Cardinality(S) \in Nat
<1>1. 1 \in Int /\ 3 \in Int
    OBVIOUS
<1>2. IsFiniteSet(Attempts)
    BY <1>1, FS_Interval DEF Attempts
<1>3. IsFiniteSet(Calls \X Attempts)
    BY <1>2, FS_Product, ReservationAssumption
<1> QED BY <1>3, FS_Subset, FS_CardinalityType

\* There are finitely many charges, and POSTs past their transaction before and after.
LEMMA Countable ==
    ASSUME TypeOK, NEW k \in Keys
    PROVE  /\ IsFiniteSet(ChargesTo(k)) /\ Cardinality(ChargesTo(k)) \in Nat
           /\ IsFiniteSet(PastTx(k)) /\ Cardinality(PastTx(k)) \in Nat
           /\ IsFiniteSet(PastTx(k)') /\ Cardinality(PastTx(k)') \in Nat
<1>1. Len(ledger) \in Int /\ 1 \in Int
    BY DEF TypeOK
<1>2. IsFiniteSet(1..Len(ledger))
    BY <1>1, FS_Interval
<1>3. ChargesTo(k) \subseteq 1..Len(ledger)
    BY DEF ChargesTo
<1>4. PastTx(k) \subseteq Calls \X Attempts /\ PastTx(k)' \subseteq Calls \X Attempts
    BY DEF PastTx
<1>5. IsFiniteSet(ChargesTo(k)) /\ Cardinality(ChargesTo(k)) \in Nat
    BY <1>2, <1>3, FS_Subset, FS_CardinalityType
<1> QED BY <1>4, <1>5, PostsFinite

\* A posting to the ledger adds one line, to one key.
LEMMA PostAdds ==
    ASSUME TypeOK, NEW row \in LedgerRow, ledger' = Append(ledger, row), NEW k \in Keys
    PROVE  /\ ChargesTo(k)' = IF row.ref = k THEN ChargesTo(k) \cup {Len(ledger) + 1} ELSE ChargesTo(k)
           /\ Len(ledger) + 1 \notin ChargesTo(k)
           /\ ledger'[Len(ledger) + 1] = row
           /\ \A i \in ChargesTo(k) : ledger'[i] = ledger[i]
<1>1. ledger \in Seq(LedgerRow) /\ Len(ledger) \in Nat
    BY DEF TypeOK
<1>2. /\ Len(ledger') = Len(ledger) + 1 /\ ledger'[Len(ledger) + 1] = row
      /\ \A i \in 1..Len(ledger) : ledger'[i] = ledger[i]
    BY <1>1
<1>3. \A i : i \in 1..Len(ledger') <=> i \in 1..Len(ledger) \/ i = Len(ledger) + 1
    BY <1>1, <1>2
<1>4. \A i : i \in ChargesTo(k)' <=> i \in ChargesTo(k) \/ (i = Len(ledger) + 1 /\ row.ref = k)
    BY <1>2, <1>3 DEF ChargesTo
<1>5. Len(ledger) + 1 \notin ChargesTo(k) /\ ChargesTo(k) \subseteq 1..Len(ledger)
    BY <1>1 DEF ChargesTo
<1> QED BY <1>2, <1>4, <1>5

\* Counting survives a step that adds no charge.
LEMMA CountKept ==
    ASSUME TypeOK, ChargeInv, NoneComesBack, UNCHANGED ledger, NEW k \in Keys
    PROVE  Cardinality(ChargesTo(k)') <= Cardinality(PastTx(k)')
<1>1. ChargesTo(k)' = ChargesTo(k)
    BY DEF ChargesTo
<1>2. IsFiniteSet(PastTx(k)') /\ Cardinality(PastTx(k)') \in Nat
    BY Countable
<1>3. Cardinality(PastTx(k)) <= Cardinality(PastTx(k)')
    BY <1>2, FS_Subset DEF NoneComesBack
<1>4. Cardinality(ChargesTo(k)) \in Nat /\ Cardinality(PastTx(k)) \in Nat
    BY Countable
<1> QED BY <1>1, <1>2, <1>3, <1>4 DEF ChargeInv

\* A transaction that charges is a POST more that is past its transaction.
LEMMA CountCharged ==
    ASSUME TypeOK, ChargeInv, NoneComesBack, NEW row \in LedgerRow,
           ledger' = Append(ledger, row), NEW p, p \in PastTx(row.ref)', p \notin PastTx(row.ref),
           NEW k \in Keys
    PROVE  Cardinality(ChargesTo(k)') <= Cardinality(PastTx(k)')
<1>1. /\ IsFiniteSet(PastTx(k)') /\ Cardinality(PastTx(k)') \in Nat
      /\ IsFiniteSet(PastTx(k)) /\ Cardinality(PastTx(k)) \in Nat
      /\ IsFiniteSet(ChargesTo(k)) /\ Cardinality(ChargesTo(k)) \in Nat
    BY Countable
<1>2. Cardinality(ChargesTo(k)) <= Cardinality(PastTx(k))
    BY DEF ChargeInv
<1>3. CASE row.ref = k
    <2>1. Cardinality(ChargesTo(k)') = Cardinality(ChargesTo(k)) + 1
        BY <1>1, <1>3, PostAdds, FS_AddElement
    <2>2. Cardinality(PastTx(k) \cup {p}) = Cardinality(PastTx(k)) + 1
        BY <1>1, <1>3, FS_AddElement
    <2>3. PastTx(k) \cup {p} \subseteq PastTx(k)'
        BY <1>3 DEF NoneComesBack
    <2>4. Cardinality(PastTx(k) \cup {p}) <= Cardinality(PastTx(k)')
        BY <1>1, <2>3, FS_Subset
    <2> QED BY <1>1, <1>2, <2>1, <2>2, <2>4
<1>4. CASE row.ref # k
    <2>1. ChargesTo(k)' = ChargesTo(k)
        BY <1>4, PostAdds
    <2>2. Cardinality(PastTx(k)) <= Cardinality(PastTx(k)')
        BY <1>1, FS_Subset DEF NoneComesBack
    <2> QED BY <1>1, <1>2, <2>1, <2>2
<1> QED BY <1>3, <1>4

\* A step of a /cdr request charges once at most, and then it is past its transaction.
LEMMA CdrCharge ==
    ASSUME ChannelInv, ChargeInv, NEW c \in Calls, NEW n \in Attempts, CdrStep(c, n)
    PROVE  ChargeInv'
<1>1. TypeOK /\ cdr \in [Calls -> [Attempts -> CdrReq]] /\ Sanitize[c] \in Keys
    BY ReservationAssumption DEF ChannelInv, PlaneTypeOK, TypeOK
<1>2. /\ UNCHANGED <<chan, att>> /\ Books(c, n)
      /\ cdr[c][n].pc \in {"lookup", "tx", "release", "deregister"}
    BY <1>1, CdrEffect DEF astVars
<1>3. PICK r \in CdrReq : /\ cdr' = [cdr EXCEPT ![c][n] = r] /\ CdrFlow(c, cdr[c][n], r)
                          /\ CdrCommit(c, n) => r.pc \in {"release", "gone"}
    BY <1>1, CdrEffect
<1>4. \A e \in Calls, m \in Attempts : cdr'[e][m] = IF e = c /\ m = n THEN r ELSE cdr[e][m]
    BY <1>1, <1>3
<1>5. NoneComesBack
    BY <1>2, <1>3, <1>4 DEF NoneComesBack, PastTx, CdrFlow
<1>6. ASSUME NEW e \in Calls, NEW m \in Attempts, chan'[e] = "teardown", m > att'[e]
      PROVE  cdr'[e][m].pc = "idle"
    <2>1. cdr[e][m].pc = "idle"
        BY <1>2, <1>6 DEF ChargeInv
    <2> QED BY <1>2, <1>4, <2>1
<1>7. ASSUME NEW k \in Keys
      PROVE  Cardinality(ChargesTo(k)') <= Cardinality(PastTx(k)')
    <2>1. CASE UNCHANGED ledger
        BY <1>1, <1>5, <2>1, CountKept
    <2>2. CASE CdrCommit(c, n) /\ bill[c] > 0
        <3>1. PICK row : row = [user |-> cdr[c][n].user, delta |-> -bill[c],
                                after |-> balance[cdr[c][n].user] - bill[c], ref |-> Sanitize[c]]
            OBVIOUS
        <3>2. ledger' = Append(ledger, row) /\ cdr[c][n].pc = "tx"
            BY <2>2, <3>1 DEF CdrCommit
        <3>3. cdr[c][n].user \in Users /\ bill[c] \in Nat /\ balance \in [Users -> Int]
            BY <3>2 DEF ChannelInv, PlaneTypeOK, TypeOK, Owners
        <3>4. row \in LedgerRow /\ row.ref = Sanitize[c]
            BY <1>1, <3>1, <3>3 DEF LedgerRow
        <3>5. <<c, n>> \notin PastTx(Sanitize[c])
            BY <3>2 DEF PastTx
        <3>6. <<c, n>> \in PastTx(Sanitize[c])'
            <4>1. cdr'[c][n].pc \in {"release", "gone"}
                BY <1>3, <1>4, <2>2
            <4> QED BY <4>1 DEF PastTx
        <3> QED BY <1>1, <1>5, <3>2, <3>4, <3>5, <3>6, CountCharged
    <2>3. CASE CdrCommit(c, n) /\ ~(bill[c] > 0)
        <3>1. UNCHANGED ledger
            BY <2>3 DEF CdrCommit
        <3> QED BY <1>1, <1>5, <3>1, CountKept
    <2> QED BY <1>2, <2>1, <2>2, <2>3 DEF Books
<1> QED BY <1>6, <1>7 DEF ChargeInv

\* The end of a call and the retries of dids-cdr.py start POSTs that were not made before.
LEMMA CallCharge ==
    ASSUME ChannelInv, ChargeInv, NEW c \in Calls, CallStep(c)
    PROVE  ChargeInv'
<1>1. TypeOK /\ att \in [Calls -> Attempts] /\ NewCdr.pc = "lookup" /\ UNCHANGED ledger
    BY DEF ChannelInv, PlaneTypeOK, TypeOK, NewCdr, CallStep, pgVars
<1>2. \A n \in Attempts : chan[c] \in {"idle", "agi", "talking"} => cdr[c][n].pc = "idle"
    BY DEF ChannelInv, Quiet
<1>3. \A n \in Attempts : chan[c] = "teardown" /\ n > att[c] => cdr[c][n].pc = "idle"
    BY DEF ChargeInv
<1>4. \A n \in Attempts :
        cdr[c][n].pc \notin {"idle", "lookup", "tx"} => cdr'[c][n].pc \notin {"idle", "lookup", "tx"}
    BY <1>1, <1>2, <1>3 DEF Attempts, CallStep, Starts, Retries, Answered, Redirected, Lost, BeforeEnd,
                            Ended, CdrTaken, CdrRetried, CdrLeft, Told, ReplyGone
<1>5. \A n \in Attempts : chan'[c] = "teardown" /\ n > att'[c] => cdr'[c][n].pc = "idle"
    <2>1. CASE Ended(c)
        BY <1>1, <1>2, <2>1 DEF Ended, Attempts
    <2>2. CASE CdrRetried(c)
        BY <1>1, <1>3, <2>2 DEF CdrRetried, Told, Attempts
    <2>3. CASE chan'[c] # "teardown"
        BY <2>3
    <2> QED BY <2>1, <2>2, <2>3 DEF CallStep, Starts, Retries, Answered, Redirected, Lost, CdrTaken, CdrLeft
<1>6. \A e \in Calls \ {c} : chan'[e] = chan[e] /\ att'[e] = att[e] /\ cdr'[e] = cdr[e]
    BY DEF CallStep
<1>7. NoneComesBack
    BY <1>4, <1>6 DEF NoneComesBack, PastTx
<1>8. \A k \in Keys : Cardinality(ChargesTo(k)') <= Cardinality(PastTx(k)')
    BY <1>1, <1>7, CountKept
<1> QED BY <1>3, <1>5, <1>6, <1>8 DEF ChargeInv

\* Every step of the call plane keeps the count.
LEMMA NextCharge ==
    ASSUME ChannelInv, ChargeInv, [Next]_vars
    PROVE  ChargeInv'
<1>1. TypeOK
    BY DEF ChannelInv, PlaneTypeOK
<1>2. ASSUME UNCHANGED <<ledger, chan, att, cdr>>
      PROVE  ChargeInv'
    <2>1. NoneComesBack
        BY <1>2 DEF NoneComesBack, PastTx
    <2>2. \A k \in Keys : Cardinality(ChargesTo(k)') <= Cardinality(PastTx(k)')
        BY <1>1, <1>2, <2>1, CountKept
    <2> QED BY <1>2, <2>2 DEF ChargeInv
<1>3. ASSUME NEW c \in Calls, NEW n \in Attempts, AuthorizeStep(c, n)
      PROVE  ChargeInv'
    BY <1>1, <1>2, <1>3, AuthorizeEffect DEF astVars
<1>4. CASE Outside
    BY <1>2, <1>4 DEF Outside, pgVars, astVars
<1> QED BY <1>3, <1>4, StepCases, CdrCharge, CallCharge

\* However the POSTs dids-cdr.py gave up on overlap with those after, none charges twice.
THEOREM OneChargeEach == Spec => []OneChargePerPost
<1>1. Init => ChargeInv
    <2> SUFFICES ASSUME Init PROVE ChargeInv
        OBVIOUS
    <2>1. ASSUME NEW k \in Keys
          PROVE  ChargesTo(k) = {} /\ PastTx(k) = {}
        BY DEF Init, SipInit, ChargesTo, PastTx, NoCdrReq, NewCdr
    <2>2. Cardinality({}) = 0
        BY FS_EmptySet
    <2>3. \A c \in Calls : chan[c] = "idle"
        BY DEF Init, SipInit
    <2> QED BY <2>1, <2>2, <2>3 DEF ChargeInv
<1>2. ChannelInv /\ ChargeInv /\ [Next]_vars => ChargeInv'
    BY NextCharge
<1>3. ChannelInv /\ ChargeInv => OneChargePerPost
    <2> SUFFICES ASSUME ChannelInv, ChargeInv, NEW k \in Keys
                 PROVE  Cardinality(ChargesTo(k)) <=
                            Cardinality({p \in Calls \X Attempts :
                                            Sanitize[p[1]] = k /\ cdr[p[1]][p[2]].pc # "idle"})
        BY DEF OneChargePerPost
    <2> DEFINE Made == {p \in Calls \X Attempts : Sanitize[p[1]] = k /\ cdr[p[1]][p[2]].pc # "idle"}
    <2>1. IsFiniteSet(Made) /\ Cardinality(Made) \in Nat
        BY PostsFinite
    <2>2. PastTx(k) \subseteq Made
        BY DEF PastTx
    <2> HIDE DEF Made
    <2>3. Cardinality(PastTx(k)) <= Cardinality(Made)
        BY <2>1, <2>2, FS_Subset
    <2>4. Cardinality(ChargesTo(k)) \in Nat /\ Cardinality(PastTx(k)) \in Nat
        BY Countable DEF ChannelInv, PlaneTypeOK
    <2>5. Cardinality(ChargesTo(k)) <= Cardinality(PastTx(k))
        BY DEF ChargeInv
    <2>6. Cardinality(ChargesTo(k)) <= Cardinality(Made)
        BY <2>1, <2>3, <2>4, <2>5
    <2> QED BY <2>6 DEF Made
<1> QED BY <1>1, <1>2, <1>3, Inductive, PTL DEF Spec

-----------------------------------------------------------------------------
(* The invariant behind BilledToTenant and AckedCallPaid *)

\* While no order changes, a request that got past the gates carries the DID's customer, or
\* nobody if the DID is reserved.
GatesKept(c) ==
    \A n \in Attempts :
        LET q == auth[c][n] IN
        /\ q.pc \in {"write_shell", "write_denial", "reserve", "register", "allow"}
              => q.user \in {NoUser, Home(c)}
        /\ q.pc = "reserve" \/ (q.pc \in {"register", "allow"} /\ q.user # NoUser)
              => StatusOf(c) = "active"
        /\ q.pc = "write_shell" \/ (q.pc \in {"register", "allow"} /\ q.user = NoUser)
              => StatusOf(c) = "reserved"

\* So does the call once it is connected, and only a connected call costs anything.
LegOfHome(c) ==
    /\ leg[c].kind = "order" => leg[c].user = Home(c) /\ StatusOf(c) = "active"
    /\ leg[c].kind = "reserved" => StatusOf(c) = "reserved"
    /\ bill[c] > 0 \/ chan[c] = "talking" => leg[c].kind \in {"reserved", "order", "redirected"}

\* A call with a key of its own is its customer's, in its CDR and in every charge, and is
\* charged when it is over.
RowOfHome(c) ==
    /\ cdrs[Sanitize[c]].user \in {NoUser, Home(c)}
    /\ cdrs[Sanitize[c]].kind = "call" => cdrs[Sanitize[c]].user = Home(c)
    /\ \A n \in Attempts : cdr[c][n].pc = "tx" => cdr[c][n].user = Home(c)
    /\ \A i \in ChargesTo(Sanitize[c]) :
        /\ ledger[i].user = Home(c) /\ bill[c] > 0
        /\ chan[c] \in {"teardown", "over"} /\ cdrs[Sanitize[c]].kind # "none"

\* An attempt that was not denied has written no row, so a call on an order that took one
\* attempt has no row before its /cdr makes it.
NoShell(c) ==
    /\ chan[c] \in {"idle", "agi"}
       /\ \/ auth[c][1].pc \in {"idle", "decide", "reserve"}
          \/ auth[c][1].pc \in {"register", "allow"} /\ auth[c][1].user # NoUser
        => cdrs[Sanitize[c]].kind = "none"
    /\ leg[c].kind = "order" => cdrs[Sanitize[c]].kind # "shell"

TenantInv ==
    changes = 0 =>
        /\ \A d \in Dids : routing[d].status \in {"available", "reserved"} => routing[d].user = NoUser
        /\ \A c \in Calls :
            /\ GatesKept(c) /\ LegOfHome(c)
            /\ OwnKey(c) => RowOfHome(c) /\ (OneAttempt(c) => NoShell(c))

\* The call has been charged what it costs.
Paid(c) == \E i \in ChargesTo(Sanitize[c]) : ledger[i].delta = -bill[c]

\* A /cdr request on its way to "ok" has paid, for a call on an order that costs something.
PaidInv ==
    changes = 0 =>
        \A c \in Calls :
            leg[c].kind = "order" /\ bill[c] > 0
                /\ \/ acked[c] = "ok"
                   \/ \E n \in Attempts : /\ cdr[c][n].pc \in {"release", "deregister", "reply"}
                                          /\ cdr[c][n].status = "ok"
                => Paid(c)

\* The label of an admin action is all it changes of a row.
LEMMA LabelOnly ==
    ASSUME NEW row \in CdrRow, NEW label \in Label
    PROVE  Labelled(row, label).kind = row.kind /\ Labelled(row, label).user = row.user
BY DEF Labelled, CdrRow

\* The denial or shell row of a call goes to its key, unless there is one.
LEMMA ShellRow ==
    ASSUME TypeOK, NEW c \in Calls, NEW u, ShellCdr(c, u), NEW k \in Keys
    PROVE  \/ cdrs'[k] = cdrs[k]
           \/ k = Sanitize[c] /\ cdrs[k].kind = "none" /\ cdrs'[k].kind = "shell" /\ cdrs'[k].user = u
<1>1. cdrs \in [Keys -> CdrRow] /\ Sanitize[c] \in Keys
    BY ReservationAssumption DEF TypeOK
<1>2. PICK row : row = [kind |-> "shell", user |-> u, label |-> "none"]
    OBVIOUS
<1>3. cdrs' = [cdrs EXCEPT ![Sanitize[c]] = IF @.kind = "none" THEN row ELSE @]
    BY <1>2 DEF ShellCdr
<1>4. row.kind = "shell" /\ row.user = u
    BY <1>2
<1> QED BY <1>1, <1>3, <1>4

\* A step of authorize takes a call no further than its DID's order allows.
LEMMA AuthorizeTenant ==
    ASSUME ChannelInv, CleanInv, TenantInv, OrdersKept, NEW c \in Calls, NEW n \in Attempts, AuthorizeStep(c, n)
    PROVE  TenantInv'
<1> SUFFICES ASSUME changes' = 0
             PROVE  /\ \A d \in Dids : routing'[d].status \in {"available", "reserved"}
                                           => routing'[d].user = NoUser
                    /\ \A e \in Calls : /\ GatesKept(e)' /\ LegOfHome(e)'
                                        /\ OwnKey(e)' => RowOfHome(e)' /\ (OneAttempt(e)' => NoShell(e)')
    BY DEF TenantInv
<1>1. TypeOK /\ auth \in [Calls -> [Attempts -> AuthReq]] /\ Sanitize \in [Calls -> Keys]
      /\ DidOf \in [Calls -> Dids] /\ NoUser \notin Users
    BY ReservationAssumption, SipCtlAssumption DEF ChannelInv, PlaneTypeOK, TypeOK
<1>2. changes = 0 /\ routing' = routing
    BY DEF OrdersKept
<1>3. /\ UNCHANGED <<chan, leg, bill, ledger, cdr>>
      /\ auth[c][n].pc \in {"decide", "write_shell", "write_denial", "reserve", "register"}
      /\ \/ cdrs' = cdrs
         \/ auth[c][n].pc \in {"write_shell", "write_denial"} /\ ShellCdr(c, auth[c][n].user)
    BY <1>1, AuthorizeEffect DEF astVars
<1>4. PICK r \in AuthReq : /\ auth' = [auth EXCEPT ![c][n] = r] /\ r.pc # "idle"
                           /\ AuthFlow(c, auth[c][n], r)
    BY <1>1, AuthorizeEffect
<1>5. \A e \in Calls, m \in Attempts : auth'[e][m] = IF e = c /\ m = n THEN r ELSE auth[e][m]
    BY <1>1, <1>4
<1>6. /\ \A d \in Dids : routing[d].status \in {"available", "reserved"} => routing[d].user = NoUser
      /\ \A e \in Calls : /\ GatesKept(e) /\ LegOfHome(e)
                          /\ OwnKey(e) => RowOfHome(e) /\ (OneAttempt(e) => NoShell(e))
    BY <1>2 DEF TenantInv
<1>7. /\ StatusOf(c) = "reserved" => Home(c) = NoUser
      /\ auth[c][n].pc = "write_shell" => auth[c][n].user \notin Users
      /\ auth[c][n].pc = "reserve" => auth[c][n].user \in Users
    BY <1>1, <1>6 DEF StatusOf, Home, ChannelInv, Owners
<1>8. ASSUME NEW e \in Calls
      PROVE  GatesKept(e)' /\ LegOfHome(e)'
    <2>1. Home(e)' = Home(e) /\ StatusOf(e)' = StatusOf(e)
        BY <1>2 DEF Home, StatusOf
    <2>2. LegOfHome(e)'
        BY <1>3, <1>6, <2>1 DEF LegOfHome
    <2>3. /\ r.pc \in {"write_shell", "write_denial", "reserve", "register", "allow"} => r.user \in {NoUser, Home(c)}
          /\ r.pc = "reserve" \/ (r.pc \in {"register", "allow"} /\ r.user # NoUser) => StatusOf(c) = "active"
          /\ r.pc = "write_shell" \/ (r.pc \in {"register", "allow"} /\ r.user = NoUser) => StatusOf(c) = "reserved"
        BY <1>1, <1>4, <1>6, <1>7 DEF GatesKept, AuthFlow
    <2>4. GatesKept(e)'
        BY <1>5, <1>6, <2>1, <2>3 DEF GatesKept
    <2> QED BY <2>2, <2>4
<1>9. ASSUME NEW e \in Calls, OwnKey(e)
      PROVE  RowOfHome(e)' /\ (OneAttempt(e)' => NoShell(e)')
    <2>1. Home(e)' = Home(e) /\ Sanitize[e] \in Keys /\ ChargesTo(Sanitize[e])' = ChargesTo(Sanitize[e])
        BY <1>1, <1>2, <1>3 DEF Home, ChargesTo
    <2>2. RowOfHome(e) /\ (OneAttempt(e)' => NoShell(e))
        BY <1>1, <1>4, <1>6, <1>9, OneAttemptBack
    <2>3. \/ cdrs'[Sanitize[e]] = cdrs[Sanitize[e]]
          \/ /\ e = c /\ auth[c][n].pc \in {"write_shell", "write_denial"}
             /\ cdrs'[Sanitize[e]].kind = "shell" /\ cdrs'[Sanitize[e]].user = auth[c][n].user
        BY <1>1, <1>3, <1>9, <2>1, ShellRow DEF OwnKey
    <2>4. RowOfHome(e)'
        BY <1>3, <1>6, <2>1, <2>2, <2>3 DEF RowOfHome, GatesKept
    <2>5. ASSUME OneAttempt(e)'
          PROVE  NoShell(e)'
        <3>1. CASE e # c
            BY <1>3, <1>5, <2>2, <2>3, <2>5, <3>1 DEF NoShell, Attempts
        <3>2. CASE e = c
            <4>1. n = 1
                BY <1>4, <1>5, <2>5, <3>2 DEF OneAttempt, Attempts
            <4>2. leg[c].kind = "none"
                BY <1>1, <1>3, <1>4, <2>5, <3>2, <4>1, OneAttemptBack DEF CleanInv, StaysOut
            <4>3. auth'[c][1] = r
                BY <1>5, <4>1 DEF Attempts
            <4>4. ASSUME \/ r.pc \in {"idle", "decide", "reserve"}
                         \/ r.pc \in {"register", "allow"} /\ r.user # NoUser
                  PROVE  /\ cdrs'[Sanitize[c]] = cdrs[Sanitize[c]]
                         /\ \/ auth[c][1].pc \in {"idle", "decide", "reserve"}
                            \/ auth[c][1].pc \in {"register", "allow"} /\ auth[c][1].user # NoUser
                <5>1. auth[c][n].pc = "write_shell" => auth[c][n].user = NoUser
                    BY <1>6, <1>7 DEF GatesKept
                <5> QED BY <1>4, <2>3, <3>2, <4>1, <4>4, <5>1 DEF AuthFlow
            <4> QED BY <1>3, <2>2, <2>5, <3>2, <4>2, <4>3, <4>4 DEF NoShell
        <3> QED BY <3>1, <3>2
    <2> QED BY <2>4, <2>5
<1> QED BY <1>2, <1>6, <1>8, <1>9 DEF OwnKey

\* What is charged stays charged.
LEMMA ChargesStay ==
    ASSUME ChannelInv, NEW c \in Calls, NEW n \in Attempts, CdrStep(c, n), NEW e \in Calls
    PROVE  /\ \A i \in ChargesTo(Sanitize[e]) : i \in ChargesTo(Sanitize[e])' /\ ledger'[i] = ledger[i]
           /\ \A i \in ChargesTo(Sanitize[e])' :
                \/ i \in ChargesTo(Sanitize[e]) /\ ledger'[i] = ledger[i]
                \/ /\ Sanitize[e] = Sanitize[c] /\ CdrCommit(c, n) /\ bill[c] > 0
                   /\ ledger'[i].user = cdr[c][n].user
           /\ CdrCommit(c, n) /\ bill[c] > 0
                => \E i \in ChargesTo(Sanitize[c])' : ledger'[i].delta = -bill[c]
<1>1. TypeOK /\ Sanitize \in [Calls -> Keys] /\ bill[c] \in Nat /\ balance \in [Users -> Int]
    BY ReservationAssumption DEF ChannelInv, PlaneTypeOK, TypeOK
<1>2. CASE CdrCommit(c, n) /\ bill[c] > 0
    <2>1. PICK row : row = [user |-> cdr[c][n].user, delta |-> -bill[c],
                            after |-> balance[cdr[c][n].user] - bill[c], ref |-> Sanitize[c]]
        OBVIOUS
    <2>2. ledger' = Append(ledger, row) /\ cdr[c][n].pc = "tx"
        BY <1>2, <2>1 DEF CdrCommit
    <2>3. cdr[c][n].user \in Users
        BY <2>2 DEF ChannelInv, Owners
    <2>4. row \in LedgerRow /\ row.ref = Sanitize[c] /\ row.user = cdr[c][n].user /\ row.delta = -bill[c]
        BY <1>1, <2>1, <2>3 DEF LedgerRow
    <2>5. \A k \in Keys :
            /\ ChargesTo(k)' = IF row.ref = k THEN ChargesTo(k) \cup {Len(ledger) + 1} ELSE ChargesTo(k)
            /\ ledger'[Len(ledger) + 1] = row
            /\ \A i \in ChargesTo(k) : ledger'[i] = ledger[i]
        BY <1>1, <2>2, <2>4, PostAdds
    <2>6. Sanitize[c] \in Keys /\ Sanitize[e] \in Keys
        BY <1>1
    <2> QED BY <1>2, <2>4, <2>5, <2>6
<1>3. CASE ~(CdrCommit(c, n) /\ bill[c] > 0)
    <2>1. UNCHANGED ledger
        BY <1>1, <1>3, CdrEffect DEF Books, CdrCommit
    <2>2. ChargesTo(Sanitize[e])' = ChargesTo(Sanitize[e])
        BY <2>1 DEF ChargesTo
    <2> QED BY <1>3, <2>1, <2>2
<1> QED BY <1>2, <1>3

\* A step of /cdr changes no row but its call's; what it leaves of that row is its kind and
\* its customer, or it makes the row in the payer's name.
LEMMA CdrRowOf ==
    ASSUME ChannelInv, NEW c \in Calls, NEW n \in Attempts, CdrStep(c, n), NEW k \in Keys
    PROVE  \/ cdrs'[k].kind = cdrs[k].kind /\ cdrs'[k].user = cdrs[k].user /\ ~(CdrCommit(c, n) /\ k = Sanitize[c])
           \/ /\ k = Sanitize[c] /\ CdrCommit(c, n) /\ cdrs[k].kind # "none"
              /\ cdrs'[k].kind = cdrs[k].kind /\ cdrs'[k].user = cdrs[k].user
           \/ /\ k = Sanitize[c] /\ CdrCommit(c, n) /\ cdrs[k].kind = "none"
              /\ cdrs'[k].kind = "call" /\ cdrs'[k].user = cdr[c][n].user
<1>1. TypeOK /\ Sanitize[c] \in Keys /\ cdrs \in [Keys -> CdrRow] /\ cdr[c][n] \in CdrReq
    BY ReservationAssumption DEF ChannelInv, PlaneTypeOK, TypeOK
<1>2. CASE CdrCommit(c, n)
    <2>1. PICK row : row = [kind |-> "call", user |-> cdr[c][n].user, label |-> cdr[c][n].label]
        OBVIOUS
    <2>2. cdrs' = [cdrs EXCEPT ![Sanitize[c]] = IF @.kind = "none" THEN row ELSE Labelled(@, cdr[c][n].label)]
        BY <1>2, <2>1 DEF CdrCommit
    <2>3. row.kind = "call" /\ row.user = cdr[c][n].user
        BY <2>1
    <2>4. cdr[c][n].label \in Label /\ cdrs[Sanitize[c]] \in CdrRow
        BY <1>1 DEF CdrReq
    <2> QED BY <1>1, <1>2, <2>2, <2>3, <2>4, LabelOnly
<1>3. CASE ~CdrCommit(c, n)
    <2>1. cdrs' = cdrs \/ \E label \in Label : cdrs' = [cdrs EXCEPT ![Sanitize[c]] = Labelled(@, label)]
        BY <1>1, <1>3, CdrEffect DEF Books
    <2> QED BY <1>1, <1>3, <2>1, LabelOnly
<1> QED BY <1>2, <1>3

\* A POST of a call with a key of its own charges and books it to its customer.
LEMMA CdrTenant ==
    ASSUME ChannelInv, CleanInv, TenantInv, OrdersKept, NEW c \in Calls, NEW n \in Attempts, CdrStep(c, n)
    PROVE  TenantInv'
<1> SUFFICES ASSUME changes' = 0
             PROVE  /\ \A d \in Dids : routing'[d].status \in {"available", "reserved"}
                                           => routing'[d].user = NoUser
                    /\ \A e \in Calls : /\ GatesKept(e)' /\ LegOfHome(e)'
                                        /\ OwnKey(e)' => RowOfHome(e)' /\ (OneAttempt(e)' => NoShell(e)')
    BY DEF TenantInv
<1>1. TypeOK /\ cdr \in [Calls -> [Attempts -> CdrReq]] /\ Sanitize \in [Calls -> Keys]
      /\ NoUser \notin Users /\ chan \in [Calls -> {"idle", "agi", "talking", "teardown", "over"}]
    BY ReservationAssumption, SipCtlAssumption DEF ChannelInv, PlaneTypeOK, TypeOK
<1>2. changes = 0 /\ routing' = routing
    BY DEF OrdersKept
<1>3. UNCHANGED <<chan, leg, bill, auth>> /\ cdr[c][n].pc \in {"lookup", "tx", "release", "deregister"}
    BY <1>1, CdrEffect DEF astVars
<1>4. PICK r \in CdrReq : cdr' = [cdr EXCEPT ![c][n] = r] /\ CdrFlow(c, cdr[c][n], r)
    BY <1>1, CdrEffect
<1>5. \A e \in Calls, m \in Attempts : cdr'[e][m] = IF e = c /\ m = n THEN r ELSE cdr[e][m]
    BY <1>1, <1>4
<1>6. /\ \A d \in Dids : routing[d].status \in {"available", "reserved"} => routing[d].user = NoUser
      /\ \A e \in Calls : /\ GatesKept(e) /\ LegOfHome(e)
                          /\ OwnKey(e) => RowOfHome(e) /\ (OneAttempt(e) => NoShell(e))
    BY <1>2 DEF TenantInv
<1>7. chan[c] \in {"teardown", "over"}
    BY <1>1, <1>3 DEF ChannelInv, Quiet
<1>8. ASSUME NEW e \in Calls
      PROVE  GatesKept(e)' /\ LegOfHome(e)'
    BY <1>2, <1>3, <1>6 DEF GatesKept, LegOfHome, Home, StatusOf
<1>9. ASSUME NEW e \in Calls, OwnKey(e)
      PROVE  RowOfHome(e)' /\ (OneAttempt(e)' => NoShell(e)')
    <2>1. Home(e)' = Home(e) /\ Sanitize[e] \in Keys /\ (Sanitize[e] = Sanitize[c] => e = c)
        BY <1>1, <1>2, <1>9 DEF Home, OwnKey
    <2>2. RowOfHome(e) /\ (OneAttempt(e)' => NoShell(e))
        BY <1>3, <1>6, <1>9 DEF OneAttempt
    <2>3. CdrCommit(c, n) => cdr[c][n].pc = "tx"
        BY DEF CdrCommit
    <2>4. e = c /\ r.pc = "tx" => r.user = Home(c)
        BY <1>1, <1>4, <2>2 DEF CdrFlow, BillableUsers, RowOfHome, Home
    <2>5. \A m \in Attempts : cdr'[e][m].pc = "tx" => cdr'[e][m].user = Home(e)
        BY <1>5, <2>2, <2>4 DEF RowOfHome
    <2>6. /\ cdrs'[Sanitize[e]].user \in {NoUser, Home(e)}
          /\ cdrs'[Sanitize[e]].kind = "call" => cdrs'[Sanitize[e]].user = Home(e)
          /\ cdrs[Sanitize[e]].kind # "none" => cdrs'[Sanitize[e]].kind # "none"
          /\ CdrCommit(c, n) /\ e = c => cdrs'[Sanitize[e]].kind # "none"
        BY <2>1, <2>2, <2>3, CdrRowOf DEF RowOfHome
    <2>7. ASSUME NEW i \in ChargesTo(Sanitize[e])'
          PROVE  /\ ledger'[i].user = Home(e) /\ bill[e] > 0
                 /\ chan[e] \in {"teardown", "over"} /\ cdrs'[Sanitize[e]].kind # "none"
        <3>1. CASE i \in ChargesTo(Sanitize[e]) /\ ledger'[i] = ledger[i]
            BY <2>2, <2>6, <3>1 DEF RowOfHome
        <3>2. CASE /\ Sanitize[e] = Sanitize[c] /\ CdrCommit(c, n) /\ bill[c] > 0
                   /\ ledger'[i].user = cdr[c][n].user
            BY <1>7, <2>1, <2>2, <2>3, <2>6, <3>2 DEF RowOfHome
        <3> QED BY <3>1, <3>2, ChargesStay
    <2>8. RowOfHome(e)'
        BY <1>3, <2>1, <2>5, <2>6, <2>7 DEF RowOfHome
    <2>9. OneAttempt(e)' => NoShell(e)'
        <3>1. chan[e] \in {"idle", "agi"} => e # c
            BY <1>7
        <3>2. cdrs'[Sanitize[e]].kind = cdrs[Sanitize[e]].kind
              \/ (e = c /\ cdrs'[Sanitize[e]].kind = "call")
            BY <2>1, CdrRowOf
        <3> QED BY <1>3, <2>2, <3>1, <3>2 DEF NoShell
    <2> QED BY <2>8, <2>9
<1> QED BY <1>2, <1>6, <1>8, <1>9 DEF OwnKey

\* Asterisk connects a call on what its attempt was admitted for, and bills only a
\* connected one.
LEMMA CallTenant ==
    ASSUME ChannelInv, CleanInv, TenantInv, OrdersKept, NEW c \in Calls, CallStep(c)
    PROVE  TenantInv'
<1> SUFFICES ASSUME changes' = 0
             PROVE  /\ \A d \in Dids : routing'[d].status \in {"available", "reserved"}
                                           => routing'[d].user = NoUser
                    /\ \A e \in Calls : /\ GatesKept(e)' /\ LegOfHome(e)'
                                        /\ OwnKey(e)' => RowOfHome(e)' /\ (OneAttempt(e)' => NoShell(e)')
    BY DEF TenantInv
<1>1. TypeOK /\ att[c] \in Attempts /\ 1 \in Attempts /\ NewCdr.pc = "lookup" /\ bill[c] \in Nat
    BY DEF ChannelInv, PlaneTypeOK, TypeOK, NewCdr, Attempts
<1>2. changes = 0 /\ UNCHANGED <<routing, ledger, cdrs>>
    BY DEF OrdersKept, CallStep, pgVars
<1>3. /\ \A d \in Dids : routing[d].status \in {"available", "reserved"} => routing[d].user = NoUser
      /\ \A e \in Calls : /\ GatesKept(e) /\ LegOfHome(e)
                          /\ OwnKey(e) => RowOfHome(e) /\ (OneAttempt(e) => NoShell(e))
    BY <1>2 DEF TenantInv
<1>4. \A e \in Calls : Home(e)' = Home(e) /\ StatusOf(e)' = StatusOf(e)
                       /\ ChargesTo(Sanitize[e])' = ChargesTo(Sanitize[e])
    BY <1>2 DEF Home, StatusOf, ChargesTo
<1>5. ASSUME NEW e \in Calls \ {c}
      PROVE  /\ GatesKept(e)' /\ LegOfHome(e)'
             /\ OwnKey(e) => RowOfHome(e)' /\ (OneAttempt(e)' => NoShell(e)')
    <2>1. /\ chan'[e] = chan[e] /\ leg'[e] = leg[e] /\ bill'[e] = bill[e]
          /\ auth'[e] = auth[e] /\ cdr'[e] = cdr[e]
        BY DEF CallStep
    <2> QED BY <1>2, <1>3, <1>4, <2>1 DEF GatesKept, LegOfHome, RowOfHome, NoShell, OneAttempt
<1>6. GatesKept(c)'
    <2>1. \A n \in Attempts : auth'[c][n] = auth[c][n] \/ auth'[c][n].pc \in {"decide", "gone"}
        BY <1>1 DEF CallStep, Starts, Retries, Answered, Redirected, Lost, Ended, Closed,
                    CdrTaken, CdrRetried, CdrLeft, Told
    <2> QED BY <1>3, <1>4, <2>1 DEF GatesKept
<1>7. LegOfHome(c)'
    <2>1. LegOfHome(c) /\ GatesKept(c) /\ InOrder(c)
        BY <1>3 DEF CleanInv
    <2>2. CASE Answered(c)
        BY <1>1, <1>4, <2>1, <2>2 DEF Answered, GatesKept, LegOfHome
    <2>3. CASE Redirected(c)
        BY <2>3 DEF Redirected, LegOfHome
    <2>4. CASE Ended(c)
        BY <1>4, <2>1, <2>4 DEF Ended, LegOfHome
    <2>5. CASE leg'[c] = leg[c] /\ bill'[c] = bill[c] /\ chan'[c] # "talking"
        BY <1>4, <2>1, <2>5 DEF LegOfHome
    <2> QED BY <2>2, <2>3, <2>4, <2>5 DEF CallStep, Starts, Retries, Lost, BeforeEnd,
                                         CdrTaken, CdrRetried, CdrLeft, Told
<1>8. OwnKey(c) => RowOfHome(c)'
    <2>1. \A n \in Attempts : cdr'[c][n] = cdr[c][n] \/ cdr'[c][n].pc # "tx"
        BY <1>1 DEF CallStep, Starts, Retries, Answered, Redirected, Lost, Ended, BeforeEnd,
                    CdrTaken, CdrRetried, CdrLeft, ReplyGone, Attempts
    <2>2. chan[c] \in {"teardown", "over"} => bill'[c] = bill[c] /\ chan'[c] \in {"teardown", "over"}
        BY DEF CallStep, Starts, Retries, Answered, Redirected, Lost, Ended, BeforeEnd,
               CdrTaken, CdrRetried, CdrLeft, Told
    <2> QED BY <1>2, <1>3, <1>4, <2>1, <2>2 DEF RowOfHome
<1>9. OwnKey(c) /\ OneAttempt(c)' => NoShell(c)'
    <2> SUFFICES ASSUME OwnKey(c), OneAttempt(c)' PROVE NoShell(c)'
        OBVIOUS
    <2>1. OneAttempt(c) /\ NoShell(c)
        BY <1>1, <1>3, OneAttemptBack
    <2>2. CASE Starts(c)
        <3>1. auth[c][1].pc = "idle"
            BY <1>1, <2>2 DEF Starts, ChannelInv, Quiet
        <3> QED BY <1>2, <2>1, <2>2, <3>1 DEF Starts, NoShell
    <2>3. ~Retries(c)
        BY <1>1 DEF Retries, OneAttempt, CleanInv, InOrder, Attempts
    <2>4. CASE Answered(c)
        <3>1. att[c] = 1
            BY <1>1, <2>1, <2>4 DEF Answered, OneAttempt, Attempts
        <3> QED BY <1>2, <2>1, <2>4, <3>1 DEF Answered, NoShell
    <2>5. CASE chan'[c] \notin {"idle", "agi"} /\ (leg'[c] = leg[c] \/ leg'[c].kind # "order")
        BY <1>2, <2>1, <2>5 DEF NoShell
    <2> QED BY <2>2, <2>3, <2>4, <2>5 DEF CallStep, Redirected, Lost, Ended, CdrTaken, CdrRetried, CdrLeft, Told
<1> QED BY <1>2, <1>3, <1>5, <1>6, <1>7, <1>8, <1>9 DEF OwnKey

\* What sweeps and administrators do besides reads no order and writes no row.
LEMMA OutsideTenant ==
    ASSUME TenantInv, OrdersKept, Outside
    PROVE  TenantInv'
BY DEF TenantInv, OrdersKept, Outside, pgVars, astVars, GatesKept, LegOfHome, RowOfHome, NoShell,
       Home, StatusOf, ChargesTo, OwnKey, OneAttempt

\* What is paid stays paid, and nothing else makes a /cdr of a connected call's "ok".
LEMMA CdrPaid ==
    ASSUME ChannelInv, TenantInv, PaidInv, OrdersKept, NEW c \in Calls, NEW n \in Attempts, CdrStep(c, n)
    PROVE  PaidInv'
<1> SUFFICES ASSUME changes' = 0, NEW e \in Calls, leg'[e].kind = "order", bill'[e] > 0,
                    \/ acked'[e] = "ok"
                    \/ \E m \in Attempts : /\ cdr'[e][m].pc \in {"release", "deregister", "reply"}
                                           /\ cdr'[e][m].status = "ok"
             PROVE  Paid(e)'
    BY DEF PaidInv
<1>1. TypeOK /\ cdr \in [Calls -> [Attempts -> CdrReq]] /\ DidOf[c] \in Dids
    BY SipCtlAssumption DEF ChannelInv, PlaneTypeOK, TypeOK
<1>2. changes = 0 /\ UNCHANGED <<leg, bill, acked>>
    BY <1>1, CdrEffect DEF OrdersKept, astVars
<1>3. PICK r \in CdrReq :
              /\ cdr' = [cdr EXCEPT ![c][n] = r] /\ CdrFlow(c, cdr[c][n], r)
              /\ cdr[c][n].pc = "tx" /\ r.pc = "release" /\ r.status # "error" => CdrCommit(c, n)
    BY <1>1, CdrEffect
<1>4. \A d \in Calls, m \in Attempts : cdr'[d][m] = IF d = c /\ m = n THEN r ELSE cdr[d][m]
    BY <1>1, <1>3
<1>5. Paid(e) => Paid(e)'
    BY <1>2, ChargesStay DEF Paid
<1>6. leg[e].kind = "order" /\ bill[e] > 0
    BY <1>2
<1>7. CASE acked'[e] = "ok"
    BY <1>2, <1>5, <1>6, <1>7 DEF PaidInv
<1>8. ASSUME NEW m \in Attempts, cdr'[e][m].pc \in {"release", "deregister", "reply"}, cdr'[e][m].status = "ok"
      PROVE  Paid(e)'
    <2>1. CASE cdr'[e][m] = cdr[e][m]
        BY <1>2, <1>5, <1>6, <1>8, <2>1 DEF PaidInv
    <2>2. CASE e = c /\ m = n /\ cdr'[e][m] = r
        <3>1. Home(c) \in Users /\ StatusOf(c) = "active"
            BY <1>1, <1>2, <1>6, <2>2 DEF TenantInv, LegOfHome, ChannelInv, Owners, Home, StatusOf
        <3>2. BillableUsers(c) # {}
            BY <3>1 DEF BillableUsers, Home, StatusOf
        <3>3. CASE cdr[c][n].pc = "tx"
            <4>1. CdrCommit(c, n)
                BY <1>3, <1>8, <2>2, <3>3 DEF CdrFlow
            <4> QED BY <1>2, <1>6, <2>2, <4>1, ChargesStay DEF Paid
        <3>4. CASE cdr[c][n].pc # "tx"
            <4>1. cdr[c][n].pc \in {"release", "deregister", "reply"} /\ cdr[c][n].status = "ok"
                BY <1>3, <1>8, <2>2, <3>2, <3>4 DEF CdrFlow
            <4> QED BY <1>2, <1>5, <1>6, <2>2, <4>1 DEF PaidInv
        <3> QED BY <3>3, <3>4
    <2> QED BY <1>4, <2>1, <2>2
<1> QED BY <1>7, <1>8

\* An answer "ok" is one of a POST that paid.
LEMMA CallPaid ==
    ASSUME ChannelInv, CleanInv, PaidInv, OrdersKept, NEW c \in Calls, CallStep(c)
    PROVE  PaidInv'
<1> SUFFICES ASSUME changes' = 0, NEW e \in Calls, leg'[e].kind = "order", bill'[e] > 0,
                    \/ acked'[e] = "ok"
                    \/ \E m \in Attempts : /\ cdr'[e][m].pc \in {"release", "deregister", "reply"}
                                           /\ cdr'[e][m].status = "ok"
             PROVE  Paid(e)'
    BY DEF PaidInv
<1>1. changes = 0 /\ UNCHANGED ledger /\ att[c] \in Attempts /\ NewCdr.pc = "lookup"
    BY DEF OrdersKept, CallStep, pgVars, ChannelInv, PlaneTypeOK, TypeOK, NewCdr
<1>2. bill'[e] = bill[e] /\ Paid(e) => Paid(e)'
    BY <1>1 DEF Paid, ChargesTo
<1>3. CASE e # c
    <2>1. leg'[e] = leg[e] /\ bill'[e] = bill[e] /\ acked'[e] = acked[e] /\ cdr'[e] = cdr[e]
        BY <1>3 DEF CallStep
    <2> QED BY <1>1, <1>2, <2>1 DEF PaidInv
<1>4. CASE e = c
    <2>1. CASE chan[c] \in {"idle", "agi", "talking"}
        <3>1. acked[c] = "none" /\ \A m \in Attempts : cdr[c][m].pc = "idle"
            BY <2>1 DEF CleanInv, InOrder, ChannelInv, Quiet
        <3>2. acked'[c] = "none" /\ \A m \in Attempts : cdr'[c][m].pc \in {"idle", "lookup"}
            BY <1>1, <2>1, <3>1 DEF CallStep, Starts, Retries, Answered, Redirected, Lost, Ended, BeforeEnd,
                               CdrTaken, CdrRetried, CdrLeft, Told
        <3> QED BY <1>4, <3>2
    <2>2. CASE Told(c)
        <3>1. \A m \in Attempts : cdr'[c][m] = cdr[c][m] \/ cdr'[c][m].pc \in {"gone", "lookup"}
            BY <1>1, <2>2 DEF CallStep, Starts, Retries, Answered, Redirected, Lost, Ended, Told,
                              CdrTaken, CdrRetried, CdrLeft, ReplyGone, Attempts
        <3>2. acked'[c] = acked[c] \/ (cdr[c][att[c]].pc = "reply" /\ acked'[c] = cdr[c][att[c]].status)
            BY <2>2 DEF CallStep, Starts, Retries, Answered, Redirected, Lost, Ended, Told,
                        CdrTaken, CdrRetried, CdrLeft
        <3>3. leg'[c] = leg[c] /\ bill'[c] = bill[c]
            BY <2>2 DEF Told
        <3> QED BY <1>1, <1>2, <1>4, <3>1, <3>2, <3>3 DEF PaidInv
    <2> QED BY <2>1, <2>2 DEF CallStep, Starts, Retries, Answered, Redirected, Lost, Ended,
                              CdrTaken, CdrRetried, CdrLeft
<1> QED BY <1>3, <1>4

\* Who owns what is charged, and that it is, survives every step.
LEMMA NextMoney ==
    ASSUME ChannelInv, CleanInv, TenantInv, PaidInv, [Next]_vars
    PROVE  TenantInv' /\ PaidInv'
<1>1. TypeOK
    BY DEF ChannelInv, PlaneTypeOK
<1>2. ASSUME UNCHANGED <<ledger, leg, bill, acked, cdr>>, OrdersKept
      PROVE  PaidInv'
    BY <1>2 DEF PaidInv, OrdersKept, Paid, ChargesTo
<1>3. ASSUME NEW c \in Calls, NEW n \in Attempts, AuthorizeStep(c, n), OrdersKept
      PROVE  PaidInv'
    <2>1. UNCHANGED <<ledger, leg, bill, acked, cdr>>
        BY <1>1, <1>3, AuthorizeEffect DEF astVars
    <2> QED BY <1>2, <1>3, <2>1
<1>4. ASSUME Outside, OrdersKept
      PROVE  PaidInv'
    <2>1. UNCHANGED <<ledger, leg, bill, acked, cdr>>
        BY <1>4 DEF Outside, pgVars, astVars
    <2> QED BY <1>2, <1>4, <2>1
<1> QED BY <1>3, <1>4, StepCases, AuthorizeTenant, CdrTenant, CallTenant, OutsideTenant, CdrPaid, CallPaid

MoneyInv == ChannelInv /\ CleanInv /\ TenantInv /\ PaidInv

\* The invariants on a call's order and money hold together in every state.
THEOREM MoneyInductive == Spec => []MoneyInv
<1>1. Init => MoneyInv
    <2> SUFFICES ASSUME Init PROVE MoneyInv
        OBVIOUS
    <2>1. ChannelInv
        BY InitInv
    <2>2. /\ \A c \in Calls : /\ chan[c] = "idle" /\ leg[c].kind = "none" /\ bill[c] = 0 /\ acked[c] = "none"
                              /\ ChargesTo(Sanitize[c]) = {} /\ live[Sanitize[c]] = NoCall
                              /\ cdrs[Sanitize[c]].kind = "none" /\ cdrs[Sanitize[c]].user = NoUser
          /\ \A c \in Calls, n \in Attempts : auth[c][n].pc = "idle" /\ cdr[c][n].pc = "idle"
          /\ admin.pc = "idle"
        BY ReservationAssumption
           DEF Init, SipInit, NoAdmin, NoAuth, NoCdrReq, NewCdr, NoCdr, ChargesTo
    <2>3. \A d \in Dids : routing[d].status \in {"available", "reserved"} => routing[d].user = NoUser
        BY DEF Init, SipInit
    <2>4. CleanInv
        BY <2>2, SipCtlAssumption DEF CleanInv, CleanAfterAck, InOrder, ListedLate, StaysOut
    <2>5. TenantInv
        BY <2>2, <2>3 DEF TenantInv, GatesKept, LegOfHome, RowOfHome, NoShell
    <2>6. PaidInv
        BY <2>2 DEF PaidInv
    <2> QED BY <2>1, <2>4, <2>5, <2>6 DEF MoneyInv
<1>2. MoneyInv /\ [Next]_vars => MoneyInv'
    BY NextInv, NextClean, NextMoney DEF MoneyInv
<1> QED BY <1>1, <1>2, PTL DEF Spec

\* A call with a Call-ID of its own and one authorize attempt is charged, and has its CDR,
\* in the name of the customer it was connected for.
THEOREM ChargesGoHome == Spec => []BilledToTenant
<1>1. MoneyInv => BilledToTenant
    <2> SUFFICES ASSUME MoneyInv, NEW c \in Calls, NEW i \in ChargesTo(Sanitize[c]),
                        changes = 0, OwnKey(c), OneAttempt(c), leg[c].kind # "redirected"
                 PROVE  /\ leg[c] = [kind |-> "order", user |-> ledger[i].user]
                        /\ cdrs[Sanitize[c]].kind = "call"
                        /\ cdrs[Sanitize[c]].user = ledger[i].user
        BY DEF BilledToTenant
    <2>1. LegOfHome(c) /\ RowOfHome(c) /\ NoShell(c)
        BY DEF MoneyInv, TenantInv
    <2>2. ledger \in Seq(LedgerRow) /\ leg[c] \in Leg /\ cdrs \in [Keys -> CdrRow] /\ Sanitize[c] \in Keys
        BY ReservationAssumption DEF MoneyInv, ChannelInv, PlaneTypeOK, TypeOK
    <2>3. ledger[i].user \in Users
        <3>1. i \in 1..Len(ledger)
            BY DEF ChargesTo
        <3>2. ledger[i] \in LedgerRow
            BY <2>2, <3>1
        <3> QED BY <3>2 DEF LedgerRow
    <2>4. leg[c].kind # "reserved"
        <3>1. StatusOf(c) = "reserved" => Home(c) = NoUser
            BY SipCtlAssumption DEF MoneyInv, TenantInv, StatusOf, Home
        <3> QED BY <2>1, <2>3, <3>1, SipCtlAssumption DEF LegOfHome, RowOfHome
    <2>5. leg[c].kind = "order" /\ leg[c].user = ledger[i].user
        BY <2>1, <2>4 DEF LegOfHome, RowOfHome
    <2>6. leg[c] = [kind |-> "order", user |-> ledger[i].user]
        BY <2>2, <2>5 DEF Leg
    <2>7. cdrs[Sanitize[c]].kind = "call"
        BY <2>1, <2>2, <2>5 DEF RowOfHome, NoShell, CdrRow
    <2> QED BY <2>1, <2>6, <2>7 DEF RowOfHome
<1> QED BY <1>1, MoneyInductive, PTL

\* A connected call with something to pay is paid for when its /cdr is answered "ok".
THEOREM AckedMeansPaid == Spec => []AckedCallPaid
<1>1. MoneyInv => AckedCallPaid
    BY DEF MoneyInv, PaidInv, AckedCallPaid, Paid
<1> QED BY <1>1, MoneyInductive, PTL
===============================================================================
