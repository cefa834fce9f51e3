-------------------------------- MODULE SipCtl --------------------------------
(***************************************************************************)
(* The SIP control plane: the two AGI scripts Asterisk runs for an inbound *)
(* call (dids-authorize.py on INVITE, dids-cdr.py from the hangup handler) *)
(* and the two didapi handlers they POST to, /sipctl/authorize and         *)
(* /sipctl/cdr, over the state those handlers share in PostgreSQL and      *)
(* Redis.                                                                  *)
(*                                                                         *)
(* A handler is one action per external command, so two requests           *)
(* interleave wherever the code lets them.  A script that gives up on a    *)
(* request (timeout, didapi restart, killed with its channel) closes the   *)
(* connection; Go then cancels the request's context, so that request may  *)
(* still land the one command it has on the wire, or nothing, and stops.   *)
(***************************************************************************)
EXTENDS ChannelReservation, Sequences

CONSTANTS
    DidOf,            \* [Calls -> Dids], the dialled DID (DstURI / ToURI)
    NoUser, NoCall,   \* absent values
    AudioGroupDids,   \* DIDs some order of which routes to an audio group
    OpeningBalance,   \* [Users -> Int]
    MinBalance,       \* least balance that buys MinSecondsToAuthorize
    Charges,          \* outcomes of ChargeForCall for a call that was connected
    AuthAttempts,     \* bound: attempts dids-authorize.py makes for a call
    CdrAttempts       \* bound: attempts dids-cdr.py makes for a call

\* Each script tries at most three times.
Attempts == 1..3

ASSUME SipCtlAssumption ==
    /\ DidOf \in [Calls -> Dids]
    /\ NoUser \notin Users
    /\ NoCall \notin Calls
    /\ OpeningBalance \in [Users -> Int]
    /\ MinBalance \in Int
    /\ Charges \subseteq Nat
    /\ AuthAttempts \in [Calls -> Attempts]
    /\ CdrAttempts \in [Calls -> Attempts]

VARIABLES
    \* PostgreSQL
    routing,   \* what authorize finds for a DID: dids.status and its order
    balance,   \* users.balance_cents
    ledger,    \* balance_ledger, in commit order
    cdrs,      \* cdrs, by call_id
    \* Redis
    actUser, actDid,  \* the members of act:user:<id> and act:did:<id>
    live,             \* live-calls index: the call whose row a key holds
    pending,          \* keys with a pending:admin_action mark
    \* Asterisk
    chan,      \* what the call's channel is doing
    leg,       \* what the dialplan connected the call on, for good
    bill,      \* the charge ChargeForCall will compute for the call
    att,       \* attempt number of the script now running for the call
    acked,     \* the answer dids-cdr.py got for the call
    \* didapi requests, by call and attempt
    auth, cdr

pgVars    == <<balance, ledger, cdrs>>
redisVars == <<actUser, actDid, live, pending>>
astVars   == <<chan, leg, bill, att, acked>>
sipVars   == <<routing, pgVars, redisVars, astVars, auth, cdr>>

-----------------------------------------------------------------------------
Maybe == Users \cup {NoUser}

\* "active": DID assigned, order active, user active.  "inactive": the same with
\* users.status not active.  "blocked": DID assigned, order kyc_pending or
\* quarantined.  "suspended": DID assigned, no order authorize considers.
RouteStatus == {"available", "reserved", "active", "inactive", "blocked", "suspended"}
Route == [status : RouteStatus, user : Maybe]

\* kind "shell": written by authorize; "call": written by /cdr.
\* label: cdrs.admin_action.
Label == {"none", "admin"}
CdrRow == [kind : {"none", "shell", "call"}, user : Maybe, label : Label]
NoCdr == [kind |-> "none", user |-> NoUser, label |-> "none"]

Leg == [kind : {"none", "denied", "reserved", "order", "redirected"}, user : Maybe]
LedgerRow == [user : Users, delta : Int, after : Int, ref : Keys]

AuthReq == [pc : {"idle", "decide", "write_shell", "write_denial", "reserve", "register",
                  "allow", "deny", "gone"},
            user : Maybe]
CdrReq == [pc : {"idle", "lookup", "tx", "release", "deregister", "reply", "gone"},
           user : Maybe, label : Label, status : {"ok", "no_match", "error"}]
NoAuth == [pc |-> "idle", user |-> NoUser]
NewCdr == [pc |-> "lookup", user |-> NoUser, label |-> "none", status |-> "ok"]
NoCdrReq == [NewCdr EXCEPT !.pc = "idle"]
\* A request that is over, or that nobody waits for and will do nothing more.
GoneAuth == [NoAuth EXCEPT !.pc = "gone"]
GoneCdr == [NewCdr EXCEPT !.pc = "gone"]

\* The type invariant.
TypeOK ==
    /\ routing \in [Dids -> Route]
    /\ balance \in [Users -> Int]
    /\ ledger \in Seq(LedgerRow)
    /\ cdrs \in [Keys -> CdrRow]
    /\ actUser \in [Users -> SUBSET Calls]
    /\ actDid \in [Dids -> SUBSET Calls]
    /\ live \in [Keys -> Calls \cup {NoCall}]
    /\ pending \in SUBSET Keys
    /\ chan \in [Calls -> {"idle", "agi", "talking", "teardown", "over"}]
    /\ leg \in [Calls -> Leg]
    /\ bill \in [Calls -> Nat]
    /\ att \in [Calls -> Attempts]
    /\ acked \in [Calls -> {"none", "ok", "no_match"}]
    /\ auth \in [Calls -> [Attempts -> AuthReq]]
    /\ cdr \in [Calls -> [Attempts -> CdrReq]]

SipInit ==
    /\ routing \in [Dids -> {[status |-> "available", user |-> NoUser],
                             [status |-> "reserved", user |-> NoUser]}
                            \cup [status : {"active", "blocked"}, user : Users]]
    /\ balance = OpeningBalance
    /\ ledger = <<>>
    /\ cdrs = [k \in Keys |-> NoCdr]
    /\ actUser = [u \in Users |-> {}]
    /\ actDid = [d \in Dids |-> {}]
    /\ live = [k \in Keys |-> NoCall]
    /\ pending = {}
    /\ chan = [c \in Calls |-> "idle"]
    /\ leg = [c \in Calls |-> [kind |-> "none", user |-> NoUser]]
    /\ bill = [c \in Calls |-> 0]
    /\ att = [c \in Calls |-> 1]
    /\ acked = [c \in Calls |-> "none"]
    /\ auth = [c \in Calls |-> [n \in Attempts |-> NoAuth]]
    /\ cdr = [c \in Calls |-> [n \in Attempts |-> NoCdrReq]]

\* The channel exists in `core show channels`.
InAsterisk(c) == chan[c] \in {"agi", "talking", "teardown"}

-----------------------------------------------------------------------------
(* Asterisk and the two scripts *)

\* dids-cdr.py starts in the hangup handler with its first POST on the wire.
BeginTeardown(c, b) ==
    /\ chan' = [chan EXCEPT ![c] = "teardown"]
    /\ bill' = [bill EXCEPT ![c] = b]
    /\ att' = [att EXCEPT ![c] = 1]
    /\ cdr' = [cdr EXCEPT ![c][1] = NewCdr]

\* A request nobody waits for any more; an answer already written is lost.
Abandoned(req) == IF req.pc \in {"allow", "deny"} THEN GoneAuth ELSE req
AbandonAuth(c) ==
    auth' = [auth EXCEPT ![c] = [n \in Attempts |-> Abandoned(auth[c][n])]]

\* INVITE: the dialplan pushes the hangup handler, then runs dids-authorize.py.
Invite(c) ==
    /\ chan[c] = "idle"
    /\ chan' = [chan EXCEPT ![c] = "agi"]
    /\ att' = [att EXCEPT ![c] = 1]
    /\ auth' = [auth EXCEPT ![c][1].pc = "decide"]
    /\ UNCHANGED <<routing, pgVars, redisVars, leg, bill, acked, cdr>>

\* A transport failure (2 s timeout, refused, reset): the script POSTs again.
AuthRetry(c) ==
    /\ chan[c] = "agi" /\ att[c] < AuthAttempts[c]
    /\ att' = [att EXCEPT ![c] = @ + 1]
    /\ auth' = [auth EXCEPT ![c] = [n \in Attempts |->
                    IF n = att[c] + 1 THEN [NoAuth EXCEPT !.pc = "decide"]
                                      ELSE Abandoned(auth[c][n])]]
    /\ UNCHANGED <<routing, pgVars, redisVars, chan, leg, bill, acked, cdr>>

\* The script ends with no decision (attempts used up, an HTTP error, or the
\* caller hung up and Asterisk killed it): the dialplan rejects the call.
AuthGivesUp(c) ==
    /\ chan[c] = "agi"
    /\ BeginTeardown(c, 0)
    /\ AbandonAuth(c)
    /\ UNCHANGED <<routing, pgVars, redisVars, leg, acked>>

\* The answer reaches the script: the dialplan dials, or rejects the call.
AuthAnswered(c) ==
    /\ chan[c] = "agi"
    /\ LET req == auth[c][att[c]] IN
       \/ /\ req.pc = "allow"
          /\ chan' = [chan EXCEPT ![c] = "talking"]
          /\ leg' = [leg EXCEPT ![c] = [kind |-> IF req.user = NoUser THEN "reserved" ELSE "order",
                                       user |-> req.user]]
          /\ UNCHANGED <<bill, att, cdr>>
       \/ /\ req.pc = "deny"
          /\ leg' = [leg EXCEPT ![c].kind = "denied"]
          /\ BeginTeardown(c, 0)
    /\ auth' = [auth EXCEPT ![c][att[c]] = GoneAuth]
    /\ UNCHANGED <<routing, pgVars, redisVars, acked>>

\* A connected call ends; the charge for it depends on how long it lasted.
Hangup(c) ==
    /\ chan[c] = "talking"
    /\ \E b \in Charges : BeginTeardown(c, b)
    /\ UNCHANGED <<routing, pgVars, redisVars, leg, acked, auth>>

\* The channel goes without a POST to /sipctl/cdr: Asterisk died, the handler
\* was skipped, or dids-cdr.py refused for want of a call id or timestamps.
ChannelLost(c) ==
    /\ chan[c] \in {"agi", "talking"}
    /\ chan' = [chan EXCEPT ![c] = "over"]
    /\ AbandonAuth(c)
    /\ UNCHANGED <<routing, pgVars, redisVars, leg, bill, att, acked, cdr>>

\* dids-cdr.py takes any HTTP 200 as done.
CdrAnswered(c) ==
    /\ chan[c] = "teardown"
    /\ LET req == cdr[c][att[c]] IN
       /\ req.pc = "reply" /\ req.status # "error"
       /\ acked' = [acked EXCEPT ![c] = req.status]
    /\ cdr' = [cdr EXCEPT ![c][att[c]] = GoneCdr]
    /\ chan' = [chan EXCEPT ![c] = "over"]
    /\ UNCHANGED <<routing, pgVars, redisVars, leg, bill, att, auth>>

\* A written answer nobody reads.
Unread(req) == IF req.pc = "reply" THEN GoneCdr ELSE req

\* Mutant: the last attempt is made again and again.
CdrAttemptForever(c) ==
    /\ chan[c] = "teardown"
    /\ cdr' = [cdr EXCEPT ![c][att[c]] = NewCdr]
    /\ UNCHANGED <<routing, pgVars, redisVars, astVars, auth>>

\* Any exception (5 s timeout, HTTP 500, reset): POST again, or leave the call to
\* the reconciler.
CdrAttemptFails(c) ==
    /\ chan[c] = "teardown"
    /\ \/ /\ att[c] < CdrAttempts[c]
          /\ att' = [att EXCEPT ![c] = @ + 1]
          /\ cdr' = [cdr EXCEPT ![c][att[c]] = Unread(@),
                                 ![c][att[c] + 1] = NewCdr]
          /\ UNCHANGED chan
       \/ /\ att[c] = CdrAttempts[c]
          /\ chan' = [chan EXCEPT ![c] = "over"]
          /\ cdr' = [cdr EXCEPT ![c][att[c]] = Unread(@)]
          /\ UNCHANGED att
    /\ UNCHANGED <<routing, pgVars, redisVars, leg, bill, acked, auth>>

-----------------------------------------------------------------------------
(* didapi: POST /sipctl/authorize *)

\* A script still waits for the request.
AuthAwaited(c, n) == chan[c] = "agi" /\ att[c] = n

\* The next step of a request whose command has just landed.
AuthMoves(c, n, pc) ==
    auth' = [auth EXCEPT ![c][n] = IF AuthAwaited(c, n) THEN [@ EXCEPT !.pc = pc] ELSE GoneAuth]

\* denialCDR and unbilledCDR: INSERT ... ON CONFLICT (call_id) DO NOTHING.
ShellCdr(c, u) ==
    cdrs' = [cdrs EXCEPT ![Sanitize[c]] =
                IF @.kind = "none" THEN [kind |-> "shell", user |-> u, label |-> "none"] ELSE @]

Decides(c, n) == auth[c][n].pc = "decide" /\ AuthAwaited(c, n)
Solvent(u) == balance[u] >= MinBalance

\* Denied without a CDR: bad URI or address, unknown DID, supplier address not
\* allowed, a failed lookup, a misconfigured reservation.
DecideRefuse(c, n) ==
    /\ Decides(c, n)
    /\ AuthMoves(c, n, "deny")
    /\ UNCHANGED <<routing, pgVars, redisVars, astVars, cdr>>

\* Denied with a CDR: the DID has no usable order, or its order does not admit
\* the call (kyc_pending, quarantined, user_blocked, insufficient_balance).
DecideDeny(c, n) ==
    LET r == routing[DidOf[c]] IN
    /\ Decides(c, n)
    /\ \/ r.status \in {"available", "suspended", "blocked", "inactive"}
       \/ r.status = "active" /\ ~Solvent(r.user)
    /\ auth' = [auth EXCEPT ![c][n] =
                    [pc |-> "write_denial",
                     user |-> IF r.status \in {"available", "suspended"} THEN NoUser ELSE r.user]]
    /\ UNCHANGED <<routing, pgVars, redisVars, astVars, cdr>>

\* A reserved DID: no user, no order and no channel.
DecideReserved(c, n) ==
    /\ Decides(c, n)
    /\ routing[DidOf[c]].status = "reserved"
    /\ auth' = [auth EXCEPT ![c][n] = [pc |-> "write_shell", user |-> NoUser]]
    /\ UNCHANGED <<routing, pgVars, redisVars, astVars, cdr>>

\* The INSERT of either; its failure is logged and changes nothing else.
WriteShell(c, n) ==
    /\ auth[c][n].pc \in {"write_shell", "write_denial"}
    /\ ShellCdr(c, auth[c][n].user) \/ UNCHANGED cdrs
    /\ AuthMoves(c, n, IF auth[c][n].pc = "write_shell" THEN "register" ELSE "deny")
    /\ UNCHANGED <<routing, balance, ledger, redisVars, astVars, cdr>>

\* Every gate passed; the Lua script goes out next.
DecideAdmit(c, n) ==
    LET r == routing[DidOf[c]] IN
    /\ Decides(c, n)
    /\ r.status = "active" /\ Solvent(r.user)
    /\ auth' = [auth EXCEPT ![c][n] = [pc |-> "reserve", user |-> r.user]]
    /\ UNCHANGED <<routing, pgVars, redisVars, astVars, cdr>>

CodeFor(c, u) ==
    ReserveCode(actUser[u], actDid[DidOf[c]], UserCap[u], DidCap[DidOf[c]])

\* reserveLua took the channel.
Reserve(c, n) ==
    LET u == auth[c][n].user IN
    /\ auth[c][n].pc = "reserve"
    /\ CodeFor(c, u) = 1
    /\ actUser' = [actUser EXCEPT ![u] = @ \cup {c}]
    /\ actDid' = [actDid EXCEPT ![DidOf[c]] = @ \cup {c}]
    /\ AuthMoves(c, n, "register")
    /\ UNCHANGED <<routing, pgVars, live, pending, astVars, cdr>>

\* Mutant: a full cap is logged and the call let through.
ReserveFailsOpen(c, n) ==
    /\ auth[c][n].pc = "reserve"
    /\ CodeFor(c, auth[c][n].user) # 1
    /\ AuthMoves(c, n, "register")
    /\ UNCHANGED <<routing, pgVars, redisVars, astVars, cdr>>

\* reserveLua answered -1 or -2.
ReserveDenied(c, n) ==
    /\ auth[c][n].pc = "reserve"
    /\ CodeFor(c, auth[c][n].user) # 1
    /\ AuthMoves(c, n, "write_denial")
    /\ UNCHANGED <<routing, pgVars, redisVars, astVars, cdr>>

\* An order routed to an audio group that has no group, or whose group yields no
\* clip: denied with the channel kept.
PickFails(c, n) ==
    /\ auth[c][n].pc = "register" /\ auth[c][n].user # NoUser
    /\ DidOf[c] \in AudioGroupDids
    /\ AuthMoves(c, n, "deny")
    /\ UNCHANGED <<routing, pgVars, redisVars, astVars, cdr>>

\* livecalls.Register.
Register(c, n) ==
    /\ auth[c][n].pc = "register"
    /\ live' = [live EXCEPT ![Sanitize[c]] = c]
    /\ AuthMoves(c, n, "allow")
    /\ UNCHANGED <<routing, pgVars, actUser, actDid, pending, astVars, cdr>>

\* The cancelled context stops the request before its next command.
DropAuth(c, n) ==
    /\ auth[c][n].pc \in {"decide", "write_shell", "write_denial", "reserve", "register"}
    /\ ~AuthAwaited(c, n)
    /\ auth' = [auth EXCEPT ![c][n] = GoneAuth]
    /\ UNCHANGED <<routing, pgVars, redisVars, astVars, cdr>>

-----------------------------------------------------------------------------
(* didapi: POST /sipctl/cdr *)

CdrAwaited(c, n) == chan[c] = "teardown" /\ att[c] = n
CdrMoves(c, n, pc) ==
    cdr' = [cdr EXCEPT ![c][n] = IF CdrAwaited(c, n) THEN [@ EXCEPT !.pc = pc] ELSE GoneCdr]
CdrLooksUp(c, n) == cdr[c][n].pc = "lookup" /\ CdrAwaited(c, n)

\* Mutant: the lookup forgets which DID was dialled.
BillableAnyone(c) == {u \in Users : \A d \in Dids : routing[d].status # "reserved"}

\* The customers the order lookup may return: the order on an existing row of
\* this call_id, or the order now active on the dialled DID, in no set order.
BillableUsers(c) ==
    LET r == routing[DidOf[c]]
        row == cdrs[Sanitize[c]]
    IN  {u \in Users : \/ u = row.user
                       \/ r.status \in {"active", "inactive"} /\ u = r.user}

\* PopPendingAction (GETDEL), and COALESCE of its answer with the row's label.
PopLabel(k) == IF k \in pending THEN "admin" ELSE "none"
Labelled(row, label) == IF label = "none" THEN row ELSE [row EXCEPT !.label = label]

\* An order was found; the pending admin mark is popped before the transaction.
CdrLookup(c, n) ==
    /\ CdrLooksUp(c, n)
    /\ \E u \in BillableUsers(c) :
        cdr' = [cdr EXCEPT ![c][n] = [pc |-> "tx", user |-> u, status |-> "ok",
                                      label |-> PopLabel(Sanitize[c])]]
    /\ pending' = pending \ {Sanitize[c]}
    /\ UNCHANGED <<routing, pgVars, actUser, actDid, live, astVars, auth>>

\* No order: fillUnbilledCDR updates the row authorize wrote, if there is one.
CdrNoOrder(c, n) ==
    /\ CdrLooksUp(c, n)
    /\ BillableUsers(c) = {}
    /\ \/ UNCHANGED cdrs    \* no such row, or the UPDATE failed
       \/ /\ cdrs[Sanitize[c]].kind # "none"
          /\ cdrs' = [cdrs EXCEPT ![Sanitize[c]] = Labelled(@, PopLabel(Sanitize[c]))]
    /\ pending' = pending \ {Sanitize[c]}
    /\ CdrMoves(c, n, "release")
    /\ UNCHANGED <<routing, balance, ledger, actUser, actDid, live, astVars, auth>>

\* The lookup itself fails: answered 200 no_match, so never retried.
CdrLookupFails(c, n) ==
    /\ CdrLooksUp(c, n)
    /\ cdr' = [cdr EXCEPT ![c][n] = [@ EXCEPT !.pc = "release", !.status = "no_match"]]
    /\ UNCHANGED <<routing, pgVars, redisVars, astVars, auth>>

\* Two mutants of the transaction: it runs again after its commit, and its ledger
\* line repeats the balance read before the debit.
CdrCommitAgain(c, n) ==
    LET req == cdr[c][n] IN
    /\ req.pc = "tx"
    /\ balance' = [balance EXCEPT ![req.user] = @ - bill[c]]
    /\ ledger' = Append(ledger, [user |-> req.user, delta |-> -bill[c],
                                 after |-> balance'[req.user], ref |-> Sanitize[c]])
    /\ Len(ledger) < 3    \* bound
    /\ UNCHANGED <<routing, cdrs, redisVars, astVars, auth, cdr>>
CdrCommitStaleLine(c, n) ==
    LET req == cdr[c][n] IN
    /\ req.pc = "tx"
    /\ balance' = [balance EXCEPT ![req.user] = @ - bill[c]]
    /\ ledger' = Append(ledger, [user |-> req.user, delta |-> -bill[c],
                                 after |-> balance[req.user], ref |-> Sanitize[c]])
    /\ CdrMoves(c, n, "release")
    /\ UNCHANGED <<routing, cdrs, redisVars, astVars, auth>>

\* The transaction: the CDR row (a row already there only takes the label),
\* then the debit and its ledger line, whether or not the row was already there.
CdrCommit(c, n) ==
    LET k == Sanitize[c]
        req == cdr[c][n]
    IN
    /\ req.pc = "tx"
    /\ cdrs' = [cdrs EXCEPT ![k] =
                    IF @.kind = "none" THEN [kind |-> "call", user |-> req.user, label |-> req.label]
                    ELSE Labelled(@, req.label)]
    /\ IF bill[c] > 0
       THEN /\ balance' = [balance EXCEPT ![req.user] = @ - bill[c]]
            /\ ledger' = Append(ledger, [user |-> req.user, delta |-> -bill[c],
                                         after |-> balance[req.user] - bill[c], ref |-> k])
       ELSE UNCHANGED <<balance, ledger>>
    /\ CdrMoves(c, n, "release")
    /\ UNCHANGED <<routing, redisVars, astVars, auth>>

\* Mutant: the failure is logged and answered "ok".
CdrTxFailsSilently(c, n) ==
    /\ cdr[c][n].pc = "tx" /\ CdrAwaited(c, n)
    /\ CdrMoves(c, n, "release")
    /\ UNCHANGED <<routing, pgVars, redisVars, astVars, auth>>

\* Any statement of the transaction fails: rolled back, HTTP 500.
CdrTxFails(c, n) ==
    /\ cdr[c][n].pc = "tx" /\ CdrAwaited(c, n)
    /\ cdr' = [cdr EXCEPT ![c][n] = [@ EXCEPT !.pc = "release", !.status = "error"]]
    /\ UNCHANGED <<routing, pgVars, redisVars, astVars, auth>>

\* Two mutants of the release: by the sanitized Call-ID, and of one kind of set.
CdrReleaseSanitized(c, n) ==
    /\ cdr[c][n].pc = "release"
    /\ actUser' = Without(actUser, {Sanitize[c]})
    /\ actDid' = Without(actDid, {Sanitize[c]})
    /\ CdrMoves(c, n, "deregister")
    /\ UNCHANGED <<routing, pgVars, live, pending, astVars, auth>>
CdrReleaseDidOnly(c, n) ==
    /\ cdr[c][n].pc = "release"
    /\ actDid' = Without(actDid, {c})
    /\ CdrMoves(c, n, "deregister")
    /\ UNCHANGED <<routing, pgVars, actUser, live, pending, astVars, auth>>

\* The deferred release, by the full Call-ID, on the request's context.
CdrRelease(c, n) ==
    /\ cdr[c][n].pc = "release"
    /\ actUser' = Without(actUser, {c})
    /\ actDid' = Without(actDid, {c})
    /\ CdrMoves(c, n, "deregister")
    /\ UNCHANGED <<routing, pgVars, live, pending, astVars, auth>>

\* The deferred livecalls.Deregister, by the sanitized Call-ID.
CdrDeregister(c, n) ==
    /\ cdr[c][n].pc = "deregister"
    /\ live' = [live EXCEPT ![Sanitize[c]] = NoCall]
    /\ CdrMoves(c, n, "reply")
    /\ UNCHANGED <<routing, pgVars, actUser, actDid, pending, astVars, auth>>

\* The context was cancelled: nothing more of the handler takes effect, the
\* deferred release included.
DropCdr(c, n) ==
    /\ cdr[c][n].pc \in {"lookup", "tx", "release", "deregister"}
    /\ ~CdrAwaited(c, n)
    /\ cdr' = [cdr EXCEPT ![c][n] = GoneCdr]
    /\ UNCHANGED <<routing, pgVars, redisVars, astVars, auth>>

-----------------------------------------------------------------------------
AsteriskStep(c) ==
    \/ Invite(c) \/ AuthRetry(c) \/ AuthGivesUp(c) \/ AuthAnswered(c)
    \/ Hangup(c) \/ ChannelLost(c) \/ CdrAnswered(c) \/ CdrAttemptFails(c)

AuthorizeStep(c, n) ==
    \/ DecideRefuse(c, n) \/ DecideDeny(c, n) \/ DecideReserved(c, n) \/ DecideAdmit(c, n)
    \/ WriteShell(c, n) \/ Reserve(c, n) \/ ReserveDenied(c, n) \/ PickFails(c, n) \/ Register(c, n)
    \/ DropAuth(c, n)

CdrStep(c, n) ==
    \/ CdrLookup(c, n) \/ CdrNoOrder(c, n) \/ CdrLookupFails(c, n)
    \/ CdrCommit(c, n) \/ CdrTxFails(c, n)
    \/ CdrRelease(c, n) \/ CdrDeregister(c, n) \/ DropCdr(c, n)

SipNext ==
    \E c \in Calls :
        \/ AsteriskStep(c)
        \/ \E n \in Attempts : AuthorizeStep(c, n) \/ CdrStep(c, n)
===============================================================================
