------------------------------ MODULE CallPlane ------------------------------
(***************************************************************************)
(* The call plane of didapi: the SIP control plane (SipCtl) together with  *)
(* the actors that touch the same state from elsewhere:                    *)
(*   - the live-calls reconciler goroutine and the /live "Force cleanup"   *)
(*     button, which evict index rows whose channel they believe gone;     *)
(*   - an administrator hanging up or redirecting a live call;             *)
(*   - the order and DID handlers, seen only through what authorize and    *)
(*     /sipctl/cdr read of them.                                           *)
(***************************************************************************)
EXTENDS SipCtl

CONSTANTS
    Sweepers,     \* subset of {"reconciler", "admin"}: who sweeps
    AdminCalls,   \* calls an administrator may act on
    MaxChanges    \* bound: order and DID changes per behaviour

ASSUME CallPlaneAssumption ==
    /\ Sweepers \subseteq {"reconciler", "admin"}
    /\ AdminCalls \subseteq Calls
    /\ MaxChanges \in Nat

VARIABLES
    sweep,    \* per sweeper: its channel snapshot and its list of victims
    admin,    \* the administrator's request in flight
    changes   \* order and DID changes so far

vars == <<sipVars, sweep, admin, changes>>
planeVars == <<sweep, admin, changes>>

-----------------------------------------------------------------------------
\* evict: the rows to evict; left: those of them still to be deregistered.
SweepState == [pc : {"idle", "snapped", "listed"}, alive : SUBSET Calls,
               evict : SUBSET Keys, left : SUBSET Keys]
NoSweep == [pc |-> "idle", alive |-> {}, evict |-> {}, left |-> {}]
NoAdmin == [pc |-> "idle", call |-> NoCall]
AdminState == {NoAdmin} \cup [pc : {"opened", "hungup", "redirected", "marked"}, call : Calls]

\* The type invariant.
PlaneTypeOK ==
    /\ TypeOK
    /\ sweep \in [Sweepers -> SweepState]
    /\ admin \in AdminState
    /\ changes \in 0..MaxChanges

Init ==
    /\ SipInit
    /\ sweep = [s \in Sweepers |-> NoSweep]
    /\ admin = NoAdmin
    /\ changes = 0

-----------------------------------------------------------------------------
(* Sweeps: runReconcileOnce, liveForceCleanup *)

Snapshot(s, channels) ==
    /\ sweep[s].pc = "idle"
    /\ sweep' = [sweep EXCEPT ![s] = [NoSweep EXCEPT !.pc = "snapped", !.alive = channels]]
    /\ UNCHANGED <<sipVars, admin, changes>>

\* DefaultChannelSet's answer.  On a failure it is nil and the tick ends there.
ReconcilerSnapshot ==
    /\ "reconciler" \in Sweepers
    /\ Snapshot("reconciler", {c \in Calls : InAsterisk(c)})

\* channelStates' answer.  On a failure it is nil too, and a lookup in a nil map
\* finds nothing: every channel counts as gone.
ForceCleanupSnapshot ==
    /\ "admin" \in Sweepers
    /\ \/ Snapshot("admin", {c \in Calls : InAsterisk(c)})
       \/ Snapshot("admin", {})

\* livecalls.List, then the rows whose channel is not in the snapshot.  The settle
\* window is 0 and is measured after the listing, so it spares no row.
SweepList(s) ==
    /\ sweep[s].pc = "snapped"
    /\ LET victims == {k \in Keys : live[k] # NoCall /\ live[k] \notin sweep[s].alive} IN
       sweep' = [sweep EXCEPT ![s] = IF victims = {} THEN NoSweep
                                     ELSE [pc |-> "listed", alive |-> {},
                                           evict |-> victims, left |-> victims]]
    /\ UNCHANGED <<sipVars, admin, changes>>

\* Mutant: the row stays in the index.
SweepDeregisterNothing(s) ==
    /\ sweep[s].pc = "listed"
    /\ \E k \in sweep[s].left : sweep' = [sweep EXCEPT ![s].left = @ \ {k}]
    /\ UNCHANGED <<sipVars, admin, changes>>

\* livecalls.Deregister of the victims, one after the other.
SweepDeregister(s) ==
    /\ sweep[s].pc = "listed"
    /\ \E k \in sweep[s].left :
        /\ live' = [live EXCEPT ![k] = NoCall]
        /\ sweep' = [sweep EXCEPT ![s].left = @ \ {k}]
    /\ UNCHANGED <<routing, pgVars, actUser, actDid, pending, astVars, auth, cdr, admin, changes>>

\* Mutant: the victims' full Call-IDs are released.
SweepReleaseFullIds(s) ==
    LET gone == {c \in Calls : Sanitize[c] \in sweep[s].evict} IN
    /\ sweep[s].pc = "listed" /\ sweep[s].left = {}
    /\ actUser' = Without(actUser, gone)
    /\ actDid' = Without(actDid, gone)
    /\ sweep' = [sweep EXCEPT ![s] = NoSweep]
    /\ UNCHANGED <<routing, pgVars, live, pending, astVars, auth, cdr, admin, changes>>

\* ReleaseChannelReservations: SREM the victims' ids (ActiveCall.CallID, the
\* sanitized form) from every act:* set.  The UPDATE of cdrs.ended_at that follows
\* matches no row: the column is NOT NULL.
SweepRelease(s) ==
    /\ sweep[s].pc = "listed" /\ sweep[s].left = {}
    /\ actUser' = Without(actUser, sweep[s].evict)
    /\ actDid' = Without(actDid, sweep[s].evict)
    /\ sweep' = [sweep EXCEPT ![s] = NoSweep]
    /\ UNCHANGED <<routing, pgVars, live, pending, astVars, auth, cdr, admin, changes>>

\* The administrator's browser goes away, and with it the request's context.
ForceCleanupCut ==
    /\ "admin" \in Sweepers
    /\ sweep["admin"].pc # "idle"
    /\ sweep' = [sweep EXCEPT !["admin"] = NoSweep]
    /\ UNCHANGED <<sipVars, admin, changes>>

SweepStep ==
    \/ ReconcilerSnapshot
    \/ ForceCleanupSnapshot
    \/ ForceCleanupCut
    \/ \E s \in Sweepers : SweepList(s) \/ SweepDeregister(s) \/ SweepRelease(s)

-----------------------------------------------------------------------------
(* liveHangup and liveRedirect *)

\* livecalls.Get finds the row.
AdminOpen(c) ==
    /\ admin.pc = "idle" /\ c \in AdminCalls
    /\ live[Sanitize[c]] = c
    /\ admin' = [pc |-> "opened", call |-> c]
    /\ UNCHANGED <<sipVars, sweep, changes>>

\* `channel request hangup` ends the call if it is still up; a channel that is
\* gone already is no error.
AdminHangup ==
    LET c == admin.call IN
    /\ admin.pc = "opened"
    /\ IF chan[c] \in {"agi", "talking"}
       THEN /\ \E b \in IF chan[c] = "talking" THEN Charges ELSE {0} : BeginTeardown(c, b)
            /\ AbandonAuth(c)
       ELSE UNCHANGED <<chan, bill, att, cdr, auth>>
    /\ admin' = [admin EXCEPT !.pc = "hungup"]
    /\ UNCHANGED <<routing, pgVars, redisVars, leg, acked, sweep, changes>>

\* The transfer keeps the supplier leg up, on a new destination or on a clip.  A
\* channel still in dids-authorize.py leaves it without an answer.
AdminRedirect ==
    LET c == admin.call IN
    /\ admin.pc = "opened"
    /\ IF chan[c] = "agi"
       THEN /\ chan' = [chan EXCEPT ![c] = "talking"]
            /\ leg' = [leg EXCEPT ![c].kind = "redirected"]
            /\ AbandonAuth(c)
       ELSE UNCHANGED <<chan, leg, auth>>
    /\ admin' = [admin EXCEPT !.pc = "redirected"]
    /\ UNCHANGED <<routing, pgVars, redisVars, bill, att, acked, cdr, sweep, changes>>

\* A command to Asterisk failed, or the browser's connection closed.
AdminGivesUp ==
    /\ admin.pc # "idle"
    /\ admin' = NoAdmin
    /\ UNCHANGED <<sipVars, sweep, changes>>

\* RecordPendingAction, only now that Asterisk has acted.  A redirect to a new SIP
\* destination ends here with livecalls.UpdateRoute, which keeps the row's call.
AdminMark ==
    /\ admin.pc \in {"hungup", "redirected"}
    /\ pending' = pending \cup {Sanitize[admin.call]}
    /\ admin' \in {[admin EXCEPT !.pc = "marked"]}
                  \cup (IF admin.pc = "redirected" THEN {NoAdmin} ELSE {})
    /\ UNCHANGED <<routing, pgVars, actUser, actDid, live, astVars, auth, cdr, sweep, changes>>

\* livecalls.Deregister, after a hangup or a redirect to a clip.
AdminDeregister ==
    /\ admin.pc = "marked"
    /\ live' = [live EXCEPT ![Sanitize[admin.call]] = NoCall]
    /\ admin' = NoAdmin
    /\ UNCHANGED <<routing, pgVars, actUser, actDid, pending, astVars, auth, cdr, sweep, changes>>

AdminStep ==
    \/ \E c \in Calls : AdminOpen(c)
    \/ AdminHangup \/ AdminRedirect \/ AdminMark \/ AdminDeregister \/ AdminGivesUp

-----------------------------------------------------------------------------
(* Orders and DIDs, as far as authorize and /sipctl/cdr see them *)

\* One transaction of an order, DID or user handler.
Reroute(new) ==
    /\ changes < MaxChanges
    /\ new # routing
    /\ changes' = changes + 1
    /\ routing' = new
    /\ UNCHANGED <<pgVars, redisVars, astVars, auth, cdr, sweep, admin>>

Vacant(status) == [status |-> status, user |-> NoUser]
Owned(status, u) == [status |-> status, user |-> u]
\* Every DID of user u in one status goes to another.
UserWide(u, from, to) ==
    Reroute([d \in Dids |-> IF routing[d] = Owned(from, u) THEN Owned(to, u) ELSE routing[d]])

OrderCancelled(d) ==
    /\ routing[d].status \in {"active", "inactive", "blocked", "suspended"}
    /\ Reroute([routing EXCEPT ![d] = Vacant("available")])
OrderCreated(d) ==
    /\ routing[d].status = "available"
    /\ \E u \in Users, status \in {"active", "blocked"} :
        Reroute([routing EXCEPT ![d] = Owned(status, u)])
OrderApproved(d) ==
    /\ routing[d].status = "blocked"
    /\ Reroute([routing EXCEPT ![d].status = "active"])
OrderSuspended(d) ==
    /\ routing[d].status = "active"
    /\ Reroute([routing EXCEPT ![d] = Vacant("suspended")])
DidReserved(d) ==
    /\ routing[d].status = "available"
    /\ Reroute([routing EXCEPT ![d] = Vacant("reserved")])
DidReleased(d) ==
    /\ routing[d].status = "reserved"
    /\ Reroute([routing EXCEPT ![d] = Vacant("available")])
UserBlocked(u)     == UserWide(u, "active", "blocked")
UserUnblocked(u)   == UserWide(u, "blocked", "active")
UserDeactivated(u) == UserWide(u, "active", "inactive")
UserReactivated(u) == UserWide(u, "inactive", "active")

OrderStep ==
    \/ \E d \in Dids :
        \/ OrderCancelled(d) \/ OrderCreated(d) \/ OrderApproved(d)
        \/ OrderSuspended(d) \/ DidReserved(d) \/ DidReleased(d)
    \/ \E u \in Users :
        \/ UserBlocked(u) \/ UserUnblocked(u) \/ UserDeactivated(u) \/ UserReactivated(u)

-----------------------------------------------------------------------------
Next ==
    \/ SipNext /\ UNCHANGED planeVars
    \/ SweepStep
    \/ AdminStep
    \/ OrderStep

Spec == Init /\ [][Next]_vars

-----------------------------------------------------------------------------
(* Properties *)

\* No act:* set ever holds more calls than the cap it was filled under: the Lua
\* script looks and adds in one go, whatever the attempts in flight.
CapRespected ==
    /\ \A d \in Dids : Cardinality(actDid[d]) <= DidCap[d]
    /\ \A u \in Users : UserCap[u] >= 0 => Cardinality(actUser[u]) <= UserCap[u]

\* A call counts against its DID exactly when it counts against some user, and
\* against no other DID, however adds, releases and sweeps interleave.
SetsAgree ==
    /\ \A c \in Calls :
        c \in actDid[DidOf[c]] <=> \E u \in Users : c \in actUser[u]
    /\ \A d \in Dids : \A c \in actDid[d] : DidOf[c] = d

Holds(c, u) == c \in actDid[DidOf[c]] /\ c \in actUser[u]

\* A call connected on an order holds its channel in both sets for as long as it
\* is up, so it is counted.  The sweeps release by sanitized id, so this is
\* stated for calls whose Call-ID has a host part.
LiveCallHoldsChannel ==
    \A c \in Calls :
        chan[c] = "talking" /\ leg[c].kind = "order" /\ ~Bare(c)
            => Holds(c, leg[c].user)

\* authorize was posted once for the call.
OneAttempt(c) == \A n \in Attempts : n > 1 => auth[c][n].pc = "idle"

\* What the cap is sold as: the calls up on a DID's order at one time are no more
\* than its channel count.
ConcurrencyWithinCap ==
    \A d \in Dids :
        Cardinality({c \in Calls : /\ DidOf[c] = d /\ ~Bare(c)
                                   /\ chan[c] = "talking" /\ leg[c].kind = "order"}) <= DidCap[d]

\* A call admitted at the first attempt whose /cdr was answered leaves nothing
\* behind in Redis: no late command of its requests puts the row or the channel
\* back after the deferred clean-up.
CleanAfterAck ==
    \A c \in Calls :
        acked[c] # "none" /\ leg[c].kind # "none" /\ OneAttempt(c)
            => c \notin actDid[DidOf[c]] /\ live[Sanitize[c]] # c

-----------------------------------------------------------------------------
(* The inductive invariant behind the four properties on channels *)

\* Who is asked to reserve or to pay, or has a call up on an order, is a customer.
Owners ==
    /\ \A d \in Dids : routing[d].status \in {"active", "inactive", "blocked"}
                          => routing[d].user \in Users
    /\ \A c \in Calls : leg[c].kind = "order" => leg[c].user \in Users
    /\ \A c \in Calls, n \in Attempts :
        /\ auth[c][n].pc = "reserve" => auth[c][n].user \in Users
        /\ auth[c][n].pc = "write_shell" => auth[c][n].user \notin Users
        /\ cdr[c][n].pc = "tx" => cdr[c][n].user \in Users

\* No request of a call runs before its INVITE, and no /cdr while it is up.
Quiet ==
    \A c \in Calls, n \in Attempts :
        /\ chan[c] = "idle" => auth[c][n].pc = "idle"
        /\ chan[c] \in {"idle", "agi", "talking"} => cdr[c][n].pc = "idle"

\* An attempt past its reservation has the channel for as long as it is of use.
PastReserveHolds ==
    \A c \in Calls, n \in Attempts :
        /\ chan[c] = "agi" /\ ~Bare(c)
        /\ auth[c][n].pc \in {"register", "allow"} /\ auth[c][n].user \in Users
        => Holds(c, auth[c][n].user)

\* The conjunction is inductive: it is what TLC checks before it is proved.
ChannelInv ==
    /\ PlaneTypeOK
    /\ CapRespected
    /\ SetsAgree
    /\ Owners
    /\ Quiet
    /\ PastReserveHolds
    /\ LiveCallHoldsChannel

-----------------------------------------------------------------------------
(* Properties: money *)

ChargesTo(k) == {i \in 1..Len(ledger) : ledger[i].ref = k}

Book == INSTANCE Ledger WITH Accounts <- Users, Refs <- Keys, Opening <- OpeningBalance

\* Every transaction of /sipctl/cdr moves one balance and writes the one line
\* that explains it.
LedgerImplemented == Book!Spec

\* A call is charged at most once per POST that dids-cdr.py made for it, however
\* the POSTs it gave up on overlap with the ones after.
OneChargePerPost ==
    \A k \in Keys :
        Cardinality(ChargesTo(k)) <=
            Cardinality({p \in Calls \X Attempts :
                            Sanitize[p[1]] = k /\ cdr[p[1]][p[2]].pc # "idle"})

\* No other call's Call-ID sanitizes to the same key, so the CDR row is the call's.
OwnKey(c) == \A e \in Calls : Sanitize[e] = Sanitize[c] => e = c

\* While no order changes, a charge goes to the customer the call was connected
\* for, and the call's CDR is that customer's.
BilledToTenant ==
    \A c \in Calls : \A i \in ChargesTo(Sanitize[c]) :
        changes = 0 /\ OwnKey(c) /\ OneAttempt(c) /\ leg[c].kind # "redirected"
            => /\ leg[c] = [kind |-> "order", user |-> ledger[i].user]
               /\ cdrs[Sanitize[c]].kind = "call"
               /\ cdrs[Sanitize[c]].user = ledger[i].user

\* While no order changes, a connected call with something to pay whose /cdr was
\* answered "ok" has been paid for.
AckedCallPaid ==
    \A c \in Calls :
        /\ changes = 0
        /\ acked[c] = "ok" /\ leg[c].kind = "order" /\ bill[c] > 0
        => \E i \in ChargesTo(Sanitize[c]) : ledger[i].delta = -bill[c]

-----------------------------------------------------------------------------
(* Properties: liveness *)

\* The scripts' timeouts end every attempt; the reconciler's ticker keeps firing
\* and each of its steps is taken in turn.
FairSpec ==
    /\ Spec
    /\ \A c \in Calls :
        /\ WF_vars((AuthRetry(c) \/ AuthGivesUp(c) \/ AuthAnswered(c)) /\ UNCHANGED planeVars)
        /\ WF_vars((CdrAnswered(c) \/ CdrAttemptFails(c)) /\ UNCHANGED planeVars)
    /\ WF_vars(ReconcilerSnapshot)
    /\ \A s \in Sweepers :
        WF_vars(SweepList(s)) /\ WF_vars(SweepDeregister(s)) /\ WF_vars(SweepRelease(s))

\* No script holds its channel for ever, whatever didapi does with its requests.
ScriptsEnd ==
    \A c \in Calls :
        /\ chan[c] = "agi" ~> chan[c] # "agi"
        /\ chan[c] = "teardown" ~> chan[c] = "over"

\* The row of a call that is over goes away, whether its /cdr was lost, never
\* sent, or overtaken by a Register still on the wire.
GhostEvicted ==
    \A c \in Calls :
        chan[c] = "over" /\ live[Sanitize[c]] = c ~> live[Sanitize[c]] # c

-----------------------------------------------------------------------------
(* What comments in the code say of it *)

\* asterisk/extensions.conf, hangup handler: "Idempotent on /sipctl/cdr (call_id
\* is the unique key)".  A call is charged once, however often it is posted.
ChargedOnce == \A k \in Keys : Cardinality(ChargesTo(k)) <= 1

\* sipctl.go, reserved DIDs: "No user, no order, no billing".
ReservedNeverBilled ==
    \A c \in Calls : leg[c].kind = "reserved" => ChargesTo(Sanitize[c]) = {}

\* reconciler.go, ReleaseChannelReservations: called after an eviction "so the
\* corresponding concurrency-cap SETs don't stay over-counted".
EvictionFreesChannel ==
    [][\A s \in Sweepers, c \in Calls :
           SweepRelease(s) /\ Sanitize[c] \in sweep[s].evict /\ chan[c] = "over"
               => c \notin actDid'[DidOf[c]]]_vars

\* live_handlers.go, liveForceCleanup: it only touches rows whose channel is gone,
\* "so it can't accidentally drop a real in-flight call".
ForceCleanupSparesLive ==
    [][\A s \in Sweepers \cap {"admin"}, k \in Keys :
           SweepDeregister(s) /\ live[k] # live'[k] => ~InAsterisk(live[k])]_vars
===============================================================================
