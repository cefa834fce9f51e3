# A TLA+ specification of didapi

`didapi` rents out telephone numbers (DIDs). Asterisk asks it at every inbound
call whether, and where, to connect the call, and tells it at the end of the call
what to charge; customers and administrators order, change and cancel numbers
through a web GUI and a REST API; a second program, `didbill`, charges the monthly
fees. State lives in PostgreSQL and Redis and is shared by all of them.

These modules model the program from its Go, Python and dialplan sources (paths
below are relative to `src/`), in three families that share no state but the
balance:

* the **call plane**: what happens to a call between its INVITE and its CDR,
  whatever else goes on meanwhile;
* **rentals and billing**: customers, balances, numbers, orders, KYC bundles and
  rate cards, with every request of the GUI and the API that changes them, the
  monthly charges of `didbill`, and the arithmetic behind the charges;
* the **back office**: bulk imports, audio clips, KYC documents, generated Asterisk
  files, in-memory copies of tables, the administrator's login, resellers.

Examples:

    tlasany  BillingProofs.tla
    tlc      -workers 2 -config call_admission.cfg MCCallPlane.tla
    tlc      -workers 2 -config billing.cfg        MCRentals.tla
    tlapm    RentalsProofs.tla

## 1. Inventory

### The call plane

| Part | State | Operations | Hard behaviours | Correct when |
|---|---|---|---|---|
| SIP control plane, `internal/sipctl` | `cdrs`, `users.balance_cents`, `balance_ledger` (PostgreSQL); `act:user:<id>`, `act:did:<id>` (Redis) | `POST /sipctl/authorize`, `POST /sipctl/cdr` | many INVITEs race for one cap; retries overlap with the attempt they replace; a request whose client has gone still lands its command in flight and then stops, deferred clean-up included; the order is looked up again at hang-up | caps hold; a live call is counted, a finished one is not; a call is paid for once, by its customer |
| AGI scripts and dialplan, `asterisk/` | the channel | `dids-authorize.py` (2 s, 3 attempts), `dids-cdr.py` (5 s, 3 attempts), hang-up handler | timeouts racing late answers; the script killed with its channel | every script ends; a call is reported |
| Live-calls index, `internal/livecalls` | `live:*` rows, `pending:admin_action:*` marks (Redis) | Register, Deregister, UpdateRoute, Get, List, RecordPendingAction, PopPendingAction | keyed by the sanitized Call-ID while `act:*` holds full Call-IDs | rows follow calls |
| Reconciler, `internal/livecalls/reconciler.go` | none of its own | per tick: channel snapshot, listing, eviction, release of channels | acts on a snapshot that is stale by the time it evicts | ghosts go, live calls stay |
| `/live` administration, `internal/web/live_handlers.go` | none of its own | hang up, redirect, force cleanup | the call's own teardown runs at the same time; Asterisk's answer may be missing | no double charge, no live call dropped |

Asterisk calls the scripts; the scripts POST to didapi over HTTP; both handlers
share PostgreSQL and Redis with the reconciler goroutine and the administrator's
handlers, which also run commands in Asterisk.

### Numbers, orders and customers

| Part | State | Operations | Hard behaviours | Correct when |
|---|---|---|---|---|
| Admin GUI, `internal/web/{crud,did_handlers,block_handlers}.go` | `dids.status`, `orders`, `users.status`, blocked-order stash, ledger | create / update / swap / cancel an order; reserve, release, retire a DID; block, unblock, update a user; top up | `orderUpdate` reads outside its transaction and writes every column back; checks and writes in separate statements; unblocking restores a stash over later edits | a DID has at most one order that carries calls; DID status and orders agree; a blocked user's orders are quarantined; balance and ledger move together |
| Reseller API, `internal/resellerapi` | the same tables | createOrder, cancelOrder, updateOrder, KYC upload | the same rows from other processes, with other locks | the same, whoever acts |
| KYC, `internal/kyc` | bundles, `orders.status = kyc_pending` | submit, approve, reject a bundle | one UPDATE activates all waiting orders; one conflicting order fails all | an order that needs KYC carries no call before approval |
| didbill, `internal/billing` | `orders.next_billing_at`, channel counts, `billing_runs`, ledger | per due order: charge, downgrade or suspend | overlapping runs pick the same orders; the ladder may go down to 0 channels | an order pays each month once |
| Rating, `internal/domain`; rate cards in `crud.go` | rate cards and their validity | ChargeForCall, MaxSecondsForBalance, NextAnniversary | minimum before increment; month ends | monotone, never free by rounding, never a skipped month |

### The rest

| Part | State | Operations | Hard behaviours | Correct when |
|---|---|---|---|---|
| DID import, `internal/didsimport`, `web/dids_import.go` | jobs in memory, their event channel; `dids` | parse, worker, SSE reader, registry and reaper, the older range form | channel fills up when nobody reads; the final event may be dropped; two imports insert the same numbers | every job ends, counts what it did and is not forgotten before; every stream ends |
| Audio files and groups, `internal/audio{,group}`, `web/audio_*` | clips (row and file), groups, reservations, last-played key | upload, bulk upload, rename, delete, group and member changes, reserve, pick | file and row change in separate steps; checks and writes in separate statements; two picks read the same last-played clip | a row has its file; a reserved number has something to play; no clip twice in a row |
| KYC documents, `web/kyc_handlers.go`, `resellerapi/kyc_handlers.go` | files, rows | upload, delete | two names come to one file name; failing uploads and stale deletions remove by name | a row's file is what was uploaded |
| Asterisk configuration, `internal/asteriskcfg` | two generated files | regenerate after a change, reload | concurrent regenerations share one temporary file; a query may come short | no torn file; Asterisk runs what the rows say |
| Settings, causes, certificates | copies of three tables behind a lock | read, reload after a write | reloads cross, fail or come short | the copy is the table |
| Setup and login, `web/setup_handlers.go`, `internal/auth` | `admins`, sessions (library) | first administrator, `ADMIN_PASSWORD`, login, password change | two first administrators | one is welcomed, and can log in |
| Resellers, `web/crud.go`, `resellerapi` | `resellers`, `api_keys`, `users.reseller_id` | create, delete, keys, put a user under one | the count before a deletion is outside its transaction | a user keeps its reseller |
| SIP traces, call quality, search, export, pagination, pages | none | read-only | none that changes state | — |
| `cmd/*`, `internal/{config,db}`, migrations | the schema | start-up | — | — |
| Kamailio, deployment, demo video | — | — | Kamailio is not on the call path of this deployment | — |

## 2. Modules and their correspondence to the code

| Module | Models |
|---|---|
| `ChannelReservation` | `reserveLua` (`ReserveCode`) and the SREM loops (`Without`) as functions of the two `act:*` sets; `SanitizeCallID` as a constant function from Call-IDs to keys |
| `SipCtl` | Asterisk's channel, both scripts, and both handlers |
| `CallPlane` | `SipCtl` together with the reconciler, force cleanup, an administrator's hang-up and redirect, and the order, DID and user handlers as far as the call plane sees them; all properties |
| `Ledger` | abstract specification of `users.balance_cents` and `balance_ledger` |
| `Rating` | `ChargeForCall`, `MaxSecondsForBalance`, the monthly fee and its ladder, `NextAnniversary` |
| `Rentals` | users, balances and ledger, DIDs, orders, KYC bundles and rate cards, with the handlers of GUI and API; extends `Rating` |
| `Billing` | `didbill` beside all of `Rentals`: runs, `processOne`, time; extends `Rentals` |
| `DidImport` | parsers, worker, event channel, SSE readers, registry, reaper |
| `AudioLibrary` | clips, groups, reservations, `PickMember` |
| `KycDocuments` | the files and rows of a bundle's documents |
| `AsteriskConfig` | `RegenSupplierIdentifies`, the users' file, `WriteFileAtomic`, reload |
| `Snapshots` | the copies of `settings`, `hangup_causes` and `domains` |
| `AdminLogin` | setup, `EnsureAdmin`, login, password change |
| `Resellers` | resellers, API keys and who is under whom |
| `MCCallPlane`, `MCRentals`, `MCBackoffice` | instances for TLC; the last composes the seven modules before it |
| `CallPlaneProofs`, `CallMoneyProofs` | theorems about `CallPlane`: channels and the refinement of `Ledger`; what a call leaves behind, and who pays |
| `RatingProofs`, `RentalsProofs`, `BillingProofs` | theorems about the modules of those names |
| `BackofficeProofs` | theorems about `AdminLogin`, `Snapshots`, `KycDocuments`, `AudioLibrary`, `Resellers` |
| `BackgroundProofs` | theorems about what runs in goroutines: `AsteriskConfig`, `DidImport` |
| `MCBackofficeProofs` | every behaviour of `MCBackoffice` is one of each of its components |

### The call plane

**Requests.** A handler is a small state machine per request (`auth[c][n]`,
`cdr[c][n]` for call `c` and the script's attempt `n`), one action per external
command, so requests interleave wherever the code lets them. `decide` up to the
Lua script is one action per outcome (`DecideRefuse`, `DecideDeny`,
`DecideReserved`, `DecideAdmit`) because it only reads; then come `Reserve` or
`ReserveDenied`, `WriteShell`, `PickFails`, `Register`. `/sipctl/cdr` is
`CdrLookup` / `CdrNoOrder` / `CdrLookupFails`, the transaction (`CdrCommit`,
`CdrTxFails`), and the deferred `CdrRelease` and `CdrDeregister`. Go cancels a
request's context when its client closes the connection: an abandoned request may
still land the one command it has on the wire (`AuthMoves`, `CdrMoves` then put it
in "gone") or be stopped before it (`DropAuth`, `DropCdr`), and does nothing more.

**Identifiers.** `reserveLua` adds full Call-IDs. `live:*`, `cdrs.call_id` and the
admin marks use the part before "@". The reconciler and force cleanup only know the
latter. `Sanitize` maps calls to keys; a call whose Call-ID has no host part
(`Bare`) is its own key.

**Sweeps** take a snapshot of Asterisk's channels, list the index, deregister the
victims one by one and release their channels, each a step of its own
(`ReconcilerSnapshot`, `SweepList`, `SweepDeregister`, `SweepRelease`). Force
cleanup's snapshot may come back empty because `channelStates` answers nil on an
error (`ForceCleanupSnapshot`), and the browser may go away (`ForceCleanupCut`).

**Orders and DIDs** appear as `routing[d]`: what `authorize` finds for the DID. An
order or DID handler's transaction is one change of it. Moving an order to another
DID is a cancellation of one and a creation on the other; a retired DID behaves like
an available one: both are denied.

Abstractions and assumptions:

- Redis and PostgreSQL commands are atomic. Redis commands succeed unless the
  request's context is cancelled; SQL statements may fail where the code has an error
  path.
- The two SELECTs of `decide` are one read. The supplier's address list and URI
  checks are part of `DecideRefuse`, which may happen at any time. `denied_calls`
  rows and logging are left out.
- Caps are constants. The keys' lifetimes (2 h, 4 h, 6 h) are left out: time does
  not appear.
- The SCAN pages of a release are one step.
- `DidOf` is the dialled DID for both handlers, which parse it from the same URI.
- `ChargeForCall` is an outcome from `Charges`, drawn when the call ends, the same
  for every attempt; `MaxSecondsForBalance` is a threshold on the balance.
- `AudioGroupDids` over-approximates: for these DIDs the pick may fail or not. An
  order of that kind has no clip of its own: `orders.route_target` is NOT NULL
  (`migrations/0001_init.up.sql:123`), so switching an order to a group fails.

### Rentals and billing

**Requests.** A transaction is one action; so is a statement outside any. A handler
whose write relies on an earlier read that nothing locks is two, and the request in
between is a *clerk*'s `job`: `orderUpdate` and the API's `updateOrder`
(`EditOpen`, `EditWrite`), `didRetire` (`RetireOpen`, `RetireWrite`),
`rateCardUpdate` (`PriceOpen`, `PriceWrite`). The two creates (`CreateOpen`,
`CreateFinish`) are one transaction each, but a long one in which the balance is
computed from the row read first. They lock the customer's row, and the API's locks the DID's too:
`Locked(u)` and `DidFree(d)` keep away whatever would wait for the lock, and nothing else.
`Abandon` ends a request anywhere: a failing statement, a lost connection, a stop of
the process.

**Rows.** `orders` and `cards` are sequences indexed by id; rows are never deleted.
`Accepts` is the partial unique index on active orders: an UPDATE that would break it
fails as a whole. `UserDelete` needs a user without orders because `orders.user_id` is
ON DELETE RESTRICT.

**History variables** name where the code lets go, so that properties can say what it
keeps otherwise: `unguarded` (DIDs that `orderCreate` or `didRetire` wrote out of turn),
`overridden` (users whose status the edit form wrote), `vetted`, `overlapped` (two
runs of `didbill` at a time), an order's `moved` and `bills`.

**Billing.** A run is its start time and the due orders it read. `ProcessOne` is one
serializable transaction: charge on the highest rung of the ladder the balance pays,
or suspend. `ProcessFails` skips an order, `KillRun` the rest of the list. The timer's
process never runs twice at a time; one started by hand may overlap it.

**Rating.** Money is in cents and rates in 1/10000 cent. Where the exact result is on
the edge of a rounding, float64 may fall on either side: these operators return a
set. A month has `MonthLength` days.

Left out: where an order routes its calls, and so the route that a block stashes and an
unblock puts back; more than one (supplier, country, type) slot; validity windows in
the future.

### The back office

| Module | One action is |
|---|---|
| `DidImport` | a step of the worker between two emits, an event sent or dropped (`Emit`, `Drop`), a row's INSERT, an event taken by a browser, the reaper's tick. `waits` counts the seconds lost to a full channel, `SlowDb` lets the ten minutes end at any time |
| `AudioLibrary` | a file made or removed, a statement, a Redis command; a request between two of them is a `desk`, an INVITE a `dialog` |
| `KycDocuments` | open (truncating), copy, INSERT, DELETE, remove |
| `AsteriskConfig` | a handler's commit with the start of its goroutine; a goroutine's query, open, write, rename, reload. `handle` is the name a goroutine's open file has by now, since a rename moves it under the goroutine |
| `Snapshots` | a row written, a table queried, a copy swapped |
| `AdminLogin` | a form's check, its write; a start of didapi |
| `Resellers` | a count, a transaction, an authenticated API call |

They share no state. `MCBackoffice` has one variable, `part`, that says which of them,
or which use of one, a behaviour explores; the others stay in their initial state, so
that one run checks them all without multiplying them.

Here too history variables (`unsure`, `emptied`, `shared`, `doubted`, `crossed`,
`missed`, `doubtful`, `late`, `blind`) name the exceptions the code has: an INSERT whose client
went away may be there although its file was removed; two goroutines that write
the same `<file>.new` may leave a torn file; a reload that lost its connection takes the rows it
got for all, since none of the loops over `rows.Next()` asks `rows.Err()`; a count that
fails is taken for 0. A property holds for everything else.

## 3. Runs

Deadlock is not checked: every call ends, and a system with no more calls stops; the
other instances stop where their bounds are reached.

| Run | Instance | Shows | States |
|---|---|---|---|
| `call_admission` | two calls, one tried twice, on one DID with one channel | caps hold (`CapRespected`), so do the calls really up (`ConcurrencyWithinCap`), and a call whose `/cdr` was answered leaves no row and no channel (`CleanAfterAck`) | 0.71 M |
| `call_sweeps` | the same DID with two channels, a customer capped at one call, one bare Call-ID, force cleanup | the inductive invariant (`ChannelInv`, with its parts `PlaneTypeOK`, `SetsAgree`, `LiveCallHoldsChannel`) | 0.84 M |
| `call_billing` | one call, `/cdr` tried twice, two customers, an administrator, two order or DID changes | `OneChargePerPost`, `BilledToTenant`, `AckedCallPaid`, and `LedgerImplemented`: the call plane implements `Ledger` | 1.7 M |
| `call_liveness` | one call, both scripts tried twice, the reconciler | `ScriptsEnd`, `GhostEvicted` | 0.17 M |

| `rentals` | two requests at a time, one of which may edit, on two DIDs, for one customer who orders and another with an approved bundle; two orders, one card | `DidAgrees`, `KycGate`, `QuarantineFollowsBlock`, `EndedStaysEnded`, `RentalsTypeOK` | 2.5 M |
| `billing` | two `didbill` processes, one failure or kill, days 0 to 2 with months of one day; one customer, one order with three channels, a setup fee, calls and top-ups; no DID is retired | `LedgerBalances`, `ChargedPerMonth`, `RentNeverOverdraws`, `DueSettled`, `BillingTypeOK` | 0.65 M |
| `backoffice` | each component with two requests, goroutines, imports or browsers; a channel of one event, an import that may be slow and may panic | the 17 properties of the seven modules | 0.5 M |

What the properties need besides:

- `CleanAfterAck` is stated for calls authorized at the first attempt: a replaced
  attempt may add its channel after the teardown removed it, and then nothing
  takes it away before the key expires.
- `LiveCallHoldsChannel` and `ConcurrencyWithinCap` are stated for Call-IDs with a
  host part. A bare Call-ID *is* its sanitized form, so a force cleanup that could
  not read the channel list frees the channel of a live call.
- `BilledToTenant` and `AckedCallPaid` are stated while no order changes; the
  finding below shows why. `BilledToTenant` also needs a Call-ID whose key is its own
  (`OwnKey`): two Call-IDs that differ only behind the "@" share one CDR row
  (`internal/domain/domain.go:290`), which then names the customer of one of them.
- `DidAgrees` is stated for DIDs that were never `unguarded`, `QuarantineFollowsBlock`
  for customers whose status no form wrote, `ChargedPerMonth` unless two runs overlapped and for orders
  whose anniversary stayed. Each exception is a write the code makes without looking,
  and without it TLC has a counterexample.
- The back office's properties except what their history variables name.

**Bounds.** *Call plane.* Two calls are enough for a race for the last channel, and one more
attempt for each overlap of a request with its replacement; the scripts make three
attempts, but the third meets the second as the second meets the first. Two order
changes release a reserved DID and rent it out. `Charges = {0, 2}` has a free and a
paid call. *Rentals.* A race needs two requests and either one DID with two orders or one order that
moves between two DIDs; a second customer is there for bundles that are not one's own. Cards are free in
this instance and money is left to the next. *Billing.* Three channels are one more than the
MRC includes, so the ladder has two fees; two months and one failure let an order be
charged, fail, and be charged again; months of one day make each day an anniversary. *Back office.* Two
of everything that races; a channel of one event is full after one, and a deadline of one second
is over after one drop, as with 1024 and 600. The theorems below have no bounds other
than the scripts' three attempts.

**Fairness** (`FairSpec`). The scripts' steps are weakly fair because each HTTP call
has a timeout and each loop a last attempt; the handlers' steps are *not* fair:
didapi may never answer. The reconciler's snapshot is weakly fair because a ticker
drives it, and so are its listing and eviction. A failing `core show channels` would
make a tick do nothing: liveness assumes it succeeds now and then. Nothing is assumed of
callers, administrators or customers.

`BillingFairness`: the systemd timer starts a run whenever none of its own is on (weakly fair) and a run goes on
through its list. `ProcessOne` waits for the customer's row, which creates may lock over and over: PostgreSQL
queues waiters, hence strong fairness; and a request ends (`Abandon`), by its timeout if nothing
else. With `ProcessFails` and `KillRun` bounded, `DueSettled` follows. `ImportFairness`: the Go scheduler runs a
goroutine that can go on, the worker's and the readers'. Browsers need not come, stay or go.

**Findings** (runs that end in a violation, each of a statement in the sources):

| Run | Statement | What the code does |
|---|---|---|
| `find_charged_twice` | `asterisk/extensions.conf:110`: "Idempotent on /sipctl/cdr (call_id is the unique key)" | the CDR row is, the debit is not: a POST that times out after its commit and is posted again charges twice |
| `find_reserved_billed` | `internal/sipctl/sipctl.go:587`: "No user, no order, no billing" | `/cdr` looks for the DID's order at hang-up: a DID released and rented out during the call has the new customer pay for it |
| `find_ghost_channel` | `internal/livecalls/reconciler.go:230`: the sets "don't stay over-counted" after an eviction | the eviction removes sanitized Call-IDs from sets of full ones |
| `find_import_held_up` | `internal/web/dids_import.go:94`: "the import outlives the HTTP request"; `internal/didsimport/job.go:153`: "Non-blocking" | an import that nobody streams waits a second for each event after the first 1024, runs into its ten minutes and ends `errored` with part of its rows |
| `find_force_cleanup` | `internal/web/live_handlers.go:295`: it "can't accidentally drop a real in-flight call" | when `core show channels` fails every row counts as without a channel |

**Seen while modelling**, without a run of their own:

- Routing an order to an audio group never saves: `orderUpdate` writes a NULL `route_target`
  (`internal/web/crud.go:1884`) into a NOT NULL column (`migrations/0001_init.up.sql:123`).
- `host(m.cidr)` (`internal/asteriskcfg/asteriskcfg.go:113`) drops the mask: a network in a supplier's
  IP group matches its first address alone. `AsteriskConfig` has this as `HostOf`.
- The bulk import of rate cards leaves every NRC at 0 (`RateCardCreateBulk`).
- `userDelete`'s comment (`internal/web/crud.go:1398`) tells of a cascade; the foreign key is ON DELETE RESTRICT, so
  a user with any order, cancelled ones included, cannot be deleted (`UserDelete`).
- `resellerDelete`'s comment (`internal/web/crud.go:2457`) rules out a "silent reassignment"; it happens when
  the count fails or a user is added after it (`blind`, `late`).
- The page that adds a TLS domain does not reload the copy (`DomainCreate`); blocking or editing a user does not
  regenerate the users' file (`UserStatus`), nor does a start of didapi.
- Login trims the password, setup and the change of it do not: a password with a space at an end locks
  out (`Trimmed`). `ADMIN_PASSWORD` resets a changed password at every start.
- A suspended order keeps its DID assigned; `didRetire` does not count it.

## 4. Proofs

### The call plane

`CallPlaneProofs` proves, for any finite set of calls, any keys, DIDs, customers and
caps, from the assumptions `ReservationAssumption`, `SipCtlAssumption` and
`CallPlaneAssumption` on the constants:

| Theorem | States |
|---|---|
| `Inductive` | `Spec => []ChannelInv` |
| `TypeCorrect`, `CapsHold`, `SetsStayInStep`, `LiveCallsHoldChannels` | the four properties that are its conjuncts |
| `ConcurrencyHolds` | `Spec => []ConcurrencyWithinCap` |
| `LedgerHolds` | `Spec => LedgerImplemented`, the refinement of `Ledger` |

*The argument.* `LiveCallHoldsChannel` is not inductive by itself. A call goes up
because one of its attempts was allowed, so that attempt must hold the channel from
the moment it reserved it: `PastReserveHolds`. That in turn survives only if nothing
else removes the channel while the call is in `dids-authorize.py`: no `/cdr` of a call
runs before its teardown (`Quiet`), and sweeps remove sanitized ids, which are the
Call-IDs of no call with a host part. `Owners` says that whoever is asked to reserve
or pay is a customer, so the sets and the balance written exist. `CapRespected` uses
that `reserveLua` looks and adds in one step: `RoomForOne`. `SetsAgree` uses that every
removal is from all sets of both kinds.

*The layout.* Each group of actions has a lemma for types (`AsteriskType`,
`AuthorizeType`, `CdrType`, `SweepType`, `AdminType`, `OrderType`). The steps are then
sorted by what they do to the sets (`AuthorizeShape`, `CdrShape`, `SetsChange`:
reserve one channel, lose some, or leave both kinds alone), so the lemmas on caps and
agreement (`LoseKeepsCaps`, `ReserveKeepsCaps`, `LoseKeepsAgreement`,
`ReserveKeepsAgreement`) see three cases and not thirty. `NextHeld` does the same for
the calls' own states.

### Rentals and billing

`RentalsProofs` and `BillingProofs` prove, for any sets of users, DIDs, bundles, requests and
`didbill` processes and any bounds, from `MonthAssumption`, `RentalsAssumption` and
`BillingAssumption`:

| Theorem | States |
|---|---|
| `RentalsTypeCorrect`, `DidAlwaysAgrees`, `KycGateHolds`, `QuarantineIsOfBlocked` | `RentalsSpec => []P` for `RentalsTypeOK`, `DidAgrees`, `KycGate`, `QuarantineFollowsBlock` |
| `EndedForGood` | `RentalsSpec => EndedStaysEnded` |
| `BillingTypeCorrect`, `HandlersBesideBilling` | the same invariants with `didbill` running: `BillingSpec => []P` |
| `LedgerAlwaysBalances` | `BillingSpec => []LedgerBalances` |
| `NeverChargedTwice` | `BillingSpec => []ChargedPerMonth` |
| `RentIsCovered` | `BillingSpec => RentNeverOverdraws` |

*The argument.* `RentalsInv` is the conjunction of the invariants with five more.
`CreatesAgree`: a create that is under way still has the balance it read, since whatever moves a
balance needs the row it has locked; `OneCreate`: and no other create has locked the same
customer. These two make `LedgerBalances` inductive, for the balance `CreateFinish` writes is one it computed
earlier. `EditsAgree`: an edit under way names an order that exists and a bundle of its
customer. `ApprovedVetted`: an approved bundle is in `vetted`, so that an order that starts
active satisfies `KycGate`. `OwnersExist`: an order's customer is not deleted.
Steps are then sorted by what they do to a row (lemmas `Movers`, `EditRow`, `CancelRow`, `SwapRow`,
`CreateRow`, `RowsKept`), to a balance (`BalanceMoves`) and to a DID (`DidStep`: only `CreateFinish` and
`RetireWrite` write `dids.status` without its guard).

`BillingInv` adds, unless runs have overlapped, `Scheduled` and `Alone`: an order's next charge is on
its anniversary, `first + bills * MonthLength <= next`, its last charge was due when it was made; and one process runs at most, in whose
list each date is still the order's. The step is that `NextAnniversary` from the start of a run that found the order due
lies a month at least after the date found (`MonthBetween`, `CountedMonths`).

`RatingProofs`: `AuthorizedCallIsPaid` (a call cut at the seconds authorized for a balance costs at most that
balance and one cent, the cent being the float's), `NextAnniversaryIsFirst` (never
today, never a month skipped; needs months of 28 days or more), `LadderPays`.

### What a call leaves behind

`CallMoneyProofs` extends `CallPlaneProofs` and proves under the same assumptions:

| Theorem | States |
|---|---|
| `AcksAreClean` | `Spec => []CleanAfterAck` |
| `OneChargeEach` | `Spec => []OneChargePerPost` |
| `ChargesGoHome`, `AckedMeansPaid` | `Spec => []BilledToTenant`, `Spec => []AckedCallPaid` |
| `MoneyInductive` | `Spec => []MoneyInv`, the invariant behind them |

*The argument.* The two handlers are paths: `AuthFlow` and `CdrFlow` list the moves of a request, and
`AuthorizeEffect` and `CdrEffect` show that every action is such a move and what else it writes. The proofs then
follow the paths and not the thirty actions.

- `CleanInv`. A call authorized at the first attempt has no other request that could add it again. `InOrder`: no
  answer to `/cdr` before the call's end and no leg before it is answered; `ListedLate`: whoever finds the call in the index
  finds it after that attempt got through; `StaysOut`: from then on what a `/cdr` has taken out of the sets and
  the index stays out. Sweeps only remove.
- `ChargeInv`. `Cardinality(ChargesTo(k)) <= Cardinality(PastTx(k))`: the POSTs of a key that are past their transaction
  are at least as many as its charges. `CdrCommit` adds one to each, and nobody returns from
  beyond the transaction. The bound on all POSTs follows.
- `TenantInv`, while no order has changed: the DID's order still has the customer it had
  (`GatesKept`, `LegOfHome`), the call's CDR row is that customer's (`RowOfHome`), and one attempt leaves no
  shell row where the call goes through (`NoShell`).
- `PaidInv`, while no order has changed: a request on its way to answering "ok" has paid.

### The back office

`BackofficeProofs`, `BackgroundProofs` and `MCBackofficeProofs` prove, for any sets of clips, groups, documents, browsers,
imports, numbers, readers, goroutines, resellers and requests, from the assumption of each module on its constants:

| Theorem | States | of |
|---|---|---|
| `SetupWelcomesOne` | `[]SetupOnce` | `AdminLogin` |
| `CopiesAreFresh` | `[]SnapshotFresh` | `Snapshots` |
| `DocumentsIntact` | `[]DocIntact` | `KycDocuments` |
| `RowsHaveFiles`, `ReservationsPlay`, `NeverTwiceInARow` | `[]RowHasFile`, `[]ReservationPlays`, `[]NoRepeat` | `AudioLibrary` |
| `UsersStayWithReseller` | `[]UsersKeepReseller` | `Resellers` |
| `FilesStayWhole`, `AsteriskFollows` | `[]ConfigIntact`, `[]ConfigCatchesUp` | `AsteriskConfig` |
| `SummaryAddsUp`, `AddedByOne`, `RegistryKnows`, `StreamSaysDone` | `[]CountersAddUp`, `[]AddedOnce`, `[]KnownWhileRunning`, `[]LoneReaderSeesDone` | `DidImport` |
| `VerdictStands` | `EndIsFinal`, an action property | `DidImport` |
| `LoginTypeCorrect`, `SnapshotTypeCorrect`, `DocTypeCorrect`, `AudioTypeCorrect`, `ResellerTypeCorrect`, `ConfigTypeCorrect`, `ImportTypeCorrect` | the type invariants | each |
| `OfficeImplementsParts` | `OfficeSpec` implements the seven specifications | `MCBackoffice` |
| `OfficeTypeCorrect` | `[]BackofficeTypeOK` | `MCBackoffice` |

*The arguments.* None of the properties is inductive.

- `LoginInv`: whoever was welcomed left a row behind, so a second setup that had counted no administrator either meets the unique
  email.
- `SnapshotInv`: `CleanReloads` says that a reload that began alone still is the only one of its table and has read what
  is stored; `SureReloads`, that a table in no doubt has no other kind.
- `DocInv`: what an upload writes goes to the file under its name (`UploadsLinked`), two holders of a name are known to
  share it (`SharersKnown`), and a deletion that removes a file is past its row (`ErasersLate`).
- `AudioInv`: names that are given out and types (`AudioTyped`); a row is inserted behind its file and a file
  removed behind its row (`RowsInv`); what the foreign keys of groups and members say, and what a
  reservation that has looked still relies on (`PlacesInv`); a choice under way has two clips at least, and
  the key it read still stands unless somebody overtook it (`PicksInv`).
- `ResellerInv`: whoever is under a reseller that a deletion has counted came later (`late`), or the count failed
  (`blind`).
- `ConfigInv`, for each file: while one goroutine writes it at most, its `<file>.new` is what that one wrote (`WritesAlone`), so what a
  rename puts in place is whole (`PlacedWhole`); what it read is what the rows say (`ReadsLast`), hence what is placed
  (`PlacedLast`) and loaded (`LoadedLast`). `Sole`, `Placed` and `Served` let these hold again once a goroutine has begun alone.
- `ImportInv`: per job, where the worker is decides what it has counted (`Uncounted`, `StatusAtPlace`,
  `Position`, `AddsUp`) and sent (`LastWords`); the numbers in its name in the table are as many as it added (`OwnInv`); the
  registry has it while it runs (`RegistryInv`); and whoever reads it alone has seen all that was sent
  (`StreamInv`). Each of the worker's steps is a lemma about one record (`JobStep`); `JobMoves` carries it to the whole state.
  `JobsMove` says what any step does to a verdict and a channel, for `VerdictStands` and the bound on the channel.

The inductive invariants (`CleanInv`, `ChargeInv`, `TenantInv`, `PaidInv`, `LoginInv`, `SnapshotInv`, `DocInv`,
`AudioInv`, `ConfigInv`, `ImportInv`) were checked by TLC on instances of this size before they were proved.

Two things in the models are as they are for the proofs. The parsers of `DidImport` are sets, `Parse(form)` holding the one way to read
a form or nothing: `InOrder` describes the order of the kept rows where a program would loop. `BulkOpen`
takes the highest number of a name as *some* number above which none is taken. Assumptions only tell names of different
kinds apart (no clip is `NoClip`, no import is `Nobody`, no peer is called `cut`).

### Only model-checked

`ScriptsEnd`, `GhostEvicted`, `DueSettled`, `WorkerEnds`, `StreamsEnd`: liveness under fairness is out of the
prover's reach. Every safety property of a passing run is a theorem. That `InOrder` holds exactly one sequence needs an
induction over the rows; the theorems need only that whatever it holds is made of kept rows. What a violating run
shows is not a theorem's matter.

## 5. What is left

1. `routing` of `CallPlane` as a refinement of `Rentals`, which needs orders' routes there.
2. A collision of two Call-IDs on one key, and the lifetimes of the Redis keys.
3. Each handler of the GUI as a refinement of a single atomic change, where the locks make it one.

## 6. Not modelled

Listed in `PROJECT.json` with the reason: read-only pages, exports, search and
pagination (most of `web.go` and of `resellerapi/extended.go`); packet-capture and quality analysis; deployment;
Kamailio; the demo video. They change no state that anything else reads. Of the call plane: the lifetimes of Redis keys, a Redis
server that fails, and the wording of answers. Of rentals: routes and their stash. Of the
back office: the ACME client and certificate files, ffmpeg, the CSV grammar and the
prefix table, file sizes and types. A restart of didapi loses running imports, which live in memory: `DidImport`
has no restart, since everything of it but the rows inserted is gone then.
