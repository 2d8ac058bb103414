# Verification of the charging platform

The repository is a charging-station platform: a FastAPI service over PostgreSQL
(`src/charging_core`), web pages and a Qt desktop client.  Users recharge a wallet,
reserve a charger, charge, and pay an invoice; administrators adjust money, review
withdrawals and maintain chargers; a background coordinator expires reservations and
stops capped sessions.  This directory holds TLA+ models of the parts whose
correctness is hard to test, the TLC runs that check them, and TLAPS proofs.
Paths below are relative to the repository root.

## 1. Inventory

| Component | Code | State it keeps | Operations | What makes it hard |
|---|---|---|---|---|
| Charging service | `src/charging_core/service.py` | `charging_order`, `charger`, `app_user`, `wallet_entry` rows | reserve, start, cancel, stop, `_settle`, pay | row locks taken in different orders; the same order ended by user, coordinator or a later reserve |
| Coordinator | `service.py` `reconcile_once`, `api.py` `coordinator` | none of its own | one pass per interval: expire, settle capped | acts on unlocked scans and snapshots; one exception ends the pass |
| Account service | `account_service.py` | wallet, withdrawals, vehicle, OTP challenges, admin lockout | OTP login, admin login, recharge, withdraw, save_vehicle, profile | replays, concurrent first requests, attempt counters |
| Console service | `console_service.py` | the same rows, from the administrator's side | money, review_withdrawal, charger_edit, user_save, user_delete, order_command | edits race with sessions; savepoints undo partial work |
| Admin service | `admin_service.py` | stations, chargers, tariffs, user status | set status, restart, create, update, delete | a maintenance command must not touch a charger in use |
| Billing meter | `billing.py` | none (pure) | meter | tariff boundaries, two caps, rounding |
| Event feed | `events.py`, `api.py` websocket | `domain_event`, one cursor per socket | emit_event, events_after | ids are allocated before commit |
| Map service | `maps.py` | a cache, a lock, the time of the last request | fetch, geocode, reverse, route | a lock with a re-check, request spacing, failures |
| HTTP API, tokens | `api.py`, `*_routes.py`, `security.py` | none | routes, token check | request validation bounds the inputs of the models |
| Schema | `schema.sql` | constraints, indexes | | the constraints are claims about the code, so they appear as properties |
| Queries, forecast, seed, CLI | `queries.py`, `forecast.py`, `seed.py`, `cli.py` | none, or written before start | read only, or run once | not concurrent |
| Mobile page | `static/mobile.js`, `mobile-reference.js` | the active order and its poll, token, balance, selected station and charger, all in one browser page | sign in, browse, reserve, start, stop, pay, recharge | every await may be answered late, twice pressed, lost or cut off by a reload |
| Console page | `static/admin.js`, `admin-activity.js`, `admin-forecast.js` | one snapshot of the rows, one editor, one drawer, selections | forms, toggles, refreshes, filters, forecasts | answers arrive for forms and lists that were closed or changed since |
| Dashboard page | `static/dashboard.js`, `dashboard-details.js`, `dashboard-analytics.js` | the rows shown, a selected station, a token, an imported history | refreshes every 30 s, login, selection, charts | refreshes overlap; three scripts write to the same elements |
| Page documents | `static/*.html`, style sheets | none | markup | |
| Desktop client | `desktop/src/client.cpp`, windows | request queue, session, reconnect timer | get, post, websocket | stale answers after logout, backoff |
| Scripts | `scripts/` | none | smoke tests, packaging, import | used as documentation of intent |

## 2. Modules

| Module | Models | Composes |
|---|---|---|
| `Null`, `Clock` | the empty value; the clock of the timed services | |
| `Totals` | sums: SQL `sum` over finitely many rows, a cardinality, and the loop over a list, a recursive function | |
| `Invoices` | the invoices the meter may return, as the rest of the system sees it | |
| `ChargingCore` | five tables and every command on them, each command as the one transaction it commits | `Totals`, `Invoices` |
| `ChargingProperties` | what those tables promise | `ChargingCore` |
| `ChargingTx` | the same commands as their statements and row locks, and `reconcile_once` as a process | `ChargingCore` |
| `ChargingTxProperties` | refinement, progress, and what the coordinator may say | `ChargingTx` |
| `Billing`, `BillingProperties` | the loop of `meter` | `Invoices`, `Totals` |
| `EventFeed` | `domain_event` and the websocket loop | |
| `DesktopClient`, `DesktopProperties` | `ApiClient` and the snapshot rounds of the two windows | `EventFeed` |
| `SignIn`, `SignInProperties` | one-time codes, statement by statement, beside an administrator's edits | `Clock` |
| `ConsoleLogin` | password attempts and the lockout of the console | `Clock` |
| `MapFetch` | the cache, the lock and the pacing of the map service | `Clock` |
| `Maintenance` | creation and deletion of stations, chargers and users beside the commands that refer to them | |
| `Purchase` | what a customer is promised: one order at a time, a bill fixed once, no payment of another amount than the one agreed to, no order left open | |
| `MobileOrder` | an order on the mobile page, from the reservation to the payment, with every call in flight | implements `Purchase` |
| `MobileAccount` | the token, the balance shown, profile calls and recharges of the mobile page | |
| `MobileBrowse` | stations, markers, chargers, and the charger that will be reserved | |
| `ConsolePage` | the console's editor, drawer, refreshes and commands | |
| `ActivityView` | the lists of orders and audit records and their selection | |
| `Forecast` | the forecast panel and its selector | |
| `DashboardPage` | the dashboard's overlapping refreshes, selection, login and history | |
| `Charts` | the figures behind the charts of all three pages | `Totals` |
| `TotalsProofs` | lemmas the other proofs share: sums of rows and of lists, least and greatest elements, quotients | `Totals` |
| `ChargingCoreProofs` | theorems about money, the ledger, chargers and orders | `ChargingProperties`, `TotalsProofs` |
| `TxProofs` | theorems about transactions and their refinement of the core | `ChargingTxProperties`, `ChargingCoreProofs` |
| `BillingProofs` | theorems about the meter | `BillingProperties`, `TotalsProofs` |
| `MobileProofs`, `DesktopProofs` | theorems about the mobile page's order and the desktop's rounds | the modules named |
| `ServicesProofs`, `PagesProofs` | theorems about what `MCServices` and `MCPages` run, the charts among them | those modules; `PagesProofs` also `TotalsProofs` |
| `MC*` | constants, symmetry, and for `MCServices` and `MCPages` the choice of one service or page per behaviour | |

### ChargingCore: state and code

`appUser`, `charger`, `chargingOrder`, `walletEntry` and `withdrawalRequest` are the
tables of the same names in `schema.sql`, by primary key.  A key not used yet has a
row with status `"none"` (orders, requests) or an empty sequence (the ledger).  An
action is one command of the service with the writes of its whole transaction; a
command that is refused (a `DomainError`, or an idempotency key seen before) leaves
every table alone and is therefore no action.  Two commands commit something and then
refuse: `start` on an expired reservation commits the cancellation (`StartLapsed`), and
`reserve` cancels the user's expired reservation in its own transaction
(`ReserveAgain`), so that a later refusal undoes it.

Abstracted: money is counted in cents, the state of charge in `0 .. Full`; tariffs and
time are abstracted into `Bills(target, budget)`, every invoice the meter could return;
`reserved_until` is the flag `lapsed`; `domain_event` and `ops_log` rows are left out
(nothing in the core reads them).  `Refunded` sums the entries of the owner's wallet,
which is where `money` writes refunds.  Idempotency keys of the clients are assumed
distinct from the UUIDs the server generates (`RowsAssumption`).

### ChargingTx: statements and locks

A session executes one command at a time, one statement per step.  `SELECT ... FOR
UPDATE` waits for the row and then reads its committed state (READ COMMITTED); what was
read stays in the session until the write.  A commit makes all writes visible and
releases the locks.  `cancel` and the coordinator lock the order before the user, the
other commands the user before the order, so a deadlock can occur; PostgreSQL aborts one
of the waiters (`AbortDeadlock`).  The coordinator scans without locks, skips locked rows
(`SKIP LOCKED`), settles on the stop reason it saw in an unlocked snapshot, and loses the
rest of a pass to an exception that is not a `ConflictError`.  `stop` reads the energy as
of the start of its transaction (`now()`), as the code does.  The `LIMIT 50` of the scans
is not modelled; the instances have fewer rows.  A reservation lapses only while nobody
has locked it, since the model keeps one clock for the database and the application.

### Billing

Time is measured by the energy it delivers (the rate is 1) and `Tick` and `Cent` are
divisible by every price, so that the divisions of the code are exact in the model too
(the code has 28-digit decimals); half cents do occur.  One iteration of the `while` is
one action.  `Call` takes a first reading, or one more `Tick` of time or one more `Cent`
of funds: monotonicity step by step gives it for any two readings.  `MeterExact` also
ties the module to the core: what `meter` answers is an element of `Bills`.  Orders without a
target (older than the column) and negative funds (excluded by `HoldsBacked`) are left
out.  A quirk the model keeps: the last line of the detail takes the whole rounding
difference and can become negative when there are many cheap periods.

### EventFeed and DesktopClient

Ids of `domain_event` are taken at insert and seen at commit.  The websocket loop sends a
page after its cursor and moves the cursor to the last id of the page; rows hidden from
the audience are filtered out.  The client is one event loop, and an action is one slot
or callback.  A request carries its path, its owner and its round (`current`, `doomed`
between `deleteLater()` and the deletion, `orphan`, or `none`); `waiting` counts the
replies a round still expects.  `generation` and `epoch` are modelled by their effect: a
reply of an earlier session is dropped without its callback (`client.cpp:166`).  Left
out: `reachable`, the lengths of back-offs, the one-second order poll, public pages'
data, the refresh button.  `Reject` covers a close with 4401 and a failed handshake (a
`close()` before `accept()` reaches the client as HTTP 403).

### SignIn, ConsoleLogin, MapFetch, Maintenance

`SELECT ... FOR UPDATE` locks nothing when it finds no row: two first requests for one
phone both insert.  `now()` is the start of a transaction, the application's clock is
read after the lock; the models keep the difference and use one clock for both.  Tokens
are signed and stored nowhere, so nothing about them changes state.  In `MapFetch` the
first look into the cache, the lock that `asyncio` hands on in order, the second look and
the pause are separate steps, and a request may fail.  In `Maintenance` the rows are
locked one by one, references are looked for in a later statement, and the write is a
third; `spend` stands for every command that takes money (pay, payout, adjustment).

### The browser pages

`README.md:29` calls these pages a visual prior and a historical implementation: the Qt
clients are the product.  The pages are served and call the same routes all the same.

A page is one thread: an action is what a script runs between two awaits, and an `await`
is a call in flight with the function that waits for it.  The server's side of a call is
one action, the commit that the other modules take apart.  Calls are served and answered
in any order.

`MobileOrder` keeps `activeOrder`, `chargeTimer`, the button `stopDisabled`, the screen
and the list with its buttons to pay (`billed`).  `Command` is the service seen from the
page: a transition on the first command, the same answer on a repetition, a refusal
otherwise.  A call may be lost before or after it was served, and `Reload` forgets the
page but not the calls on their way.  `clearInterval(chargeTimer)` ends the interval
that runs, whichever sent the poll; the flag `own` of a call keeps which one did.
`agreed` is history: the amount the customer confirmed.  `KeepsPromise` is the refinement
`MobileOrder => Purchase!Spec`, with the phases and the bills read off the server's rows:
the page may confuse itself about snapshots, but what is paid is what was agreed.

`MobileAccount` has the token of the browser (good, or old once it has expired) and the
calls that carry it; `loadProfile` removes the token on any failure.  `MobileBrowse` has
the separate drawing functions of the station, its marker, the estimate, the connectors
and the label beside the button; `booked` is history, the charger `reserve` sent and the
label that stood beside the button then.  Its limit and its price are only shown: the
request has the charger's id and a key.  After the awaits of `reserve` the charging
screen names the charger that is selected by then (`mobile.js:334`); this is not modelled.

`ConsolePage` keeps one row with one field for the rows of the console: what its lists,
buttons and forms do with it they do with every other.  The key of a form is made when it
is opened (`KeyOf`); the server replies to a key it knows (`Replies`) with the old booking
or, for money, only if the amount is the same.  A lost call is an `orphan`: failed for the
page, and perhaps still served.  `ActivityView` and `Forecast` are the two other pages of
the console: a record is its place in the log and a window of the newest is known;
requests for forecasts are numbered.  The drawer's close event is one step with the
closing; after Esc it is a task of its own (`admin.js:889`), and a refresh that ends
between the two, whose list would then be drawn with no `state.drawer`, is left out.

`DashboardPage` lets refreshes of the button, the interval and the login overlap; a
refresh reads the public rows and, with a token, the orders, and draws everything in one
step.  What the server says is a function from stations to free chargers, and stands for
the orders too.  The tiles that `refresh()` and `sync()` both write to are kept one by one
(`figure`), and so are the captions that only `sync()` writes (`relabelled`): `RefreshDraws`
and `SyncDraws` are read off the two scripts, and a tile that `sync()` left out would keep
the platform's figure under the history's caption after the next refresh.

`Charts` makes up rows one by one and keeps what the charts compute from them: shares,
slices, buckets by size, month, day, hour and tier, scales, averages and the day under a
pointer.  A day is the list of the energies of its hours, and its candle what
`import_urbanev.py:55` makes of that: first, last, highest, lowest and sum, so that days
rise, fall, stand still or have no energy.  Temperatures are figures less `Cold`, and go
below zero.  A month has three days; colours and pixels are left out, a length is a part
of a whole.  Properties of the history's charts hold when there is any energy; without it
the code divides by zero, and so they say so.  `flowChart` draws exactly three months and
throws when there are fewer, so what is said of it (`FlowDrawn`) begins with the third; the
import writes six.  A sorted list is given by what it is (`Ranked`): at place `i` stands the
figure that at least `i` figures reach and fewer than `i` exceed.  The two pies of orders
differ: the donut of the console divides by the four states it names (`SessionMix`), the
ring of the dashboard by all orders (`OrderRing`), and since a conic gradient goes on in
its last colour, orders with a pending payment are drawn there as cancelled.

## 3. Runs

| Run | Instance | Question |
|---|---|---|
| `core_money` | 1 user, 1 charger, 1 order, 2 withdrawals, 3 keys | do the held balance, the ledger and the claims agree through every wallet command, and is every session funded |
| `core_fleet` | 2 users, 1 charger, 2 orders, a vehicle, 2 powers | do orders and charger mirror each other, one each; does an order keep its life cycle, its vehicle and its power |
| `tx_commits` | 2 sessions and the coordinator | is every commit a command of the core; are unique indexes never met |
| `tx_progress` | the same, fair | is every command answered, every lapsed reservation released, every target settled |
| `tx_exhausted` | a recharge beside the coordinator | finding, below |
| `desktop_user` | 2 subjects, 2 login dialogs | do sessions keep their replies, their stream and their rounds apart; does a round that is waited for have a reply to come |
| `desktop_admin` | 2 events, pages of 1, 1 failure | does the feed leave out what it could see; does a client miss an event for good |
| `desktop_relogin` | the admin window, which logs in by itself while a dialog is open | finding, below |
| `billing` | days of 3 hours, 3 prices, sessions across midnight | is the invoice exact, explained and monotone |
| `services` | 2 connections or 3 tasks per service | sign-in, lockout, map cache, foreign keys |
| `mobile` | 1 order, 3 calls in flight, 1 loss or reload | does the page with the service implement `Purchase` |
| `pages` | per page: 2 forms, 2 calls, 1 loss; 4 requests; 2 overlapping refreshes; 8 figures, 6 days of 4 shapes | do panels show what they name, forms post once, charts add up, and pages catch up |

The bounds are chosen so that every hazard has room: two actors for every race on a row,
three for the map lock (one holds it, one waits with the same question, one with
another); two refunds and two withdrawals for double debits; two orders per charger so
that a late command meets the next order; two issues of a code, so that guesses can be
charged to the wrong one; one more password than twice the limit.  A clock or a counter
that stops is why the runs without fairness do not check deadlock.  `MCServices` picks
one service per behaviour (`looking`): the services share only the clock, so a product
would add states and no behaviour.  `MCPages` does the same with the pages, which share
nothing.  In `core_fleet` one charger is enough: the theorems of section 4 cover any
number.  Three calls in `mobile` are a poll, a stop and a list in flight at once; a fourth
would only repeat one of them, and the bound never takes the last place from the button
of a bill (`Spare`).  Eight figures reach past the six, four and five rows the charts cut at,
and into a third month of three days; six days are cut by a range of four and reach past an average of five.

Several properties are one definition with several conjuncts, because one question is
behind them: `SessionsFunded` (the minimum stays, the budget only grows), `OrdersKept`
(the life cycle, what is frozen, the charger's power), `MeterExact` (the amount, its caps,
its lines), `CodesHonoured` (one login per code, guesses counted), `GuessesSpaced` (and
the lock is earned).

Fairness.  `TxSpec`: strong fairness per worker, because PostgreSQL queues lock waiters
in order and every statement in front of them ends; weak fairness of the coordinator's
loop and of the deadlock detector; none for requests, payments or time.
`DesktopClient`: transactions end, the server's loop fetches, timers fire, `deleteLater`
is handled, requests end (15 s transfer timeout) and connection attempts end; none for
logins, failures, the end of a token or new events.  `MobileOrder`: calls end, the
coordinator settles or expires (its loop, `api.py`), and a customer now and then looks at
the list and pays the bill in it, strongly fair because other calls can disable the
button; none for polls, presses of stop or reservations.  `MCPages`: the interval of the
dashboard and the reads of a refresh, the calls of the account, and a customer who looks
at the profile again and logs in when the page has no token; none for failures, changes,
logins to the dashboard or disconnections, and these are bounded.

### Findings

- `tx_exhausted` (`service.py:222`): the stop reason of an unlocked snapshot survives a
  recharge, and the user is told that funds are used up which are not.
- `desktop_relogin` (`admin_window.cpp:353`): a login through the non-modal dialog,
  still open after `/auth/console` has logged in, during a round leaves `refreshContext` set, and polling stops.

Not checked by a run: `scripts/smoke.py:132` and `scripts/check_defense_invariants.py:41`
expect a stopped order to be `completed`; the code leaves it `pending_payment` until it
is paid, as the newer scripts (`check_qt_bugfix.py:54`) expect.  The stop of
`scripts/check_admin_browser.cjs:17` expects the old state as well.  `recharge` of `mobile.js` makes up
a new key for each press, so that pressing again after a lost answer recharges twice.  The ring of the
dashboard's orders shows more cancelled ones than its legend when payments are pending
(`dashboard-details.js:153`); `ChartsAddUp` states by how many.  Two first requests for a
phone both send a code (`account_service.py:37`); `CodesSpaced` makes an exception of just
these.  `SignIn` shows that
`verify_otp` may meet the unique index on `phone` when an administrator creates the same
user; the transaction is undone and the code stays valid.

## 4. Proofs

| Theorem | Property | Argument |
|---|---|---|
| `TypeCorrect` | (types of `ChargingCore`) | part of `MoneyInv` |
| `HoldsAlwaysBacked` | `HoldsBacked` | part of `MoneyInv` |
| `WalletsExplainBalances` | `WalletExplainsBalance` | `LedgerStep` |
| `DocumentsDebitedOnce` | `DebitsOnce` | `LedgerStep` |
| `RefundsStayBounded` | `RefundsBounded` | `LedgerStep`, `RefundInv` |
| `ChargersMirrorOrders` | `ChargerMirrorsOrder` | part of `FleetInv` |
| `OneActiveOrderEach` | `OneActiveOrder` | part of `FleetInv` |
| `OrdersStayKept` | `OrdersKept` | `Effects` |
| `SessionsStayFunded` | `SessionsFunded` | `Effects` |
| `VehiclesFollowOrders` | `VehicleFollowsOrder` | `Effects` |
| `ForeignKeysHold` | `ReferencesHold` | part of `RefInv` |
| `FormsPostOnce` | `PostedAsTyped` | `ConsoleInv` |
| `DrawerShowsState` | `DrawerMatchesState` | inductive |
| `ForecastIsOfScope` | `ForecastMatchesScope` | `ForecastInv` |
| `PanelsShareSnapshot` | `SameSnapshot` | inductive |
| `HistoryRemains` | `HistoryKept` | `HistoryInv`, `SyncCovers` |
| `EventStaysListed` | `EventShownIsListed` | `ActivityInv`, `NewestExists` |
| `AskedAsLabelled` | `AsksAsLabelled` | `SheetAgrees`, `LabelAgrees`, `BookedAsNamed` |
| `CodesStayHonoured` | `CodesHonoured` | part of `SignInInv` |
| `CodesStaySpaced` | `CodesSpaced` | `SignInInv` |
| `AsksStaySparing` | `AskedSparingly` | `MapInv` |
| `GuessesStaySpaced` | `GuessesSpaced` | `ConsoleInv` (of the lockout) |
| `TransactionsRefineCore` | `RefinesCore` | `TxInv`, step by step |
| `TransactionsImplementCore` | (`TxSpec => Spec` of the core) | `TransactionsRefineCore` |
| `TransactionsKeepPromises` | (the core's, under `TxSpec`) | `TransactionsImplementCore` |
| `InsertsStayUnique` | `InsertsUnique` | `TxInv` |
| `MeterIsExact` | `MeterExact` | `MeterInv` |
| `ReadingsGrow` | `ReadingsOnlyGrow` | `MeterInv`, two runs of the loop |
| `PageKeepsPromise` | (safety half of `KeepsPromise`) | `MobileInv`, step by step |
| `RepliesAreOwn` | `OwnReplies` | `DesktopInv` |
| `UserRoundsHeld` | `RoundsHeld`, for the user window | `DesktopInv` |
| `StreamIsSupervised` | `StreamSupervised` | inductive |
| `PagesAreComplete` | `PagesComplete` | `Arranged`, `PageStays` |
| `ChartsStayAddedUp` | `ChartsAddUp` | `ChartsInv`, sums and classes |
| `ChartsStayInFrame` | `ChartsInFrame` | `ChartsInv`, bounds of sums and scales |

`HoldsBacked` is not inductive: that `pay` releases no more than is held needs the link
between orders, users and requests, and that sums over other users do not change.
`MoneyInv` adds the types of all rows, these links, and for every user the sum of the open
claims; `TotalsProofs` gives what the sums do when one row changes. `FleetInv` is proved relative to `MoneyInv`: a charger's status determines the
one order on it, and `reserve` may trust the status columns because an unfinished order of
a user is unique. The proofs about orders do not go through the actions once per property:
`StepEffect` shows from both invariants that every step is, for every order and its user,
one of a few `Effects` (the order stays, moves on as it was reserved, or is opened by a
user who may begin; its vehicle and budget follow), and the three properties follow from
those. The uniqueness in `FleetInv` is what makes this true: a command about one order of
a user cannot disturb another, because there is none. The ledger is
treated in the same way: every step is one of five (`LedgerStep`):
nothing is posted, a client's key posts beside documents that stay, an order is charged,
with an entry or for nothing, or a withdrawal is paid out. `RefundInv` strengthens
`RefundsBounded` with where refunds are found (in the wallet of the payer, of a completed
order).

`RefInv` adds to `ReferencesHold` which rows each worker has locked, that locked rows
exist, that what a worker found in its look still holds when it writes (every command
that could change it needs a row the worker has locked), and that withdrawals and funds
come with a ledger entry: this is why `user_delete` need not look for withdrawals.

`ConsoleInv` of `PagesProofs` adds that forms are numbered and keys with them, that
entries, calls and the open form with one number are of one kind, and that an
answer to money means there is an entry with that very amount.  `ForecastInv` adds that
the newest request asks for what the selector holds and is in flight while the panel
loads.  Properties called inductive need no strengthening: lists and
panels are written together with what they must agree with, and the proofs show that
no step separates them.  `ActivityInv` adds that the timeline and the log are records that
were written; that the list has a newest record to fall back on is a well-founded minimum.
`SheetAgrees` and `LabelAgrees` say of every screen what `AsksAsLabelled` says of a step;
from the second follows `BookedAsNamed`, which says it of the last request sent.

`SignInInv` says of the codes that one in the table has not been redeemed and that its row
counts its wrong guesses, and that no two rows have the same; of the locks, that who holds
a row has found it and works on it, a request because it was old enough; and of those who
looked in vain, that the row they meet at the `INSERT` came after they began.  The last is
why a request that replaces a code too early, by `ON CONFLICT`, was sent before there was
one to see.  `MapInv`
says that the tasks in the queue are different ones with a question each, and that what the
first is about to ask was not in the cache when it had the lock: nobody else may write
there meanwhile, and a stale answer does not get younger while the task sleeps.

`ConsoleInv` of `ServicesProofs` is about the lockout. The guesses since the last success
are whole rounds of `MaxFailures` and `attempts` more; the last guess of a round set the
lock and the first of the next round waited for it. From that follows the part that a
later guess is measured by: among the `MaxFailures` guesses before it is one whose lock
had passed when it was tried.

`TxInv` says what each worker knows. A worker between two statements holds copies of rows;
the copies of rows it has locked equal the tables, its guards have held of them, and of
rows it only scanned it knows nothing (the coordinator) or no more than what no command
undoes. `Knows` states this per operation and statement, and a step of one worker spares
what the others have locked. So at the commit the guards of the core's command hold of the
tables themselves: every step of `ChargingTx` is a command of `ChargingCore` or leaves the
tables alone. `TransactionsImplementCore` and `TransactionsKeepPromises` draw the
conclusion: what is proved of the core's tables holds of the interleaved transactions, for
any number of sessions and with the coordinator.

`MeterInv` describes the loop between two iterations. The lines so far follow each other
from the start, their energies and costs add up to the totals, and each line has one
price. A loop that goes on stands at a multiple of `Tick` and has charged a multiple of
`Tick`, which every price divides, as it divides the budget: so the division of what is
left of the budget by a price leaves no rest, and the budget is met exactly. The sums over
lines are recursive functions; what is proved of them goes by the least index at which a
claim would fail, not by a theorem of induction. `ReadingsGrow` compares two runs: the
reading of a later call consists of the energy units of the earlier one and more, each at
the price of its own time.

`MobileInv` says that every row shown, answered or in flight is one the order has been in
(`Truthful`: states do not go back, and a bill once fixed stays), and that a payment is
only on its way for a bill the customer agreed to.  Every step is then a step of `Purchase`
or none; a repeated, lost or late call is a stutter.

`DesktopInv` says that requests in flight belong to the session or to nobody, and that, in
the user window, the `waiting` of a round is the number of its requests: so a round that
holds the context has a reply to come.  `Arranged` says that an arrangement of a finite set
has every element of it, by counting; a page cut from one in order then leaves out nothing
before its last row.  The admin window is the counterexample of
`desktop_relogin`, and therefore `UserRoundsHeld` assumes `Window = "user"`.

`HistoryRemains` adds to `HistoryKept` that the dataset is answered once. A refresh sets
every tile of `RefreshDraws` to the platform's figure, and the proof needs of `sync()` that
`SyncDraws` covers all of them (`SyncCovers`): with a tile left out it fails.

For the charts the invariant, `ChartsInv`, says only what the rows are; the work is in what
the charts make of any such rows. A pie closes because its slices lie between partial sums,
and what it ends at is a sum; the ring of orders ends at their number because what its four
slices leave are the pending ones. A list and the same list ranked have one sum: cut off at any
height, both have equally many figures that reach it, and a sum is what those counts add up
to. Classes that share nothing and leave nothing out (sizes, groups, fields of the week,
days) count every row once; months are differences of partial sums. Thirds of the way from
the lowest price to the highest separate the tiers, and both ends are occupied unless all
prices are equal. Bars of a day lie in its frame because first and
last hour lie between lowest and highest, and these between zero and the day's sum. An
average lies between the days it is made of because a sum lies between
multiples of its least and greatest term; every `n`th row of a list is at most so many rows;
the pointer is a quotient with its remainder.

Assumptions used: the named `ASSUME`s of the modules (finite sets of rows and paths,
disjoint keys, a `None` that is no number and no reason to stop, bounds of the
configuration); TLC evaluates them in the runs.

Only model-checked. All liveness, since the prover has no fairness or `ENABLED`:
`Answered`, `LapsedReleased`, `TargetSettled`, `RoundsEnd`, `CaughtUp`, `SettledFed`,
`DashboardCatchesUp`, `BalanceCatchesUp` and the fair half of `KeepsPromise`. Every safety
property of a passing run is stated by a theorem. Induction over data is out of reach as a
theorem of the library; where a sum needs it, the proofs take the least index at which the
claim would fail.

## 5. Not modelled, and the plan

Pure output (queries, the regression behind forecasts, painting), start-up code, scripts,
images, markup and style sheets are left out.  Of the browser pages: the fitting and
drawing of maps, the animated orb, translations of names, the request of a code (its
server side is `SignIn`), exports, the route opened in another window, navigation,
particles and fullscreen.  Of the desktop: avatar capture, map and recommendations.  These
keep no state that the modelled parts read.  Order of further work:

1. The invariants behind `CaughtUp` and `BalanceCatchesUp`: which frame or answer is still
   to come whenever the client lags behind.
2. Two rounds of `order_poll` and the command queue of the desktop; the hazards without
   a property in `PROJECT.json`.
3. `seed` and the dataset import beside a running service.
