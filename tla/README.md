# A formal model of the AI token mall

This directory holds TLA+ modules for the parts of the mall whose correctness
depends on the order of things: what concurrent requests, repeated payment
notifications, bot jobs, failures and restarts may and may not do to orders,
subscriptions, coupons and money. TLC checks the modules on small instances;
TLAPS proves the most important properties for all instances. Every definition
is translated from the Go sources; `PROJECT.json` maps each of them to its lines.

Paths below are relative to the repository's root.

## 1. The system

One Go binary (gin, GORM, MySQL InnoDB at its default isolation, REPEATABLE READ) runs
either as the HTTP server of a Vue shop or, with `--run_bot`, as a process that runs
the periodic jobs ("bot"); there may be several of each, and they do not know of one
another. All state is in MySQL; there is no queue and no cache that matters. A
transaction is a Go closure passed to `TransactorImpl.Transaction`; the locks it
takes are explicit `SELECT ... FOR UPDATE` reads and the row locks of its
`UPDATE`s. A plain read in a transaction sees the snapshot fixed by its first
read. Many functions read through the pool *inside* a transaction, that is, on
another connection and without the snapshot. No deadlock or lock timeout is
retried. Outside settlement most requests are several statements with no
transaction at all.

| Component | State | Operations | What is hard | What makes it correct |
|---|---|---|---|---|
| Order settlement `application/core-service/order` | `user_orders`, `payment_callbacks`, `user_wallet_flows`, `user_invoices`, `user_subscriptions` | checkout, one-step checkout, payment notification, fulfilment per order type | duplicate and concurrent notifications, replacing checkouts, rollback, a lost answer | an order is settled once, whole, and only while pending; side records agree with it |
| Coupons `application/core-service/coupon`, `bot/scripts/coupon_expire` | `user_coupons` | grant at registration, check at checkout, mark used at payment, expire | look-up outside the transaction, several orders naming one coupon | a used coupon belongs to one completed order |
| Invite rebate, wallet, commission `application/core-service/invite_rebate` | `users.wallet_balance`, `users.commission_balance`, `user_commission_records` | accrue at settlement, transfer to wallet, request withdrawal | read-compute-write of balances by several actors, two users rows locked by one transaction | no update is lost, no balance is negative, no ring of waits |
| Subscription bot `application/bot/scripts/subscription_lifecycle` | `user_subscriptions` periods, `user_api_keys` | renew from the wallet, reset the token period, expire | races with paid renewals and upgrades computed from a snapshot, interrupted runs | a paid period is not lost, an expired subscription has no live keys |
| Billing periods `common/billing` | none | add periods, count upgrade cycles | two plans' periods meet at one expiry date | an upgrade is charged for every period up to it |
| API keys and team quota `application/core-service/user_api_key` | `user_api_keys`, `enterprise_users`, `enterprise_inquiry` | create sub-key, change its limit, add a member, submit an inquiry | sums and duplicates checked before a write, without a lock, on a second connection | teams are disjoint, keys stay in the family, a limit is checked against the sum it makes, a wait for a connection ends unless all are held by such waiters |
| VIP level sync `application/bot/scripts/vip_level_sync` | `users.vip_config_id` | plan from aggregates, list users, raise and tell each | the plan is stale when applied, processes overlap | levels rise, nobody is owed one for good, a rise is announced |
| Scheduler `application/bot/scheduler.go`, `entry.go` | `bot_schedule_config`, gocron's jobs | pass over the table, run, stop | edits while jobs run, a stop during a pass or run | jobs follow the table, no needless overlap, no run begins after a stop |
| Registration and login `application/core-service/user` | `users`, `user_coupons` | register, log in, change password | look-ups before inserts, coupons after the row | invitations are a forest, an answer is true |
| Invoice configuration `application/core-service/invoice` | `user_invoice_config` | create, update, make default | clear, then write, without a lock | at most one default |
| Notifications `application/core-service/notification` and every paged list | `user_notifications` and the tables behind the lists | page through, mark one or all read | rows arriving between statements and pages | a list read to its end has shown every row |
| Connection pool `common/dederi/mysql` | `max_open_conn` | take, return | a transaction that needs a second connection | somebody can go on as long as not all who hold one wait for another |
| Event tracking `application/core-service/tracking`, `front/apps/shared/src/tracking` | the page's queue, `user_track_events` | enqueue, flush by timer, hiding or leaving, batch insert | two routes, timers, lost batches | an event is stored once at most, and waits nowhere for good |
| Catalogue, tutorials, papers, invoice look-up | edited tables, outside services | pages of two reads, links by slug, queries | edits between two reads, a provider that fails | what is shown is true and complete |
| Routing, configuration, logging, alerts | process-wide configuration | start-up | none | - |
| Front ends `front`, `agent` | browser state | pages | none that the server relies on, but for the tracker | - |

How they interact: settlement calls coupons (mark used) and rebate (accrue)
inside its transaction; the subscription bot calls settlement's
`FulfillBalanceRenewalInTx`, which shares the purchase's wallet, rebate and
notification code; the coupon bot and the subscription bot write the rows
settlement reads; transfers and withdrawals write the users rows settlement
credits and the bot charges; settlement and the bot rewrite the sub keys owners
hand out; the VIP job adds up what registration and settlement have written and
what it writes decides the next rebate's rate; all of them write messages and rows
that members page through. It all meets only in MySQL rows and locks.

## 2. The modules

- **MallData** - the rows (`Row`, `Request`, `SubRow`) and the amounts computed from them:
  coupon discount, 6 % invoice surcharge, rebate. Money is in whole fen, because
  the columns are `DECIMAL(16,2)` and every result is rounded to two places half
  up (`decimal.Round(2)` on non-negative numbers).
- **Settlement** - the abstract specification: placing an order, settling it in
  one step, spending commission, a coupon lapsing. No sessions, no locks, no
  snapshots, no messages.
- **PaymentNotify** - the detailed one. `Workers` are database sessions (HTTP
  handlers and bot goroutines).
- **PaymentNotifyProofs** - theorems and their proofs.
- **Billing** - adding periods and counting the periods of an upgrade, in days.
- **SubscriptionLifecycle** - one subscription and its main key between paid
  renewals, upgrades and add-ons and the three phases of the bot, with a clock.
- **SubscriptionLifecycleProofs** - theorems and their proofs.
- **TeamKeys**, **TeamKeysProofs** - teams, the sub keys of one subscription and
  the connection pool, beside orders and the bot.
- **Scheduler**, **SchedulerProofs** - one bot process: passes, jobs, runs, edits, stop.
- **Members** composes the members' side on one set of users and faults:
  **Faults** (the bound on failures), **Registration**, **VipLevelSync**,
  **Inbox**, **Lists**, **Profile** (invoice configurations, inquiry, password, login),
  **Tracking**, **Catalogue**, **Tutorials**, **InvoiceLookup**, **Literature**.
- **RegistrationProofs**, **ProfileProofs**, **MembersProofs** - theorems about Members and their
  proofs: registration and levels; the desks; everything else and the types of the whole.
- **SumTheorems** - what sums over sets add up to, for the proofs about balances and quotas.
- **MC...** and the `MC*.cfg` files - the instances for TLC.

PaymentNotify and SubscriptionLifecycle look at one transaction from two sides.
The first has its locks, money and records, and keeps of a subscription its status and
product; the second takes the settlement of an order for one step, which is what
`SettlesAtomically` shows of the first, and has the columns, the time and the bot's
phases. What they share is the stale snapshot a notification works from.

### PaymentNotify and the code

A transaction is a row of steps at which it meets others; `pc[w]` is where a
session is:

| `pc` | next statement of the code | action |
|---|---|---|
| `idle` | `FindByChannelAndOutTradeNo`: fixes the snapshot, finds a recorded callback | `FindCallback` |
| `lock_order` | `FindByOutTradeNoForUpdate`, then the status switch | `LockPendingOrder`, `OrderAlreadyCompleted`, `OrderNotPayable` |
| `fulfil` | `fulfillPaidOrderByType`: checks the subscription in the snapshot, locks it by its `UPDATE` | `FulfilPaidOrderByType`, `SubscriptionRefused` |
| `read_coupon` | `FindByID` on the pool in `MarkUsedFromOrderRawRequest` | `ReadCoupon` |
| `mark_coupon` | `UPDATE ... WHERE status = 'available'` | `MarkUsed`, `CouponTaken` |
| `lock_buyer`, `lock_inviter` | `FindByIDForUpdate` of the buyer and the inviter in the rebate | `LockBuyer`, `LockInviter` |
| `renew_wallet` | the bot's check and charge of the wallet | `AutoRenewCharge`, `AutoRenewSkipped` |
| `commit` | end of the closure | `Commit` |

`AutoRenewLockSub` begins the bot's transaction at the locked subscription. Rows
written by a transaction become visible at `Commit`, all at once; a row that the
session has locked cannot change before, so values computed from it when it was
locked (`newWallet`, `newCommission`, `accrual`) and written at the end are what
the code writes. That nobody else touches these rows is *not* assumed: locks are
explicit (`held`, `Lock`, `FreeFor`), and `SessionsUpToDate` is checked and
proved. `Fail` is a crash, a lost connection, a lock wait timeout or a database
error anywhere in the transaction; `answered = FALSE` in `Commit` is the crash
between the commit and the answer.

Short transactions with one locked row (transfer, withdrawal, coupon expiry,
subscription expiry) are single steps. Checkout is one step: it inserts a row
and, for orders other than purchases, cancels the unpaid rows it replaces; the
cancelling `UPDATE` waits for locks on all the buyer's unpaid orders because
they share the index range it scans.

Order numbers are ids: `CreateOrder` takes any free one. An id stands for one row and its
`order_no` and `out_trade_no`, which the unique keys keep apart.

### SubscriptionLifecycle and the code

| Code | Action |
|---|---|
| `resolveOrderUserSubscriptionID` and `upgradeOrderQuantity`, outside any transaction | `Resolve` |
| `Create*OrderReplacingPending` | `Place` |
| `FindByIdempotency`, the first read, which fixes the snapshot | `NotifyBegin` |
| `fulfillRenewalOrderPaid`, `fulfillUpgradeOrderPaid`, `fulfillQuotaAddonOrderPaid`: all writes to subscription and keys, at the commit | `Renew`, `Upgrade`, `AddQuota` |
| a refused or failed notification, rolled back | `NotifyRefused`, `NotifyFails` |
| `Run` takes `now` | `RunBegins` |
| `autoRenewSubscription`, `periodResetSubscription`, `expireSubscription` | `AutoRenew`, `PeriodReset`, `Expire` |
| an error in a handler or in listing, a crash | `RunFails` |
| time | `Tick` |

`http[w].sub` is the subscription as the handler read it, however long ago;
the bot reads the row under its lock, so its handlers need no copy, but `job[j].now` is the
time its run began. The `UPDATE`s write single columns, so a stale handler
changes only what it writes (`[sub EXCEPT ...]`). `now` of a notification lies
between its first read and its commit. The wallet is a number of renewals
(`purse`): its money is PaymentNotify's. `charged` is a history variable. Two
unpaid orders of one kind cannot both be placed: the cancelling `UPDATE` and the insert
of two checkouts of one user exclude each other by the locks on the index range.
Used tokens are left out, nothing in this repository counts them up; sub keys are
TeamKeys'.

### TeamKeys and the code

`CreateSubKey` and `UpdateSubKeyLimit` are transactions that hold one connection and
make all checks but one on a second one. Each check is a step (`FindMember`,
`FindDuplicate`, `Sum`; `FindKey`, `FindSub`, `Sum`) that needs a `Spare` connection, the
write another (`InsertKey`, `UpdateKey`). `AddTeamMember` looks (`FindInvitee`) and inserts
(`InsertMember`) with no transaction. `Upgrade`, `AddQuota`, `Renew`, `PeriodReset` and
`Expire` are the same transactions as in SubscriptionLifecycle, seen from the sub
keys: all keys of the subscription are rewritten in one step. `fresh` is history: no other
step has written since the request began. The configuration bounds connections
(`max_open_conn`), and nothing bounds requests: when as many transactions as there are
connections wait for a second one, the pool is `Exhausted`. The answer to a request that
overlapped another's write is left open, because the code leaves it open:

- two creations, or a creation and a change, that both add up before either
  writes, exceed the limit together; two for one member give him two active keys;
  a creation that read an active subscription may leave an active key on one that
  the bot has expired meanwhile;
- an upgrade sets *every* sub key's limit to the whole limit of the product, an
  add-on adds its amount to each, a reset takes the subscription's limit down and
  leaves the sub keys', so after paid orders the sum may exceed the
  subscription's limit although no two requests overlapped
  (`docs/ai-platform-schema.sql:301` has the sub keys share it).

What does hold is checked for requests that were alone
(`UndisturbedRequestsKeepLimits`), and, for all requests and orders whatever, who may be a
member and hold or manage a key (`OneTeam`, `KeysInFamily`).

### Scheduler and the code

`Handle` is two steps, the read of the table (`ReadConfigs`) and what it makes of it
under the mutex (`Apply`, by `Applied`): jobs whose row is gone are removed, those whose
interval changed are registered anew, the rest is `Kept`. A job's function
re-reads its row (`MayRun`: only `is_enabled` counts) and runs. gocron's own behaviour is
external (v1.37): a job does not overlap itself (singleton mode); removing a job does not
wait for its run (`Outlive`: such runs are counted in `late`), and a run that had come due and
not begun goes with its job; `Stop` waits for the runs of registered jobs. `Entry.Stop`
waits for a pass under way, stops the jobs, returns (`StopEntry`, `StopJobs`, `StopReturns`).
`Scheduler.Stop` removes the jobs before it stops gocron (`scheduler.go:208`), so none is
registered when gocron waits: `Entry.Stop` returns while late runs go on, and they end
whenever they do (`LateRunEnds`), or with the process.
`edited` is history. A stop signal before `Entry.Start` has finished is not
modelled. Replicas share nothing but the tables; what two of them do to one row is the
question of the modules of the jobs, which therefore have several processes each.

### Members and the code

Each module is one component, each action one SQL statement or one outside
answer with the decision it leads to; Members adds what they share: the `users` rows, the
inbox, the failures, and `coming`, the requests a day brings.

| Module | What is a step | What to know |
|---|---|---|
| Registration | look-up of the identity, the inviter by host, a free domain, the insert, each coupon | unique keys refuse (`Clashes`); a clash of the *domain* is answered "user exists" too (`user_service.go:241`); coupons come after the row and their errors are dropped (`user_service.go:268`) |
| VipLevelSync | the two aggregates, the list, per user the write and the message | the write does not look at the level again; `silent` is history: who was raised by a run that failed before it told him |
| Inbox, Lists | a delivery, a mark; the count and the rows of a page | pages are cut from the newest row; limits are clamped twice, by service and repository |
| Profile | look, clear, write | `disturbed` is history: who had two requests at once, or a clear that was lost |
| Tracking | enqueue, timer, hide, pagehide, pageshow, close, the server's insert | a beacon that was refused becomes a fetch; nothing is retried |
| Catalogue, Tutorials | first read, second read, following a link | edits come between them |
| InvoiceLookup, Literature | one provider's answer or failure | timeouts, statuses and unreadable answers are failures; `unasked` is history: which providers have neither answered nor failed |

### What the model takes from outside the source

Row locks, snapshots, unique keys, commit and rollback are InnoDB's, modelled by
what the code relies on (marked external in `PROJECT.json`). The payment provider
is the simulated notify endpoint of `interfaces`: `paid` is the fact that
the payer has paid, and a notification says `TRADE_SUCCESS` only for a paid order.

## 3. The runs

| Run | Instance | Checks |
|---|---|---|
| `checkout` | 2 sessions, 2 orders of every kind, a coupon, a subscription, one outside failure, rebate rates 0 and 50 % | `SettlementInv` (with `TypeOK`), `GrantedOnce`, `RecordsAgree`, `CouponUsedByItsOrder`, `FinalOrders`, `SettlesAtomically` |
| `family` | 2 sessions, 3 orders, four users along an invitation chain, 2 subscriptions renewed from one wallet | `LedgerBalances`, `NoRing` |
| `delivery` | 2 sessions, 2 purchases that share a coupon, one failure, fairness | `PaidPurchaseSettles` |
| `lifecycle` | 2 orders of any kind, 2 handlers, one process with the bot, plans of 3 and 4 days, 6 days, one failure | `LifecycleInv` (with `TypeOK`, `KeyFollowsLimit`), `ExpiresOnlyWhenOver`, `PeriodsContiguous` |
| `catch_up` | one order and handler, 2 processes with the bot, 6 days, a wallet for 2 renewals, one failure, fairness | `CatchesUp`, `ChargedOncePerPeriod` |
| `team_keys` | 3 connections, 2 keys, an owner who was himself invited and his invitee; 2 handlers and an order, or 3 handlers and none; fairness | `TeamInv`, `OneTeam`, `KeysInFamily`, `UndisturbedRequestsKeepLimits`, `RequestsAnswered` |
| `scheduler` | a known task and an unknown one, 3 intervals, 2 edits, one failure, a stop at any moment, fairness | `SchedulerInv`, `NoRunAfterStop`, `OverlapsOnlyAfterEdit`, `ConfigApplied`, `EnabledTasksRun`, `StopEnds` |
| `members` | 30 days, see below, 2 of everything that runs at a time, one failure, fairness | `TypeOK`, `RegistrationInv`, `AnswersTrue`, `RisesAnnounced`, `AloneOnlyRaises`, `LevelsCatchUp`, `WholeListRead`, `MembersListHonest`, `UndisturbedDesk`, `CatalogueTrue`, `TutorialsTrue`, `LookupHonest`, `LiteratureTrue`, `EventsOnce`, `EventsArrive` |
| `paid_settles` | every kind, no failure, fairness | `PaidOrderSettles` is violated |
| `renewal_extends` | one order, handler and process | `RenewalExtends` is violated |
| `expired_keys` | the same | `ExpiredKeysOff` is violated |
| `funded_active` | one order, a full wallet, a run finished on every day | `FundedStaysActive` is violated |

**Bounds of the settlement runs.** Two sessions give every pairwise race: notification against
notification, against the bot, against a replacing checkout, against expiry. A
conflict here is always between two transactions that want one row; a ring of
three would need three rows locked in a circular order, which `NoRing` at two
sessions and the invitation chain of four users already excludes in kind. Two
orders suffice for sharing a coupon, a subscription, or a wallet; `family` has three so
that the inviter may himself be a buyer while two invitees settle. The price is 3
fen and the coupon 1 fen so that rounding of the rebate matters; wallets hold 3
fen: one renewal, and a second only after a transfer of commission.
`MaxFailures` bounds the outside failures; one is enough to roll back any
transaction at any point, and the invariants do not speak about a second.
Quantities are 1 (the amount depends on them only through `Subtotal`).

**Bounds of the lifecycle runs.** A plan's period is 3 days (basic) or 4 (pro),
and the bot renews one day ahead: as in the code (30 days or more, 7 ahead) the
lead is shorter than the period by more than a day (`LeadAssumption`). 6 days hold a whole period, its
renewal, reset or expiry, the day the next renewal falls due, and an upgrade of the
expired subscription. In `catch_up` two processes overlap in every order of their
phases, and any of the 6 days may pass before, between and after them; its wallet
holds two renewals, so a second charge for one period is not stopped by an empty one. Two orders and two handlers let a handler hold a snapshot from before any
settlement of the other, from before expiry and after it. No transaction stays
open for more than one midnight (`Tick`): lock waits are cut off in less than a
minute. A run of the bot has no such limit. `Fortune` bounds what the wallet holds,
`Quantities` is 1, as the shop's pages send it.

**Bounds of `team_keys`.** Ann, the owner, was invited by boss and has invited dan: so
teams may be formed above and below the owner, in either order, while he hands out keys.
Two keys make a sum of others and a duplicate. Key limits are 1, as is the subscription's: a
second key fits only after the add-on, so a sum read too early, or one that leaves out a
key, shows. There are two kinds of days. On a paid day an order is settled beside two
handlers, which overlap in every pair of steps; a third would only add another writer. On
a crowded day there is no order, and three handlers are as many as the connections: two of
them can hold one each and compete for the third, and three exhaust the pool. The run
reaches that state, and `RequestsAnswered` excuses it and nothing else: the wait for a
connection, the wait behind one who waits, and the write on the connection a transaction
already has all end. With fewer connections two transactions would exhaust the pool before
they met in the checks.

**Bounds of `scheduler`.** Two edits are an interval changed and changed back, a row
disabled and enabled, or an edit between the read and the application of a pass. Three
intervals tell an old one, a new one and the one a job was made with apart.

**Bounds of `members`.** The components share users, messages and faults, but a step of one
seldom concerns another: so each initial state is one *day*, which says who is a
member, which tiers are enabled, and what is `coming`. There is a day with two
registrations of two identities on every kind of host, with and without an inviter (two
handlers, one failure); two on which two processes raise levels, one while an
invitee registers and an order is completed, one while an order is completed and the tiers are edited; days on which a list of each
kind, empty, of 20 rows or of 101 (beyond the largest page and, for the invitees, beyond
the repository's cap), or an inbox that fills up, is read twice with page sizes 0, 2 and 101
while up to three rows arrive or are marked; one with four requests of one member at two
desks; days on which the catalogue is looked at twice and edited twice, or the tutorials
looked at twice and edited three times (a topic off, an article moved, the topic on again),
a company or papers are looked up; and one on which four events are tracked in batches of two.
Three tiers suffice for a plan that skips one; a row per product, topic and article
for a move from, to, and between categories.

**Deadlock** is not checked: the instances have few order ids, so the system
does stop when all are used up.

**Symmetry** (sessions, order ids) is used only in the runs without liveness.

**Fairness.** A payment provider repeats a notification until it is
answered with success: strong fairness of `FindCallback` per order, because a
session may be busy again and again. A session that has begun goes on: weak
fairness of `Step`. InnoDB grants a freed row lock to the waiters in turn: strong
fairness of the two locks that other transactions take again and again (users,
coupons). In `catch_up` the scheduler starts the bot again and again, every
60 seconds by the default of `bot_schedule_config.interval_seconds`, and a run
goes on: weak fairness of `Run`; that it does start it is `EnabledTasksRun` of the run
`scheduler`. In `team_keys` a handler that has begun goes on,
and gets a connection if one is free again and again (strong fairness of its `Step`):
`database/sql` hands a connection that is returned to one of those who wait. In
`scheduler` the entry's loop passes, gocron's clock ticks and grants waiting runs, and the
run of a registered job ends, fails or panics (`FairSpec`), while one that outlived its job
need not; a failed read of the table happens a bounded
number of times. In `members` the job's steps go on (weak, per process), the browser
fires the timers of an open page, and a request sent by a page is answered or
fails. Nothing is assumed about checkouts, transfers, requests, edits, stops or
failures.

**What the violations show.** They are disagreements between a document and the code:

1. `docs/ai-platform-design.md:17` has a paid order complete or be refunded. The
   code refuses a notification for a cancelled order, and for a renewal or add-on whose
   subscription has expired or changed its product, rolls back and records nothing.
2. `docs/ai-platform-schema.sql:264` has a renewal extend `expires_at`. A notification
   that read the subscription before the bot renewed it writes the date the bot has
   reached already: two renewals paid, one period gained.
3. `api_keys_lifecycle.go:15` has the keys expire with their subscription. A renewal
   (or an upgrade) whose handler read an active subscription is settled after the bot expired
   it: keys active, `expires_at` in the future, status expired, and the bot
   looks only at active ones.
4. `MemberCenterView.vue:1450` has every active subscription renewed from the
   balance. The bot wants `period_end` equal to `expires_at`; after an upgrade
   to a longer period they may never meet again, and the subscription expires.

**What else the models show, without a run of its own.** These are behaviours of the modules
as they stand; the properties above except them by name or are stated around them.

- `docs/migrations/20261003_coupons.sql:50` has the coupon reduce the first order. Two
  pending orders may both carry the reduction: checkout does not reserve the coupon and
  payment passes over one that is already used.
- `docs/ai-platform-schema.sql:277` has the limit be the base and what was added in the
  period. An upgrade in the same period overwrites the sum.
- Overlapping requests of an owner, see TeamKeys above.
- As many `CreateSubKey` or `UpdateSubKeyLimit` transactions as `max_open_conn` (200 in the
  configuration), each before its second connection, wait for one another: every request
  then waits, and orders too, whose settlement reads coupons on a second connection. Only a
  request that fails, its client gone, frees one.
- Runs in progress at a stop are not waited for: the program logs `graceful-shutdown-completed`
  and may exit in the midst of one. The jobs must bear that as they bear a crash.
- Two `is_default` configurations, or two inquiries, of one member come about when his
  requests overlap, the former also when the clear fails (`disturbed`); a failure between
  a raise and its message leaves the raised user untold for good (`silent`); a failed welcome
  coupon is not granted later.
- `docs/scripts/bot_schedule_vip_level_sync.sql:1` has levels only rise. A run that
  another one overlaps may write a lower level than the other has just written: hence `shared`
  in `AloneOnlyRaises`. A later run raises it again, unless the higher tier has been disabled.
- A user whose tier was disabled keeps it until he qualifies for a higher one (the job
  ranks all tiers), while his rebates fall to the default tier's rate
  (`rebateRateForInviter`).
- Invitees beyond 20 and team members beyond 50 are not listed: the services ask for 500,
  which the repositories take for no limit at all (`users.go:86`, `enterprise_users.go`). The
  total beside the invitees is right.
- A row that arrives between the count and the rows of the last page hides the oldest
  one; paging through unread messages skips some as they are read (`shifted`), even if as
  many new ones arrive meanwhile, so that no count shows it.
- An article without an active topic may be listed under one it had between the two
  reads of the page; `TutorialsTrue` allows it that, and no more.
- Were a period no longer than the lead and a day, the bot could charge for one twice: it charges
  the period and the next one, and a handler that read the subscription before that writes the end of
  the service back to the end of the period. Nothing in the code keeps `period_days`
  above `autoRenewLeadDays` (7); the products have 30 or 365.
- More events than a batch in the queue when the page closes are lost, as is a batch with
  one text cut inside a character (`Writable`: MySQL in strict mode refuses the statement).
- Categories are read first and products second: a product moved meanwhile into a
  category that was just activated is missed. A SKU outside the slug table has a link
  to no page. Without a filter the articles of inactive topics are listed without a topic, while
  the article's own page names it.
- Of two rows with equal title and tax number, a company look-up keeps one, whatever
  bank data the other has.
- arXiv's answers lose papers without a title, the other two providers' do not; arXiv identifiers of
  the old style (`hep-th/9901001`) are cut at the slash, so all papers of one archive have one
  key, which `docs/migrations/20261005_paper_workflow_schema.sql:253` makes unique.

## 4. What is proved

For all sets of orders, users, subscriptions, coupons, products and sessions,
any prices, rates and coupon terms, any number of failures
(`PaymentNotifyProofs`):

- `SettlementInvariant`: `Spec => []SettlementInv`, the inductive invariant;
- `TypeCorrect` (`TypeOK`), `GrantsOnce`, `RecordsAlwaysAgree`: its conjuncts;
- `OrdersAreFinal` and `CouponsHaveTheirOrder`, from it;
- `Refinement`: `Spec => SettlesAtomically`, every step of the transactions is a
  step of `Settlement` or changes nothing it speaks of.

- `LedgerAlwaysBalances`: `Spec => []LedgerBalances`, no update of a balance is ever lost;
- `NeverARing`: `Spec => []NoRing`, for rings of any length, where the run has two sessions.

The assumptions are those of `MallData` and `PaymentNotify`: parents, owners and
subscribed products exist, amounts and rates are natural numbers, `Nobody` is not an id, there
are finitely many orders (`OrdersAssumption`), and of any users one was invited by none of the
others (`EldestAssumption`: a parent registers before the users invited with his code, and
`RegistrationHolds` shows that registrations keep it so).

*The argument.* `GrantedOnce` is not inductive: that `Commit` finds the order
pending follows only from the session having locked it and from nobody else
writing a locked row. So `SettlementInv` adds that locks have one holder
(`LocksExclusive`), that each session's copy of the order, the coupon it marked
and the balances it computed are still what the tables say (`SessionsUpToDate`),
and that rows are filled in (`OrdersComplete`). `FrameUpToDate` is the heart: a session's
facts survive every step of another session that keeps the rows it has locked;
`StepFrame` shows that every step does. With it a commit writes from current
values, which is also what the refinement needs: wallet, commission, coupon and
order change from their values at that moment.

The ledger needs the same, and sums: at a commit one order enters `Spent` of its buyer or
`Earned` of the inviter, and one balance moves by its amount, because the balance written is the
current one and the amount (`SumAdd` of SumTheorems). That a sum does not depend on the
order of adding is an induction over finite sets. The library's induction theorems cannot
be used here, but a least counterexample can: `FS_StrictSubsetOrderingWellFounded` gives one.

A ring is refuted by going along it in the order in which rows are locked (`LocksInOrder`): a session
that waits for an order holds nothing, so nobody waits for it; hence nobody in a ring waits for an
order, then for a subscription, then for a coupon. What is left waits for users rows, each
for one who has locked his buyer and wants the buyer's inviter: of these buyers one is the
eldest, and his inviter, for whom his session waits, is none of them.

For all sets of orders, handlers and processes, all plans, and any lead and lengths of the
periods with every period longer than the lead and a day
(`LeadAssumption`; `SubscriptionLifecycleProofs`):

- `LifecycleInvariant`: `Spec => []LifecycleInv`, the inductive invariant;
- `LifecycleTyped` (`TypeOK`) and `KeysFollow` (`KeyFollowsLimit`): its conjuncts;
- `ExpiryIsDue`: `Spec => ExpiresOnlyWhenOver`;
- `PeriodsFollow`: `Spec => PeriodsContiguous`;
- `PeriodsChargedOnce`: `Spec => ChargedOncePerPeriod`;
- `UpgradesReachTheEnd`: the loop of `CountUpgradeBillingCycles` ends, with the least count of at
  most 99 that reaches the end of the service.

*The argument.* An upgrade writes new dates when its handler *read* an expired
subscription. That it then still is expired, so that no running period is overwritten, is
`ExpiredStaysRead`: only an upgrade revives a subscription, and two unpaid upgrades
of one subscription do not exist (`OnePendingPerKind`), so the one that could have revived
it is the handler's own, no longer payable. Expiry and reset are never early
because the time of a run has passed when its phases use it (`RunsHaveBegun`).
The bot wants `period_end` equal to `expires_at` before it charges. It moves `expires_at`
ahead by a period, so a second charge in the period needs somebody to move it back: an upgrade of an
active subscription leaves it, a restart begins a later period (`PeriodBegun`), and a stale
renewal writes a date that is a period after a day not older than its transaction, which is
beyond a period charged for (`ChargesBehind`: that ends within the lead) if periods are
longer than the lead and the one midnight a transaction may see (`SessionsShort`).
TLC refutes the property for periods of 2 days with a lead of 1.

For all sets of users, invitations, handlers, any quotas, limits and number of keys and
connections (`TeamKeysProofs`):

- `TeamInvariant`: `Spec => []TeamInv`, the inductive invariant;
- `OneTeamEach` and `KeysStayInFamily`, from it;
- `UndisturbedLimitsKept`: `Spec => UndisturbedRequestsKeepLimits`;
- `ExhaustedUntilFailure`: once the pool is exhausted, no request begins, goes on or is
  answered until one fails, whatever orders and the bot do: the state that `RequestsAnswered`
  excuses is a deadlock, for any number of connections and handlers.

*The argument.* No lock or key keeps a user out of two teams. What does is that only the
one who invited him may add him, and a user has one inviter for good: so `OneTeam` rests on
`MembersInvited`, and that on what a request under way has found out, `SessionsCareful`. The same
two give `KeysInFamily`: a key's user is in the owner's team, thus his invitee; its
manager heads the team the owner is in, thus his inviter. What an undisturbed request
has read still holds when it writes (`Relies`): every other write of keys or subscription
takes its `fresh` away. Then the sum it writes into is the one it checked, by SumTheorems.
`KeyAssumption` has `NoKey`, the id that is left out of no sum, be no id.

For all tables of tasks, intervals, edits and failures (`SchedulerProofs`):

- `SchedulerInvariant`: `Spec => []SchedulerInv`, the inductive invariant;
- `NothingBeginsAfterStop` (`Spec => NoRunAfterStop`) and `NoOverlap` (`OverlapsOnlyAfterEdit`), from it.

*The argument.* A pass takes a job down only if its row differs from what the job was made of;
`Unedited` says that a row nobody edited is what every pass reads and its job was made of. A
stop waits for the pass and only then removes the jobs (`Stopping`), so none can be
registered behind it; runs need a registered job to begin, so what is in progress (`InProgress`)
can only become less. That it comes to nothing is not claimed.

For all sets of identities, domains, tiers, rows and passwords, any number of requests,
processes, readers and failures, and any traffic (`RegistrationProofs`, `ProfileProofs`,
`MembersProofs`; all are theorems of the composed `Members`):

- `RegistrationHolds` and `AnswersHold`: `Spec => []RegistrationInv`, `Spec => []AnswersTrue`;
- `LevelsOnlyRise` and `RisesAreAnnounced`: `Spec => AloneOnlyRaises`, `Spec => []RisesAnnounced`;
- `DeskUndisturbed`: `Spec => []UndisturbedDesk`;
- `ListsAreReadWhole` and `InviteesAreHonest`: `Spec => []WholeListRead`,
  `Spec => []MembersListHonest`;
- `EventsAreStoredOnce`: `Spec => []EventsOnce`;
- `VisitsAreTrue`, `LessonsAreTrue`, `LookupsAreHonest` and `SearchesAreTrue`: `Spec => []CatalogueTrue`,
  `Spec => []TutorialsTrue`, `Spec => []LookupHonest`, `Spec => []LiteratureTrue`;
- `MembersTyped`: `Spec => []TypeOK`.

They assume of a day that its members are numbered in the order they came, that their
domains differ, that nobody was invited by someone who came later, and that nobody has been
raised yet (`DaysAssumption`): `RegistrationHolds` shows that registrations keep the first
three. A product's code is no slug (`CatalogueAssumption`: codes are in capitals), and no
archive of arXiv's has the name of a number (`LiteratureAssumption`).

*The argument.* Registration looks and inserts in separate statements, so nothing a visit has
looked up need still hold, but what it relies on is stable: a row once inserted stays, its domain
and number never change, so the inviter found is still the owner of his host and came before
whoever is numbered next; the unique keys refuse the rest. A visit that
says "exists" has met a row, by look-up or by `Clashes`, and rows stay; `before` is who was a
member when it began, so a host nobody is found for had no owner then. Levels:
a run alone made its plan above the levels it read, and only that run may have
changed them, for whoever joins later is not in its plan, and orders and edits change what *future*
plans say, never the level in a row (`LevelInv`). That some tier fits best
(`BestExists`) is counted, not computed: the tiers ahead of each are fewer and fewer. Profile: what
a request under way has seen is undisturbed until another request of the same member for the
same table begins, and then it is in `disturbed` for both; `DeskInv` says what it has seen at each step.

Members are told: who is raised is in `told` of the run that raised him, and leaves it
with a message, or into `silent` when that run fails; messages are never taken back (`RiseInv`).

Lists: rows are shown newest first, so a row's place is the number of newer ones, and
arrivals only move it back. `Paging` says that whatever was there at the beginning and has
fewer newer rows than the pages asked for hold has been shown; a page whose count and
rows see one table extends it by one page, and when the pages cover the total no row
has more newer ones than that. The invitees' rows are read before their
count, so the total is never less than what is shown (`InviteesStay`).

Tracking: `EventsPlaced` has every event in exactly one of queue, wire, table and the lost, and
the queue without repetition; a flush splits the queue (`Split`), and a refused beacon's batch
goes over to a fetch as a whole.

Pages: what was there at the first read is of the categories then active, so if it is on
display at the second read in the same category it is shown; links: the table of slugs
leads back to every code it has (`SlugsLeadBack`); look-ups: the match is a least of a
finite set of distances, and who waits for the second provider has done with the first
(`SecondIsLast`), so an empty answer leaves nobody `unasked`; arXiv's hits are a loop over the rows, unfolded and followed row by row
(`ArxivUnfolded`, `ArxivPlaces`).

*Only model-checked:* the liveness properties, which are out of the prover's reach as is
ENABLED: `PaidPurchaseSettles`, `CatchesUp`, `RequestsAnswered`, `ConfigApplied`,
`EnabledTasksRun`, `StopEnds`, `LevelsCatchUp`, `EventsArrive`; and the four violations. Every
other property of the passing runs is the conclusion of a theorem.

*What proving changed.* Two properties that the runs had passed were false beyond their
bounds:

- `WholeListRead` took a list for unchanged if its length was: a message marked and another
  delivered between two pages hid a row. `last` and `shifted` now compare the rows.
- `TutorialsTrue` failed at a third edit; it says now what it allows, and the run makes three.

Three more hold by a premise that nothing had stated: `ChargedOncePerPeriod` by
`LeadAssumption`, `NoRing` by `EldestAssumption`, and `RisesAnnounced` because a day begins with
nobody raised. `LiteratureTrue` had described the order of hits by the function that
computes them; `SameTitles` says what it is.

## 5. What is not modelled

- Invite rebate: the overview, which adds up single reads (a member on a disabled tier is
  shown that tier's rate, though accrual uses the default's), and saving the payout QR code, which
  overwrites one row.
- Configuration, boot, routing, logging, the redactor and alerts: wiring and I/O. The
  redis client is constructed and used by nothing. Shutting down the HTTP server is
  `net/http`'s.
- Tokens are signed and stateless; their format and expiry are left out. So are key
  strings, masks, password hashes, domain prefixes and texts.
- The account log of the payment provider has a client and no caller.
- The front ends but for the tracker: the server relies on none of their state. The
  research desktop (`agent`) is a mock-up.
- Inside settlement: wording of notices, JSON snapshots in `raw_request`, payment links.
- The schema is taken as migrated: the branches for missing columns are left out.

Worth doing next: checkout in two steps in PaymentNotify, as in SubscriptionLifecycle; that
SubscriptionLifecycle's settlement of an order in one step is Settlement's, as a refinement;
the rank function behind `StopEnds`, whose safety part could be proved.
