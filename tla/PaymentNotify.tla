--------------------------- MODULE PaymentNotify ---------------------------
(***************************************************************************)
(* Order settlement of the token mall: checkout, the payment notification  *)
(* transaction, the bot's renewal from the wallet balance, and the wallet, *)
(* commission and coupon rows they share.                                  *)
(*                                                                         *)
(* The database is MySQL InnoDB under REPEATABLE READ.  A transaction is   *)
(* modelled by the steps at which it meets other transactions: the first   *)
(* plain read, which fixes its snapshot; each row lock it takes (SELECT    *)
(* ... FOR UPDATE and UPDATE read the latest committed row and wait for    *)
(* its holder); each plain read made outside the transaction; and the      *)
(* commit, at which all its writes appear at once.  A row it locked cannot *)
(* change before that commit, so the writes are computed there.            *)
(***************************************************************************)
EXTENDS MallData, FiniteSets, Functions

CONSTANTS
  Workers,     \* database sessions: HTTP handlers and bot goroutines
  MaxFailures  \* bound: how many transactions fail for an outside reason

ASSUME MaxFailuresAssumption == MaxFailures \in Nat

\* user_orders has finitely many rows.
ASSUME OrdersAssumption == IsFiniteSet(Orders)

\* A parent registers before the users invited with his code, so among any users
\* there is one, the eldest, whom none of the others invited.
ASSUME EldestAssumption ==
  \A S \in SUBSET Users :
    S # {} => \E u \in S : HasInviter(u) => Parent[u] \notin S

\* The rows that transactions lock.
LockName == ({"order"} \X Orders) \cup ({"sub"} \X Subs)
              \cup ({"coupon"} \X Coupons) \cup ({"user"} \X Users)

VARIABLES
  order,      \* user_orders
  callback,   \* payment_callbacks.process_result per (channel, out_trade_no)
  granted,    \* how often the order's entitlement was applied to a subscription
  payFlow,    \* orders with a user_wallet_flows row of type pay
  rebate,     \* user_commission_records.rebate_amount, 0 when there is no row
  invoices,   \* orders with a user_invoices row
  wallet,     \* users.wallet_balance
  commission, \* users.commission_balance
  moved,      \* sum of a user's commission_transfer flows
  withdrawn,  \* sum of a user's commission_withdrawal flows
  coupon,     \* user_coupons: status and order_id
  sub,        \* user_subscriptions: status and product_id
  paid,       \* orders whose money the payment provider has taken
  acked,      \* orders whose notification was answered with success
  failures,   \* how many transactions failed for an outside reason so far
  pc,         \* where each session's transaction is
  cur,        \* the order id it works on
  draft,      \* its in-memory copy of the order row
  snap,       \* the order's subscription in its snapshot
  useCoupon,  \* whether it has marked the coupon used
  accrual,    \* the rebate it has computed
  newWallet,  \* the buyer's wallet_balance it will write
  newCommission, \* the inviter's commission_balance it will write
  held        \* the row locks it holds

db    == <<order, callback, granted, payFlow, rebate, invoices, wallet,
           commission, moved, withdrawn, coupon, sub>>
outer == <<paid, acked, failures>>
tx    == <<pc, cur, draft, snap, useCoupon, accrual, newWallet,
           newCommission, held>>
vars  == <<db, outer, tx>>

Locations == {"idle", "lock_order", "fulfil", "read_coupon", "mark_coupon",
              "lock_buyer", "lock_inviter", "commit", "renew_wallet"}

TypeOK ==
  /\ order \in [Orders -> Row]
  /\ callback \in [Orders -> {"none", "success", "ignored"}]
  /\ granted \in [Orders -> Nat]
  /\ payFlow \subseteq Orders
  /\ rebate \in [Orders -> Nat]
  /\ invoices \subseteq Orders
  /\ wallet \in [Users -> Nat]
  /\ commission \in [Users -> Nat]
  /\ moved \in [Users -> Nat]
  /\ withdrawn \in [Users -> Nat]
  /\ coupon \in [Coupons -> [status : {"available", "used", "expired"},
                             order  : Orders \cup {Nobody}]]
  /\ sub \in [Subs -> SubRow]
  /\ paid \subseteq Orders
  /\ acked \subseteq Orders
  /\ failures \in 0 .. MaxFailures
  /\ pc \in [Workers -> Locations]
  /\ cur \in [Workers -> Orders \cup {Nobody}]
  /\ draft \in [Workers -> Row]
  /\ snap \in [Workers -> SubRow \cup {Nobody}]
  /\ useCoupon \in [Workers -> BOOLEAN]
  /\ accrual \in [Workers -> Nat]
  /\ newWallet \in [Workers -> Nat]
  /\ newCommission \in [Workers -> Nat]
  /\ held \in [Workers -> SUBSET LockName]

Init ==
  /\ order = [o \in Orders |-> NoRow]
  /\ callback = [o \in Orders |-> "none"]
  /\ granted = [o \in Orders |-> 0]
  /\ payFlow = {}
  /\ rebate = [o \in Orders |-> 0]
  /\ invoices = {}
  /\ wallet = InitWallet
  /\ commission = [u \in Users |-> 0]
  /\ moved = [u \in Users |-> 0]
  /\ withdrawn = [u \in Users |-> 0]
  /\ coupon = [c \in Coupons |-> [status |-> "available", order |-> Nobody]]
  /\ sub = [s \in Subs |-> [status |-> "active", plan |-> FirstPlan[s]]]
  /\ paid = {}
  /\ acked = {}
  /\ failures = 0
  /\ pc = [w \in Workers |-> "idle"]
  /\ cur = [w \in Workers |-> Nobody]
  /\ draft = [w \in Workers |-> NoRow]
  /\ snap = [w \in Workers |-> Nobody]
  /\ useCoupon = [w \in Workers |-> FALSE]
  /\ accrual = [w \in Workers |-> 0]
  /\ newWallet = [w \in Workers |-> 0]
  /\ newCommission = [w \in Workers |-> 0]
  /\ held = [w \in Workers |-> {}]

-----------------------------------------------------------------------------
(* Row locks. *)

\* No other session holds the lock of the row.
FreeFor(w, row) == \A v \in Workers \ {w} : row \notin held[v]

\* No session holds the lock of the row.
Unlocked(row) == \A v \in Workers : row \notin held[v]

\* FAULT: the inviter's row is locked before the buyer's.
RebateUser_InviterFirst(w) ==
  LET d == draft[w]
  IN  IF HasInviter(d.user) /\ pc[w] = "lock_buyer" THEN Parent[d.user] ELSE d.user

\* The users row that the rebate locks next: the buyer's, then the inviter's.
RebateUser(w) ==
  IF pc[w] = "lock_buyer" THEN draft[w].user ELSE Parent[draft[w].user]

\* The row the session's next statement locks.
Wanted(w) ==
  CASE pc[w] = "lock_order"   -> <<"order", cur[w]>>
    [] pc[w] = "fulfil"       -> <<"sub", draft[w].sub>>
    [] pc[w] = "mark_coupon"  -> <<"coupon", draft[w].coupon>>
    [] pc[w] \in {"lock_buyer", "lock_inviter"} -> <<"user", RebateUser(w)>>
    [] pc[w] = "renew_wallet" -> <<"user", draft[w].user>>
    [] OTHER                  -> <<"nothing", Nobody>>

\* w waits for a row that v holds.
WaitsFor(w, v) == w # v /\ Wanted(w) \in held[v]

\* The sessions of S wait for one another in a ring.
Ring(S) == /\ \A w \in S : \E v \in S : WaitsFor(w, v)
           /\ \A v \in S : \E w \in S : WaitsFor(w, v)

\* End of a transaction: the session is idle and its locks are gone.
Release(w) ==
  /\ pc' = [pc EXCEPT ![w] = "idle"]
  /\ cur' = [cur EXCEPT ![w] = Nobody]
  /\ draft' = [draft EXCEPT ![w] = NoRow]
  /\ snap' = [snap EXCEPT ![w] = Nobody]
  /\ useCoupon' = [useCoupon EXCEPT ![w] = FALSE]
  /\ accrual' = [accrual EXCEPT ![w] = 0]
  /\ newWallet' = [newWallet EXCEPT ![w] = 0]
  /\ newCommission' = [newCommission EXCEPT ![w] = 0]
  /\ held' = [held EXCEPT ![w] = {}]

\* FAULT: the subscription is written outside the transaction, and stays so.
Rollback_GrantStays(w) ==
  /\ granted' = IF pc[w] \in {"idle", "lock_order", "fulfil", "renew_wallet"}
                THEN granted ELSE [granted EXCEPT ![cur[w]] = @ + 1]
  /\ Release(w)
  /\ UNCHANGED <<order, callback, payFlow, rebate, invoices, wallet, commission,
                 moved, withdrawn, coupon, sub, paid, acked>>

\* FAULT: the coupon is marked outside the transaction, and stays so.
Rollback_CouponStays(w) ==
  /\ coupon' = IF useCoupon[w]
               THEN [coupon EXCEPT ![draft[w].coupon] =
                       [status |-> "used", order |-> cur[w]]]
               ELSE coupon
  /\ Release(w)
  /\ UNCHANGED <<order, callback, granted, payFlow, rebate, invoices, wallet,
                 commission, moved, withdrawn, sub, paid, acked>>

\* The closure did not reach its end: everything is rolled back, and the
\* notification is not answered with success.
Rollback(w) == Release(w) /\ UNCHANGED <<db, paid, acked>>

\* The closure returns an error of its own.
Refuse(w) == Rollback(w) /\ UNCHANGED failures

\* The next statement is reached without a new lock.
Goto(w, label) == /\ pc' = [pc EXCEPT ![w] = label]
                  /\ UNCHANGED held

\* The lock of the row is taken and the next statement reached.
Lock(w, row, label) == /\ FreeFor(w, row)
                       /\ pc' = [pc EXCEPT ![w] = label]
                       /\ held' = [held EXCEPT ![w] = @ \cup {row}]

-----------------------------------------------------------------------------
(* Checkout. *)

\* The subscription the order is for: none for a purchase, else an active one
\* of the buyer; an upgrade is to another product, the others to the same.  (That
\* the upgrade must raise the quota only narrows what can be ordered; quotas are
\* not part of this module.)
ResolvesSub(r) ==
  \/ r.kind = "purchase" /\ r.sub = Nobody
  \/ /\ r.kind # "purchase" /\ r.sub \in Subs
     /\ SubOwner[r.sub] = r.user /\ sub[r.sub].status = "active"
     /\ r.kind = "upgrade" <=> sub[r.sub].plan # r.plan

\* The coupon is looked up by its id and its owner.
FindForUser(u, c) == c \in Coupons /\ CouponOwner[c] = u

\* The coupon is the buyer's, available, and takes something off.
ResolvesCoupon(u, c, subtotal) ==
  \/ c = Nobody
  \/ /\ FindForUser(u, c) /\ coupon[c].status = "available"
     /\ DiscountAmount(c, subtotal) > 0

\* The buyer's unpaid orders that a new order of this kind replaces.
Replaced(u, kind, s) ==
  {p \in Orders : /\ kind # "purchase"
                  /\ order[p].status = "pending_payment"
                  /\ order[p].user = u /\ order[p].kind = kind
                  /\ order[p].sub = s}

\* A checkout inserts a pending order.  Orders other than purchases first cancel
\* the unpaid ones they replace; that UPDATE waits for the locks of all the
\* buyer's unpaid orders, which share its index range.
CreateOrder(o, r) ==
  /\ order[o].status = "none"
  /\ Unlocked(<<"order", o>>)
  /\ ResolvesSub(r)
  /\ ResolvesCoupon(r.user, r.coupon, Subtotal(r))
  /\ r.kind # "purchase" =>
       \A p \in Orders : (/\ order[p].status = "pending_payment"
                          /\ order[p].user = r.user) => Unlocked(<<"order", p>>)
  /\ order' = [p \in Orders |->
                 IF p = o THEN CheckoutRow(r)
                 ELSE IF p \in Replaced(r.user, r.kind, r.sub)
                 THEN [order[p] EXCEPT !.status = "cancelled"]
                 ELSE order[p]]
  /\ UNCHANGED <<callback, granted, payFlow, rebate, invoices, wallet,
                 commission, moved, withdrawn, coupon, sub, outer, tx>>

\* The provider takes the buyer's money; the one-step checkout pretends so.  The
\* cashier page does not know that the mall has cancelled the order.
PayAtProvider(o) ==
  /\ order[o].status \in {"pending_payment", "cancelled"}
  /\ ~order[o].bot
  /\ o \notin paid
  /\ paid' = paid \cup {o}
  /\ UNCHANGED <<db, acked, failures, tx>>

-----------------------------------------------------------------------------
(* The payment notification. *)

\* A notification the endpoint passes on: the order exists and was paid.
Notifiable(o) == order[o].status # "none" /\ o \in paid

\* The look-up of the callback by its idempotency key.
Recorded(o) == callback[o] # "none"

\* The transaction's first read fixes its snapshot.  When the notification is
\* already recorded the handler answers success and changes nothing.
FindCallback(w, o) ==
  /\ pc[w] = "idle"
  /\ Notifiable(o)
  /\ IF Recorded(o)
     THEN /\ acked' = acked \cup {o}
          /\ UNCHANGED <<db, paid, failures, tx>>
     ELSE /\ pc' = [pc EXCEPT ![w] = "lock_order"]
          /\ cur' = [cur EXCEPT ![w] = o]
          /\ \/ order[o].kind = "purchase" /\ UNCHANGED snap
             \/ /\ order[o].kind # "purchase"
                /\ snap' = [snap EXCEPT ![w] = sub[order[o].sub]]
          /\ UNCHANGED <<db, outer, draft, useCoupon, accrual, newWallet,
                         newCommission, held>>

\* FAULT: only completed orders are refused, so a cancelled one is taken up.
Payable_Cancelled(status) == status # "completed"

\* The statuses an order can be paid in.
Payable(status) == status = "pending_payment"

\* The order row is read under its lock, so its status is the latest one.
LockPendingOrder(w) ==
  /\ pc[w] = "lock_order"
  /\ Payable(order[cur[w]].status)
  /\ Lock(w, <<"order", cur[w]>>, "fulfil")
  /\ draft' = [draft EXCEPT ![w] = order[cur[w]]]
  /\ UNCHANGED <<db, outer, cur, snap, useCoupon, accrual, newWallet,
                 newCommission>>

\* Another notification completed the order meanwhile.  The row recording this
\* one meets the unique key and its error is dropped; the answer is success.
OrderAlreadyCompleted(w) ==
  /\ pc[w] = "lock_order"
  /\ FreeFor(w, <<"order", cur[w]>>)
  /\ order[cur[w]].status = "completed"
  /\ callback' = [callback EXCEPT ![cur[w]] = IF @ = "none" THEN "ignored" ELSE @]
  /\ acked' = acked \cup {cur[w]}
  /\ Release(w)
  /\ UNCHANGED <<order, granted, payFlow, rebate, invoices, wallet, commission,
                 moved, withdrawn, coupon, sub, paid, failures>>

\* FAULT: the refusal is answered with success.
OrderNotPayable_Acked(w) ==
  /\ pc[w] = "lock_order"
  /\ order[cur[w]].status = "cancelled"
  /\ acked' = acked \cup {cur[w]}
  /\ Release(w)
  /\ UNCHANGED <<db, paid, failures>>

\* A cancelled order is refused.
OrderNotPayable(w) ==
  /\ pc[w] = "lock_order"
  /\ FreeFor(w, <<"order", cur[w]>>)
  /\ order[cur[w]].status = "cancelled"
  /\ Refuse(w)

\* The statement after the entitlement: the coupon, if the order names one.
AfterFulfil(d) == IF d.coupon # Nobody THEN "read_coupon" ELSE "lock_buyer"

\* The subscription in the snapshot admits the order: a renewal wants its own
\* product, and renewals and add-ons an active subscription.
Admits(d, s) == /\ d.kind = "renewal" => s.plan = d.plan
                /\ d.kind \in {"renewal", "quota_addon"} => s.status = "active"

\* A purchase inserts a subscription and its main key; the other kinds update
\* their subscription.
FulfilPaidOrderByType(w) ==
  /\ pc[w] = "fulfil"
  /\ \/ /\ draft[w].kind = "purchase"
        /\ Goto(w, AfterFulfil(draft[w]))
     \/ /\ draft[w].kind # "purchase"
        /\ Admits(draft[w], snap[w])
        /\ Lock(w, <<"sub", draft[w].sub>>, AfterFulfil(draft[w]))
  /\ UNCHANGED <<db, outer, cur, draft, snap, useCoupon, accrual, newWallet,
                 newCommission>>

\* "renew: subscription product mismatch" and "subscription is not active".
SubscriptionRefused(w) ==
  /\ pc[w] = "fulfil"
  /\ draft[w].kind # "purchase"
  /\ ~Admits(draft[w], snap[w])
  /\ Refuse(w)

\* FAULT: no look-up, the coupon is always marked.
ReadCoupon_NoLookup(w) ==
  /\ pc[w] = "read_coupon"
  /\ Goto(w, "mark_coupon")
  /\ UNCHANGED <<db, outer, cur, draft, snap, useCoupon, accrual, newWallet,
                 newCommission>>

\* The coupon is looked up on another connection, outside the transaction: the
\* latest committed status, no lock.  One that is not available is passed over.
ReadCoupon(w) ==
  /\ pc[w] = "read_coupon"
  /\ \/ /\ coupon[draft[w].coupon].status = "available"
        /\ Goto(w, "mark_coupon")
     \/ /\ coupon[draft[w].coupon].status # "available"
        /\ Goto(w, "lock_buyer")
  /\ UNCHANGED <<db, outer, cur, draft, snap, useCoupon, accrual, newWallet,
                 newCommission>>

\* FAULT: UPDATE without "status = 'available'".
CouponMatches_AnyStatus(w) == TRUE

\* The row matches WHERE id = ? AND status = 'available'.
CouponMatches(w) == coupon[draft[w].coupon].status = "available"

\* The coupon is marked used under its row lock.
MarkUsed(w) ==
  /\ pc[w] = "mark_coupon"
  /\ CouponMatches(w)
  /\ Lock(w, <<"coupon", draft[w].coupon>>, "lock_buyer")
  /\ useCoupon' = [useCoupon EXCEPT ![w] = TRUE]
  /\ UNCHANGED <<db, outer, cur, draft, snap, accrual, newWallet, newCommission>>

\* The coupon went between the look-up and the update: no row matches.
CouponTaken(w) ==
  /\ pc[w] = "mark_coupon"
  /\ FreeFor(w, <<"coupon", draft[w].coupon>>)
  /\ ~CouponMatches(w)
  /\ Refuse(w)

-----------------------------------------------------------------------------
(* The inviter's rebate, in the same transaction. *)

\* The buyer's row is locked; an order with a record has had its rebate.
LockBuyer(w) ==
  /\ pc[w] = "lock_buyer"
  /\ Lock(w, <<"user", RebateUser(w)>>,
          IF rebate[cur[w]] = 0 /\ HasInviter(draft[w].user)
          THEN "lock_inviter" ELSE "commit")
  /\ UNCHANGED <<db, outer, cur, draft, snap, useCoupon, accrual, newWallet,
                 newCommission>>

\* FAULT: the inviter's row is read without FOR UPDATE.
LockInviter_PlainRead(w) ==
  /\ pc[w] = "lock_inviter"
  /\ Goto(w, "commit")
  /\ \E rate \in Rates :
       LET share == RebateAmount(draft[w].amount, rate)
       IN  /\ accrual' = [accrual EXCEPT ![w] = share]
           /\ newCommission' = [newCommission EXCEPT
                ![w] = commission[Parent[draft[w].user]] + share]
  /\ UNCHANGED <<db, outer, cur, draft, snap, useCoupon, newWallet>>

\* The inviter's row is locked and the rate of its tier read, outside the
\* transaction.  A rebate that rounds to nothing leaves no record.
LockInviter(w) ==
  /\ pc[w] = "lock_inviter"
  /\ Lock(w, <<"user", RebateUser(w)>>, "commit")
  /\ \E rate \in Rates :
       LET share == RebateAmount(draft[w].amount, rate)
       IN  /\ accrual' = [accrual EXCEPT ![w] = share]
           /\ newCommission' = [newCommission EXCEPT
                ![w] = commission[Parent[draft[w].user]] + share]
  /\ UNCHANGED <<db, outer, cur, draft, snap, useCoupon, newWallet>>

-----------------------------------------------------------------------------
(* The bot renews a subscription from the wallet. *)

\* The subscription is locked while active; o is the id the insert will get.
\* When the renewal is due is the business of module SubscriptionLifecycle.
AutoRenewLockSub(w, s, o) ==
  /\ pc[w] = "idle"
  /\ order[o].status = "none"
  /\ Unlocked(<<"order", o>>)
  /\ FreeFor(w, <<"sub", s>>)
  /\ sub[s].status = "active"
  /\ draft' = [draft EXCEPT ![w] = BotRow(s, sub[s].plan)]
  /\ snap' = [snap EXCEPT ![w] = sub[s]]
  /\ pc' = [pc EXCEPT ![w] = "renew_wallet"]
  /\ cur' = [cur EXCEPT ![w] = o]
  /\ held' = [held EXCEPT ![w] = {<<"sub", s>>, <<"order", o>>}]
  /\ UNCHANGED <<db, outer, useCoupon, accrual, newWallet, newCommission>>

\* The wallet balance just read is enough for the order.
WalletCovers(w) == wallet[draft[w].user] >= draft[w].amount

\* Renew only when the wallet covers the price; then charge, extend, accrue.
AutoRenewCharge(w) ==
  /\ pc[w] = "renew_wallet"
  /\ Lock(w, <<"user", draft[w].user>>, "lock_buyer")
  /\ WalletCovers(w)
  /\ newWallet' = [newWallet EXCEPT ![w] = wallet[draft[w].user] - draft[w].amount]
  /\ UNCHANGED <<db, outer, cur, draft, snap, useCoupon, accrual, newCommission>>

AutoRenewSkipped(w) ==
  /\ pc[w] = "renew_wallet"
  /\ FreeFor(w, <<"user", draft[w].user>>)
  /\ ~WalletCovers(w)
  /\ Refuse(w)

-----------------------------------------------------------------------------
(* The end of a settling transaction. *)

\* The unique keys uk_user_wallet_flows_ref, uk_payment_callbacks_idem and the
\* one on user_commission_records.order_id admit the rows.
NoDuplicate(w) ==
  /\ cur[w] \notin payFlow
  /\ ~draft[w].bot => callback[cur[w]] = "none"
  /\ accrual[w] > 0 => rebate[cur[w]] = 0

\* The pay flow of the order; only the bot's comes off the wallet.
DeductBalance(w) ==
  /\ payFlow' = payFlow \cup {cur[w]}
  /\ wallet' = IF draft[w].bot
               THEN [wallet EXCEPT ![draft[w].user] = newWallet[w]] ELSE wallet

\* The inviter's record and his new balance.
AccrueRebate(w) ==
  /\ rebate' = [rebate EXCEPT ![cur[w]] = accrual[w]]
  /\ commission' = IF accrual[w] > 0
                   THEN [commission EXCEPT ![Parent[draft[w].user]] = newCommission[w]]
                   ELSE commission

\* The record of the notification; the bot has none.
InsertCallback(w) ==
  callback' = IF draft[w].bot THEN callback ELSE [callback EXCEPT ![cur[w]] = "success"]

\* The inserted or updated rows become visible together.  answered is FALSE when
\* the process dies after the commit and before it answers.
Commit(w) ==
  LET o == cur[w]
      d == draft[w]
  IN  \E answered \in BOOLEAN :
        /\ pc[w] = "commit"
        /\ NoDuplicate(w)
        /\ order' = [order EXCEPT ![o] = [d EXCEPT !.status = "completed"]]
        /\ granted' = [granted EXCEPT ![o] = @ + 1]
        /\ DeductBalance(w)
        /\ coupon' = IF useCoupon[w]
                     THEN [coupon EXCEPT ![d.coupon] =
                             [status |-> "used", order |-> o]]
                     ELSE coupon
        /\ AccrueRebate(w)
        /\ sub' = IF d.kind = "upgrade"
                   THEN [sub EXCEPT ![d.sub] =
                           [plan   |-> d.plan,
                            status |-> IF snap[w].status = "active" THEN @.status
                                                                    ELSE "active"]]
                   ELSE sub
        /\ invoices' = IF d.invoice THEN invoices \cup {o} ELSE invoices
        /\ InsertCallback(w)
        /\ acked' = IF answered /\ ~d.bot THEN acked \cup {o} ELSE acked
        /\ Release(w)
        /\ UNCHANGED <<moved, withdrawn, failures, paid>>

\* A crash, a lost connection, a lock wait timeout or a database error.
Fail(w) ==
  /\ pc[w] # "idle"
  /\ failures < MaxFailures
  /\ failures' = failures + 1
  /\ Rollback(w)

-----------------------------------------------------------------------------
(* Short transactions on one locked row, each a single step. *)

\* Commission moves to the wallet: both columns of one locked row.
TransferCommissionToBalance(u) ==
  \E amount \in 1 .. commission[u] :
    /\ Unlocked(<<"user", u>>)
    /\ commission' = [commission EXCEPT ![u] = @ - amount]
    /\ wallet' = [wallet EXCEPT ![u] = @ + amount]
    /\ moved' = [moved EXCEPT ![u] = @ + amount]
    /\ UNCHANGED <<order, callback, granted, payFlow, rebate, invoices,
                   withdrawn, coupon, sub, outer, tx>>

\* Commission is set aside for a withdrawal request.
CreateCommissionWithdrawal(u) ==
  \E amount \in 1 .. commission[u] :
    /\ Unlocked(<<"user", u>>)
    /\ commission' = [commission EXCEPT ![u] = @ - amount]
    /\ withdrawn' = [withdrawn EXCEPT ![u] = @ + amount]
    /\ UNCHANGED <<order, callback, granted, payFlow, rebate, invoices, wallet,
                   moved, coupon, sub, outer, tx>>

\* The coupon bot expires a coupon whose validity is over.
ExpireCoupon(c) ==
  /\ coupon[c].status = "available"
  /\ Unlocked(<<"coupon", c>>)
  /\ coupon' = [coupon EXCEPT ![c].status = "expired"]
  /\ UNCHANGED <<order, callback, granted, payFlow, rebate, invoices, wallet,
                 commission, moved, withdrawn, sub, outer, tx>>

\* The subscription bot expires a subscription.
ExpireSubscription(s) ==
  /\ sub[s].status = "active"
  /\ Unlocked(<<"sub", s>>)
  /\ sub' = [sub EXCEPT ![s].status = "expired"]
  /\ UNCHANGED <<order, callback, granted, payFlow, rebate, invoices, wallet,
                 commission, moved, withdrawn, coupon, outer, tx>>

-----------------------------------------------------------------------------
(* What a session does once its transaction has begun. *)
Step(w) ==
  \/ LockPendingOrder(w) \/ OrderAlreadyCompleted(w) \/ OrderNotPayable(w)
  \/ FulfilPaidOrderByType(w) \/ SubscriptionRefused(w)
  \/ ReadCoupon(w) \/ MarkUsed(w) \/ CouponTaken(w)
  \/ LockBuyer(w) \/ LockInviter(w)
  \/ AutoRenewCharge(w) \/ AutoRenewSkipped(w)
  \/ Commit(w)

Next ==
  \/ \E o \in Orders, r \in Checkouts : CreateOrder(o, r)
  \/ \E o \in Orders : PayAtProvider(o)
  \/ \E w \in Workers, o \in Orders : FindCallback(w, o)
  \/ \E w \in Workers, s \in Subs, o \in Orders : AutoRenewLockSub(w, s, o)
  \/ \E w \in Workers : Step(w) \/ Fail(w)
  \/ \E u \in Users : TransferCommissionToBalance(u)
                        \/ CreateCommissionWithdrawal(u)
  \/ \E c \in Coupons : ExpireCoupon(c)
  \/ \E s \in Subs : ExpireSubscription(s)

Spec == Init /\ [][Next]_vars

\* A provider repeats a notification until it is answered; a session that has
\* begun goes on; and InnoDB hands a freed user or coupon row to a session that
\* waits for it, so no waiter is passed over for ever.
Fairness ==
  /\ \A o \in Orders : SF_vars(\E w \in Workers : FindCallback(w, o))
  /\ \A w \in Workers :
       /\ WF_vars(Step(w))
       /\ SF_vars(LockBuyer(w))
       /\ SF_vars(MarkUsed(w) \/ CouponTaken(w))

FairSpec == Spec /\ Fairness

-----------------------------------------------------------------------------
(* Properties. *)

\* An order's entitlement is applied exactly when the order is completed, and
\* once: duplicate and concurrent notifications, retries after a rollback and
\* answers lost after a commit never apply it twice.
GrantedOnce ==
  \A o \in Orders :
    granted[o] = IF order[o].status = "completed" THEN 1 ELSE 0

\* The rows written beside the order agree with it: one pay flow and, for a
\* notified order, one callback row recorded as success; a rebate or an invoice
\* only for a completed order; success answered only for a completed one.
RecordsAgree ==
  \A o \in Orders :
    LET done == order[o].status = "completed"
    IN  /\ done <=> o \in payFlow
        /\ (done /\ ~order[o].bot) <=> callback[o] = "success"
        /\ callback[o] # "ignored"
        /\ o \in invoices <=> (done /\ order[o].invoice)
        /\ rebate[o] > 0 => done
        /\ o \in acked => done

\* What the orders cost, those paid from a user's wallet, and those whose buyer
\* he invited.
Amount == [o \in Orders |-> order[o].amount]
Spent(u) == {o \in payFlow : order[o].user = u /\ order[o].bot}
Earned(u) == {o \in Orders : /\ order[o].status = "completed"
                              /\ Parent[order[o].user] = u}

\* The money adds up: a wallet holds what it started with and what was moved to
\* it, less what the bot's renewals cost; a commission balance and what
\* left it are the rebates earned.  A lost update of a users row breaks this.
LedgerBalances ==
  \A u \in Users :
    /\ wallet[u] + SumFunctionOnSet(Amount, Spent(u)) = InitWallet[u] + moved[u]
    /\ commission[u] + moved[u] + withdrawn[u] = SumFunctionOnSet(rebate, Earned(u))

\* A row lock has one holder.
LocksExclusive ==
  \A v, w \in Workers : v # w => held[v] \cap held[w] = {}

\* A checkout's row names its buyer, product and subscription; only the bot inserts
\* completed rows; and the provider is paid for checkouts alone.
OrdersComplete ==
  \A o \in Orders :
    /\ order[o].status # "none" =>
         /\ order[o].user \in Users
         /\ order[o].plan \in Plans
         /\ order[o].kind # "purchase" => order[o].sub \in Subs
    /\ order[o].status \in {"pending_payment", "cancelled"} => ~order[o].bot
    /\ o \in paid => order[o].status # "none" /\ ~order[o].bot

Begun    == Locations \ {"idle", "lock_order"}
Rebating == {"lock_buyer", "lock_inviter", "commit"}

\* The order the session settles is locked and as it read it; the bot's is not
\* inserted yet, and its subscription is locked.
OrderUpToDate(w) ==
  /\ pc[w] = "idle" => held[w] = {}
  /\ pc[w] # "idle" => cur[w] \in Orders
  /\ pc[w] = "lock_order" =>
       /\ order[cur[w]].status # "none" /\ ~order[cur[w]].bot
       /\ order[cur[w]].kind # "purchase" => snap[w] \in SubRow
  /\ pc[w] \in Begun =>
       /\ <<"order", cur[w]>> \in held[w]
       /\ draft[w].user \in Users
       /\ draft[w].kind # "purchase" => draft[w].sub \in Subs /\ snap[w] \in SubRow
       /\ IF draft[w].bot
          THEN /\ order[cur[w]].status = "none"
               /\ draft[w].plan \in Plans
               /\ draft[w] = BotRow(draft[w].sub, draft[w].plan)
          ELSE /\ order[cur[w]].status = "pending_payment"
               /\ draft[w] = order[cur[w]]
  /\ pc[w] = "renew_wallet" => draft[w].bot
  /\ pc[w] \in {"fulfil", "read_coupon", "mark_coupon"} => ~draft[w].bot
  /\ pc[w] \in {"read_coupon", "mark_coupon"} => draft[w].coupon \in Coupons

\* The coupon a session has marked is locked and still available to others' eyes.
CouponUpToDate(w) ==
  useCoupon[w] =>
    /\ pc[w] \in Rebating
    /\ draft[w].coupon \in Coupons
    /\ <<"coupon", draft[w].coupon>> \in held[w]
    /\ coupon[draft[w].coupon].status = "available"

\* The balances it will write are computed from those in the table, whose rows it
\* has locked.
BalancesUpToDate(w) ==
  /\ (pc[w] \in Rebating /\ draft[w].bot) =>
       /\ <<"user", draft[w].user>> \in held[w]
       /\ newWallet[w] + draft[w].amount = wallet[draft[w].user]
  /\ pc[w] # "commit" => accrual[w] = 0
  /\ pc[w] = "lock_inviter" => HasInviter(draft[w].user)
  /\ pc[w] = "commit" =>
       IF HasInviter(draft[w].user)
       THEN /\ <<"user", Parent[draft[w].user]>> \in held[w]
            /\ \E rate \in Rates : accrual[w] = RebateAmount(draft[w].amount, rate)
            /\ newCommission[w] = commission[Parent[draft[w].user]] + accrual[w]
       ELSE accrual[w] = 0

\* Whatever a session read under a lock and will write from is still what the
\* tables say: nobody else moved the order, coupon, wallet or commission meanwhile.
SessionsUpToDate ==
  \A w \in Workers : /\ OrderUpToDate(w)
                      /\ CouponUpToDate(w)
                      /\ BalancesUpToDate(w)

\* The inductive invariant: the properties above and what holds them up.
SettlementInv == /\ TypeOK
                 /\ LocksExclusive
                 /\ OrdersComplete
                 /\ SessionsUpToDate
                 /\ GrantedOnce
                 /\ RecordsAgree

\* Which locks a session can hold where: those of orders before those of
\* subscriptions, of coupons, of the buyer and of the inviter.
InLockOrder(w) ==
  /\ \A o \in Orders : <<"order", o>> \in held[w] => pc[w] \in Begun
  /\ \A s \in Subs : <<"sub", s>> \in held[w] => pc[w] \in Begun \ {"fulfil"}
  /\ \A c \in Coupons : <<"coupon", c>> \in held[w] => pc[w] \in Rebating
  /\ \A u \in Users :
       <<"user", u>> \in held[w] =>
         \/ pc[w] = "commit"
         \/ u = draft[w].user /\ pc[w] = "lock_inviter"
         \/ u = draft[w].user /\ pc[w] = "lock_buyer" /\ draft[w].bot

LocksInOrder == \A w \in Workers : InLockOrder(w)

\* A used coupon was used by one completed order that named it.
CouponUsedByItsOrder ==
  \A c \in Coupons :
    coupon[c].status = "used" =>
      /\ coupon[c].order \in Orders
      /\ order[coupon[c].order].status = "completed"
      /\ order[coupon[c].order].coupon = c

\* No sessions wait for one another in a ring: notification and bot lock rows in
\* the order order, subscription, coupon, buyer, inviter, and no user is invited
\* by a descendant.  The code retries no deadlock, so this is what keeps a payment
\* from failing for one.
NoRing == \A S \in SUBSET Workers : Ring(S) => S = {}

\* A completed or cancelled order is final: neither a late notification nor a
\* replacing checkout touches its row, its entitlement or its rebate again; a
\* used coupon stays with its order.
FinalOrders ==
  [][/\ \A o \in Orders :
          order[o].status \in {"completed", "cancelled"} =>
            /\ order'[o] = order[o]
            /\ granted'[o] = granted[o]
            /\ rebate'[o] = rebate[o]
     /\ \A c \in Coupons : coupon[c].status = "used" => coupon'[c] = coupon[c]
    ]_vars

\* A purchase whose money the provider took is delivered, and its notification
\* is answered: no retry, deadlock or coupon conflict postpones it for ever.
PaidPurchaseSettles ==
  \A o \in Orders :
    (o \in paid /\ order[o].kind = "purchase")
      ~> (granted[o] = 1 /\ o \in acked)

\* Every interleaving of the sessions looks like orders settled one at a time,
\* each in one step and from current balances: module Settlement.
Promise == INSTANCE Settlement WITH
  order <- order, granted <- granted, wallet <- wallet,
  commission <- commission, rebate <- rebate, coupon <- coupon
SettlesAtomically == Promise!Spec

\* docs/ai-platform-design.md:17: an order goes from paid to completed, or fails
\* and is refunded.
PaidOrderSettles ==
  \A o \in Orders :
    o \in paid ~> order[o].status \in {"completed", "refunded"}
=============================================================================
