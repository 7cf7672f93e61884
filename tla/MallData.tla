------------------------------ MODULE MallData ------------------------------
(***************************************************************************)
(* The rows of the mall's tables that settling an order reads and writes,  *)
(* and the amounts computed from them.  Money is in fen: DECIMAL(16,2)     *)
(* holds every such amount exactly.                                        *)
(***************************************************************************)
EXTENDS Integers

CONSTANTS
  Orders,    \* ids of user_orders rows
  Users,     \* ids of users rows
  Subs,      \* ids of user_subscriptions rows
  Coupons,   \* ids of user_coupons rows
  Nobody,    \* "no row": parent_user_id = 0, no subscription, no coupon
  Parent,    \* users.parent_user_id, written once, at registration
  Plans,     \* ids of products rows
  SubOwner,  \* user_subscriptions.user_id
  FirstPlan, \* user_subscriptions.product_id at the start
  CouponOwner,   \* user_coupons.user_id
  Checkouts,     \* the checkout requests buyers send
  Price,         \* products.price, in fen
  Terms,         \* user_coupons: percent or fixed, discount_value, min_order_amount
  Rates,         \* rebate percentages of vip_config, 0 for no tier
  InitWallet     \* users.wallet_balance at the start

\* The parent of a user is an existing user or nobody (0).
ASSUME ParentAssumption == Parent \in [Users -> Users \cup {Nobody}]

\* Every subscription and every coupon belongs to a user; a subscription is one
\* to a product.
ASSUME OwnerAssumption == /\ SubOwner \in [Subs -> Users]
                          /\ FirstPlan \in [Subs -> Plans]
                          /\ CouponOwner \in [Coupons -> Users]

\* A coupon takes off a percentage or a fixed amount, from a least subtotal on.
ASSUME TermsAssumption ==
  Terms \in [Coupons -> [percent : BOOLEAN, value : Nat, min : Nat]]

\* Amounts are non-negative numbers of fen; a tier's rate and the value of a
\* percentage coupon, DECIMAL with two places, are in hundredths of a percent.
ASSUME AmountAssumption == /\ Price \in [Plans -> Nat]
                           /\ Rates \subseteq Nat /\ Rates # {}
                           /\ InitWallet \in [Users -> Nat]

\* Nobody is not the id of a row.
ASSUME NobodyAssumption == /\ Nobody \notin Users
                           /\ Nobody \notin Subs
                           /\ Nobody \notin Coupons
                           /\ Nobody \notin Orders

Kinds == {"purchase", "renewal", "upgrade", "quota_addon"}

\* A checkout request: who buys what, for which subscription, how many periods of
\* which product, with which coupon, with an enterprise invoice or not.  For an
\* upgrade the quantity is the one billing.CountUpgradeBillingCycles computes.
Request == [user     : Users,
            kind     : Kinds,
            sub      : Subs \cup {Nobody},
            plan     : Plans,
            quantity : 1 .. 99,
            coupon   : Coupons \cup {Nobody},
            invoice  : BOOLEAN]

ASSUME CheckoutsAssumption == Checkouts \subseteq Request

Row == [status  : {"none", "pending_payment", "completed", "cancelled"},
        user    : Users \cup {Nobody},
        kind    : Kinds,
        sub     : Subs \cup {Nobody},
        plan    : Plans \cup {Nobody},
        coupon  : Coupons \cup {Nobody},
        amount  : Nat,
        invoice : BOOLEAN,
        bot     : BOOLEAN]  \* inserted by the bot and paid from the balance;
                            \* checkouts are paid at a provider

\* An id for which no row has been inserted.
NoRow == [status |-> "none", user |-> Nobody, kind |-> "purchase",
          sub |-> Nobody, plan |-> Nobody, coupon |-> Nobody, amount |-> 0,
          invoice |-> FALSE, bot |-> FALSE]

SubRow == [status : {"active", "expired"}, plan : Plans]

-----------------------------------------------------------------------------
(* Amounts. *)

\* n hundredths of a percent of an amount, rounded half up to a fen.
Percent(amount, n) == (amount * n + 5000) \div 10000

\* What a coupon takes off a subtotal: nothing below its least amount, and never
\* more than the subtotal.
DiscountAmount(c, subtotal) ==
  LET off == IF Terms[c].percent THEN Percent(subtotal, Terms[c].value)
                                 ELSE Terms[c].value
  IN  IF subtotal < Terms[c].min THEN 0
      ELSE IF off > subtotal THEN subtotal ELSE off

\* What the buyer owes: the subtotal less the coupon, plus 6% when an
\* enterprise invoice is asked for.
TotalAmount(c, subtotal, invoice) ==
  LET after == IF c = Nobody THEN subtotal
                             ELSE subtotal - DiscountAmount(c, subtotal)
  IN  IF invoice THEN after + Percent(after, 600) ELSE after

\* The user was invited by somebody else.
HasInviter(u) == Parent[u] # Nobody /\ Parent[u] # u

\* The inviter's share of an order.
RebateAmount(amount, rate) == Percent(amount, rate)

\* The order row the bot inserts when it renews a subscription.
BotRow(s, plan) ==
  [status |-> "completed", user |-> SubOwner[s], kind |-> "renewal",
   sub |-> s, plan |-> plan, coupon |-> Nobody, amount |-> Price[plan],
   invoice |-> FALSE, bot |-> TRUE]

\* The product's price times the quantity.
Subtotal(r) == Price[r.plan] * r.quantity

\* The order row a checkout inserts.
CheckoutRow(r) ==
  [status |-> "pending_payment", user |-> r.user, kind |-> r.kind,
   sub |-> r.sub, plan |-> r.plan, coupon |-> r.coupon,
   amount |-> TotalAmount(r.coupon, Subtotal(r), r.invoice),
   invoice |-> r.invoice, bot |-> FALSE]
=============================================================================
