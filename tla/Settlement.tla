----------------------------- MODULE Settlement -----------------------------
(***************************************************************************)
(* What the mall promises about settling orders, without sessions, locks   *)
(* or messages: each order is settled at most once, by one step that       *)
(* charges the buyer, applies the entitlement, uses the coupon and pays    *)
(* the inviter, computed from the balances of that very moment.            *)
(* PaymentNotify implements this module.                                   *)
(***************************************************************************)
EXTENDS MallData

VARIABLES order, granted, wallet, commission, rebate, coupon

vars == <<order, granted, wallet, commission, rebate, coupon>>

Init ==
  /\ order = [o \in Orders |-> NoRow]
  /\ granted = [o \in Orders |-> 0]
  /\ wallet = InitWallet
  /\ commission = [u \in Users |-> 0]
  /\ rebate = [o \in Orders |-> 0]
  /\ coupon = [c \in Coupons |-> [status |-> "available", order |-> Nobody]]

\* A request becomes a pending order; unpaid orders for the same thing are
\* cancelled, except that purchases stand side by side.
Place(o, r) ==
  /\ order[o].status = "none"
  /\ order' = [p \in Orders |->
       IF p = o THEN CheckoutRow(r)
       ELSE IF /\ r.kind # "purchase" /\ order[p].status = "pending_payment"
               /\ order[p].user = r.user /\ order[p].kind = r.kind
               /\ order[p].sub = r.sub
            THEN [order[p] EXCEPT !.status = "cancelled"]
            ELSE order[p]]
  /\ UNCHANGED <<granted, wallet, commission, rebate, coupon>>

\* The order d with id o is settled, at the rebate rate given; use says whether
\* its coupon is used up.
Settle(o, d, rate, use) ==
  LET share == IF HasInviter(d.user) THEN RebateAmount(d.amount, rate) ELSE 0
  IN  /\ d.bot => wallet[d.user] >= d.amount
      /\ use => d.coupon # Nobody /\ coupon[d.coupon].status = "available"
      /\ order' = [order EXCEPT ![o] = [d EXCEPT !.status = "completed"]]
      /\ granted' = [granted EXCEPT ![o] = 1]
      /\ wallet' = IF d.bot
                   THEN [wallet EXCEPT ![d.user] = @ - d.amount] ELSE wallet
      /\ rebate' = [rebate EXCEPT ![o] = share]
      /\ commission' = IF share > 0
                       THEN [commission EXCEPT ![Parent[d.user]] = @ + share]
                       ELSE commission
      /\ coupon' = IF use
                   THEN [coupon EXCEPT ![d.coupon] =
                           [status |-> "used", order |-> o]]
                   ELSE coupon

\* A notified order is settled from its pending row.
SettlePending(o) ==
  /\ order[o].status = "pending_payment"
  /\ \E rate \in Rates, use \in BOOLEAN : Settle(o, order[o], rate, use)

\* The bot settles a renewal that had no row before.
SettleRenewal(o) ==
  /\ order[o].status = "none"
  /\ \E s \in Subs, plan \in Plans, rate \in Rates :
       Settle(o, BotRow(s, plan), rate, FALSE)

\* Commission goes to the wallet, or out.
Spend(u) ==
  \E amount \in 1 .. commission[u], kept \in BOOLEAN :
    /\ commission' = [commission EXCEPT ![u] = @ - amount]
    /\ wallet' = IF kept THEN [wallet EXCEPT ![u] = @ + amount] ELSE wallet
    /\ UNCHANGED <<order, granted, rebate, coupon>>

Lapse(c) ==
  /\ coupon[c].status = "available"
  /\ coupon' = [coupon EXCEPT ![c].status = "expired"]
  /\ UNCHANGED <<order, granted, wallet, commission, rebate>>

Next ==
  \/ \E o \in Orders, r \in Checkouts : Place(o, r)
  \/ \E o \in Orders : SettlePending(o) \/ SettleRenewal(o)
  \/ \E u \in Users : Spend(u)
  \/ \E c \in Coupons : Lapse(c)

Spec == Init /\ [][Next]_vars
=============================================================================
