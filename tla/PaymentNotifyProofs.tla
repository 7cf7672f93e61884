------------------------ MODULE PaymentNotifyProofs ------------------------
(***************************************************************************)
(* Proofs about PaymentNotify for every set of orders, users, sessions,    *)
(* subscriptions and coupons, and all amounts.                             *)
(***************************************************************************)
EXTENDS PaymentNotify, SumTheorems, TLAPS

-----------------------------------------------------------------------------
(* Amounts and rows. *)

\* A percentage of an amount is an amount (the rounding never makes it negative).
LEMMA PercentNat ==
  ASSUME NEW a \in Nat, NEW n \in Nat
  PROVE  Percent(a, n) \in Nat
<1>1. a * n \in Nat
  OBVIOUS
<1>2. \A p \in Nat : (p + 5000) \div 10000 \in Nat
  OBVIOUS
<1> QED
  BY <1>1, <1>2 DEF Percent

\* A coupon takes off an amount no larger than the subtotal.
LEMMA DiscountBounded ==
  ASSUME NEW c \in Coupons, NEW t \in Nat
  PROVE  /\ DiscountAmount(c, t) \in Nat
         /\ DiscountAmount(c, t) <= t
<1>1. /\ Terms[c].value \in Nat
      /\ Percent(t, Terms[c].value) \in Nat
  BY TermsAssumption, PercentNat
<1> QED
  BY <1>1 DEF DiscountAmount

\* What a buyer owes is never negative.
LEMMA TotalNat ==
  ASSUME NEW c \in Coupons \cup {Nobody}, NEW t \in Nat, NEW i \in BOOLEAN
  PROVE  TotalAmount(c, t, i) \in Nat
<1> DEFINE after == IF c = Nobody THEN t ELSE t - DiscountAmount(c, t)
<1>1. after \in Nat
  BY DiscountBounded
<1> HIDE DEF after
<1>2. Percent(after, 600) \in Nat
  BY <1>1, PercentNat
<1>3. TotalAmount(c, t, i) = IF i THEN after + Percent(after, 600) ELSE after
  BY DEF TotalAmount, after
<1> QED
  BY <1>1, <1>2, <1>3

\* A checkout inserts a row of the orders table.
LEMMA CheckoutRowType ==
  ASSUME NEW r \in Checkouts
  PROVE  /\ CheckoutRow(r) \in Row
         /\ CheckoutRow(r).status = "pending_payment"
         /\ ~CheckoutRow(r).bot
<1>1. r \in Request
  BY CheckoutsAssumption
<1>2. Subtotal(r) \in Nat
  <2>1. Price[r.plan] \in Nat /\ r.quantity \in Nat
    BY <1>1, AmountAssumption DEF Request
  <2> QED
    BY <2>1 DEF Subtotal
<1>3. TotalAmount(r.coupon, Subtotal(r), r.invoice) \in Nat
  BY <1>1, <1>2, TotalNat DEF Request
<1> QED
  BY <1>1, <1>3 DEF CheckoutRow, Row, Request

\* So does the bot.
LEMMA BotRowType ==
  ASSUME NEW s \in Subs, NEW p \in Plans
  PROVE  /\ BotRow(s, p) \in Row
         /\ BotRow(s, p).bot
         /\ BotRow(s, p).user \in Users
         /\ BotRow(s, p).kind = "renewal"
         /\ BotRow(s, p).sub = s
         /\ BotRow(s, p).plan = p
         /\ BotRow(s, p).coupon = Nobody
         /\ BotRow(s, p).status = "completed"
BY OwnerAssumption, AmountAssumption DEF BotRow, Row, Kinds

\* Changing the status keeps the other columns.
LEMMA WithStatus ==
  ASSUME NEW d \in Row,
         NEW st \in {"none", "pending_payment", "completed", "cancelled"}
  PROVE  LET e == [d EXCEPT !.status = st]
         IN  /\ e \in Row /\ e.status = st
             /\ e.user = d.user /\ e.kind = d.kind /\ e.sub = d.sub
             /\ e.plan = d.plan /\ e.coupon = d.coupon /\ e.amount = d.amount
             /\ e.invoice = d.invoice /\ e.bot = d.bot
BY DEF Row

\* The absent row is typed like a row.
LEMMA NoRowType == NoRow \in Row
BY DEF NoRow, Row, Kinds

\* The inviter's share is an amount.
LEMMA RebateNat ==
  ASSUME NEW a \in Nat, NEW rate \in Rates
  PROVE  RebateAmount(a, rate) \in Nat
BY PercentNat, AmountAssumption DEF RebateAmount

-----------------------------------------------------------------------------
(* The invariant holds at the start. *)

\* Nothing has been ordered, no session has begun.
LEMMA InitInv == Init => SettlementInv
<1> SUFFICES ASSUME Init PROVE SettlementInv
  OBVIOUS
<1>1. TypeOK
  <2>1. /\ order \in [Orders -> Row] /\ draft \in [Workers -> Row]
    BY NoRowType DEF Init
  <2>2. wallet \in [Users -> Nat]
    BY AmountAssumption DEF Init
  <2>3. sub \in [Subs -> SubRow]
    BY OwnerAssumption DEF Init, SubRow
  <2> QED
    BY <2>1, <2>2, <2>3, MaxFailuresAssumption DEF Init, TypeOK, Locations
<1>2. LocksExclusive
  BY DEF Init, LocksExclusive
<1>3. OrdersComplete
  BY DEF Init, OrdersComplete, NoRow
<1>4. SessionsUpToDate
  BY DEF Init, SessionsUpToDate, OrderUpToDate, CouponUpToDate, BalancesUpToDate,
         Begun, Rebating, Locations
<1>5. GrantedOnce /\ RecordsAgree
  BY DEF Init, GrantedOnce, RecordsAgree, NoRow
<1> QED
  BY <1>1, <1>2, <1>3, <1>4, <1>5 DEF SettlementInv

-----------------------------------------------------------------------------
(* Every step keeps the types. *)

\* A rollback keeps the types: the session's variables get their first values.
LEMMA ReleaseType ==
  ASSUME TypeOK, NEW w \in Workers, Release(w)
  PROVE  /\ pc' \in [Workers -> Locations]
         /\ cur' \in [Workers -> Orders \cup {Nobody}]
         /\ draft' \in [Workers -> Row]
         /\ snap' \in [Workers -> SubRow \cup {Nobody}]
         /\ useCoupon' \in [Workers -> BOOLEAN]
         /\ accrual' \in [Workers -> Nat]
         /\ newWallet' \in [Workers -> Nat]
         /\ newCommission' \in [Workers -> Nat]
         /\ held' \in [Workers -> SUBSET LockName]
BY NoRowType DEF TypeOK, Release, Locations

\* What a session works on: read off the invariant.
LEMMA SessionFacts ==
  ASSUME SettlementInv, NEW w \in Workers
  PROVE  /\ draft[w] \in Row
         /\ pc[w] # "idle" => cur[w] \in Orders
         /\ pc[w] \in Begun =>
              /\ draft[w].user \in Users
              /\ draft[w].plan \in Plans
              /\ draft[w].kind # "purchase" =>
                   draft[w].sub \in Subs /\ snap[w] \in SubRow
              /\ <<"order", cur[w]>> \in held[w]
              /\ order[cur[w]].status =
                   IF draft[w].bot THEN "none" ELSE "pending_payment"
              /\ ~draft[w].bot => draft[w] = order[cur[w]]
              /\ draft[w].bot =>
                   /\ draft[w] = BotRow(draft[w].sub, draft[w].plan)
                   /\ draft[w].sub \in Subs
                   /\ draft[w].kind = "renewal"
                   /\ draft[w].coupon = Nobody
         /\ pc[w] = "mark_coupon" \/ pc[w] = "read_coupon" =>
              ~draft[w].bot /\ draft[w].coupon \in Coupons
         /\ pc[w] = "fulfil" => ~draft[w].bot
         /\ pc[w] = "lock_inviter" =>
              HasInviter(draft[w].user) /\ Parent[draft[w].user] \in Users
         /\ pc[w] \in {"lock_buyer", "lock_inviter"} => accrual[w] = 0
         /\ useCoupon[w] => draft[w].coupon \in Coupons
<1>1. OrderUpToDate(w) /\ CouponUpToDate(w) /\ BalancesUpToDate(w)
  BY DEF SettlementInv, SessionsUpToDate
<1>2. draft[w] \in Row /\ pc[w] \in Locations
  BY DEF SettlementInv, TypeOK
<1>3. pc[w] # "idle" => cur[w] \in Orders
  BY <1>1 DEF OrderUpToDate
<1>4. ASSUME pc[w] \in Begun
      PROVE  /\ draft[w].user \in Users
             /\ draft[w].plan \in Plans
             /\ draft[w].kind # "purchase" =>
                  draft[w].sub \in Subs /\ snap[w] \in SubRow
             /\ <<"order", cur[w]>> \in held[w]
             /\ order[cur[w]].status =
                  IF draft[w].bot THEN "none" ELSE "pending_payment"
             /\ ~draft[w].bot => draft[w] = order[cur[w]]
             /\ draft[w].bot =>
                  /\ draft[w] = BotRow(draft[w].sub, draft[w].plan)
                  /\ draft[w].sub \in Subs
                  /\ draft[w].kind = "renewal"
                  /\ draft[w].coupon = Nobody
  <2>1. cur[w] \in Orders
    BY <1>3, <1>4 DEF Begun
  <2>2. draft[w].plan \in Plans
    BY <1>1, <1>4, <2>1 DEF OrderUpToDate, SettlementInv, OrdersComplete
  <2>3. draft[w].bot => draft[w].kind = "renewal" /\ draft[w].coupon = Nobody
    BY <1>1, <1>4 DEF OrderUpToDate, BotRow
  <2> QED
    BY <1>1, <1>4, <2>2, <2>3 DEF OrderUpToDate
<1>5. pc[w] = "lock_inviter" =>
        HasInviter(draft[w].user) /\ Parent[draft[w].user] \in Users
  BY <1>1, <1>4, ParentAssumption DEF BalancesUpToDate, HasInviter, Begun, Locations
<1>6. pc[w] \in {"lock_buyer", "lock_inviter"} => accrual[w] = 0
  BY <1>1 DEF BalancesUpToDate, Rebating
<1> QED
  BY <1>1, <1>2, <1>3, <1>4, <1>5, <1>6 DEF OrderUpToDate, CouponUpToDate

\* The steps of a session keep the types.
LEMMA StepType ==
  ASSUME SettlementInv, NEW w \in Workers, Step(w)
  PROVE  TypeOK'
<1> USE DEF SettlementInv
<1>1. CASE LockPendingOrder(w)
  <2>1. cur[w] \in Orders
    BY <1>1, SessionFacts DEF LockPendingOrder
  <2> QED
    BY <1>1, <2>1 DEF LockPendingOrder, Lock, TypeOK, Locations, LockName, db, outer
<1>2. CASE OrderAlreadyCompleted(w)
  <2>1. callback' \in [Orders -> {"none", "success", "ignored"}]
    BY <1>2 DEF OrderAlreadyCompleted, TypeOK
  <2>2. acked' = acked \cup {cur[w]} /\ cur[w] \in Orders
    BY <1>2, SessionFacts DEF OrderAlreadyCompleted
  <2> QED
    BY <1>2, <2>1, <2>2, ReleaseType DEF OrderAlreadyCompleted, TypeOK
<1>3. CASE OrderNotPayable(w) \/ SubscriptionRefused(w) \/ CouponTaken(w)
             \/ AutoRenewSkipped(w)
  <2>1. Refuse(w)
    BY <1>3 DEF OrderNotPayable, SubscriptionRefused, CouponTaken, AutoRenewSkipped
  <2>2. Release(w) /\ UNCHANGED <<db, paid, acked, failures>>
    BY <2>1 DEF Refuse, Rollback
  <2> QED
    BY <2>2, ReleaseType DEF TypeOK, db
<1>4. CASE FulfilPaidOrderByType(w)
  <2>1. AfterFulfil(draft[w]) \in Locations
    BY DEF AfterFulfil, Locations
  <2>2. draft[w].kind # "purchase" => draft[w].sub \in Subs
    BY <1>4, SessionFacts DEF FulfilPaidOrderByType, Begun, Locations
  <2>3. pc' \in [Workers -> Locations]
    BY <1>4, <2>1 DEF FulfilPaidOrderByType, Goto, Lock, TypeOK
  <2>4. held' \in [Workers -> SUBSET LockName]
    BY <1>4, <2>2 DEF FulfilPaidOrderByType, Goto, Lock, TypeOK, LockName
  <2> QED
    BY <1>4, <2>3, <2>4 DEF FulfilPaidOrderByType, TypeOK, db, outer
<1>5. CASE ReadCoupon(w)
  BY <1>5 DEF ReadCoupon, Goto, TypeOK, Locations, db, outer
<1>6. CASE MarkUsed(w)
  <2>1. draft[w].coupon \in Coupons
    BY <1>6, SessionFacts DEF MarkUsed
  <2> QED
    BY <1>6, <2>1 DEF MarkUsed, Lock, TypeOK, Locations, LockName, db, outer
<1>7. CASE LockBuyer(w)
  <2>1. RebateUser(w) \in Users
    BY <1>7, SessionFacts DEF LockBuyer, RebateUser, Begun, Locations
  <2> QED
    BY <1>7, <2>1 DEF LockBuyer, Lock, TypeOK, Locations, LockName, db, outer
<1>8. CASE LockInviter(w)
  <2>1. /\ RebateUser(w) = Parent[draft[w].user]
        /\ Parent[draft[w].user] \in Users
    BY <1>8, SessionFacts DEF LockInviter, RebateUser
  <2>2. PICK rate \in Rates :
          /\ accrual' = [accrual EXCEPT ![w] = RebateAmount(draft[w].amount, rate)]
          /\ newCommission' = [newCommission EXCEPT
               ![w] = commission[Parent[draft[w].user]]
                        + RebateAmount(draft[w].amount, rate)]
    BY <1>8 DEF LockInviter
  <2>3. draft[w].amount \in Nat /\ commission[Parent[draft[w].user]] \in Nat
    BY <2>1 DEF TypeOK, Row
  <2>4. RebateAmount(draft[w].amount, rate) \in Nat
    BY <2>3, RebateNat
  <2>5. /\ accrual' \in [Workers -> Nat]
        /\ newCommission' \in [Workers -> Nat]
    BY <2>2, <2>3, <2>4 DEF TypeOK
  <2> QED
    BY <1>8, <2>1, <2>5 DEF LockInviter, Lock, TypeOK, Locations, LockName, db, outer
<1>9. CASE AutoRenewCharge(w)
  <2>1. draft[w].user \in Users /\ draft[w].amount \in Nat
    BY <1>9, SessionFacts DEF AutoRenewCharge, Begun, Locations, Row
  <2>2. wallet[draft[w].user] - draft[w].amount \in Nat
    BY <1>9, <2>1 DEF AutoRenewCharge, WalletCovers, TypeOK
  <2> QED
    BY <1>9, <2>1, <2>2 DEF AutoRenewCharge, Lock, TypeOK, Locations, LockName,
                            db, outer
<1>10. CASE Commit(w)
  <2>1. [draft[w] EXCEPT !.status = "completed"] \in Row /\ cur[w] \in Orders
    BY <1>10, WithStatus, SessionFacts DEF Commit
  <2>2. order' \in [Orders -> Row]
    BY <1>10, <2>1 DEF Commit, TypeOK
  <2>3. /\ callback' \in [Orders -> {"none", "success", "ignored"}]
        /\ granted' \in [Orders -> Nat]
        /\ payFlow' \subseteq Orders
        /\ rebate' \in [Orders -> Nat]
        /\ invoices' \subseteq Orders
        /\ acked' \subseteq Orders
    BY <1>10, <2>1 DEF Commit, DeductBalance, AccrueRebate, InsertCallback, TypeOK
  <2>4. /\ wallet' \in [Users -> Nat]
        /\ commission' \in [Users -> Nat]
    <3>1. /\ wallet \in [Users -> Nat] /\ commission \in [Users -> Nat]
          /\ newWallet[w] \in Nat /\ newCommission[w] \in Nat
      BY DEF TypeOK
    <3>2. /\ \/ wallet' = [wallet EXCEPT ![draft[w].user] = newWallet[w]]
             \/ wallet' = wallet
          /\ \/ commission' = [commission EXCEPT ![Parent[draft[w].user]] =
                                 newCommission[w]]
             \/ commission' = commission
      BY <1>10, Zenon DEF Commit, DeductBalance, AccrueRebate
    <3>3. \A f \in [Users -> Nat], u, n \in Nat : [f EXCEPT ![u] = n] \in [Users -> Nat]
      OBVIOUS
    <3> QED
      BY <3>1, <3>2, <3>3
  <2>5. coupon' \in [Coupons -> [status : {"available", "used", "expired"},
                                 order  : Orders \cup {Nobody}]]
    <3>1. [status |-> "used", order |-> cur[w]]
            \in [status : {"available", "used", "expired"},
                 order  : Orders \cup {Nobody}]
      BY <2>1
    <3>2. \/ coupon' = [coupon EXCEPT ![draft[w].coupon] =
                          [status |-> "used", order |-> cur[w]]]
          \/ coupon' = coupon
      BY <1>10, Zenon DEF Commit
    <3> QED
      BY <3>1, <3>2 DEF TypeOK
  <2>6. sub' \in [Subs -> SubRow]
    <3>1. CASE draft[w].kind = "upgrade"
      <4>1. draft[w].plan \in Plans
        BY <1>10, SessionFacts DEF Commit, Begun, Locations
      <4>2. draft[w].sub \in Subs
        BY <1>10, <3>1, SessionFacts DEF Commit, Begun, Locations
      <4>3. \A st \in {"active", "expired"} :
              [plan |-> draft[w].plan, status |-> st] \in SubRow
        BY <4>1 DEF SubRow
      <4>4. sub[draft[w].sub].status \in {"active", "expired"}
        BY <4>2 DEF TypeOK, SubRow
      <4>5. sub' = [sub EXCEPT ![draft[w].sub] =
                      [plan   |-> draft[w].plan,
                       status |-> IF snap[w].status = "active" THEN @.status
                                                               ELSE "active"]]
        BY <1>10, <3>1, Zenon DEF Commit
      <4>6. (IF snap[w].status = "active" THEN sub[draft[w].sub].status ELSE "active")
              \in {"active", "expired"}
        BY <4>4
      <4>7. PICK row \in SubRow : sub' = [sub EXCEPT ![draft[w].sub] = row]
        BY <4>3, <4>5, <4>6
      <4> QED
        BY <4>7 DEF TypeOK
    <3>2. CASE draft[w].kind # "upgrade"
      <4>1. sub' = sub
        BY <1>10, <3>2, Zenon DEF Commit
      <4> QED
        BY <4>1 DEF TypeOK
    <3> QED
      BY <3>1, <3>2
  <2> QED
    BY <1>10, <2>2, <2>3, <2>4, <2>5, <2>6, ReleaseType DEF Commit, TypeOK
<1> QED
  BY <1>1, <1>2, <1>3, <1>4, <1>5, <1>6, <1>7, <1>8, <1>9, <1>10 DEF Step

\* Every step keeps the types.
LEMMA NextType ==
  ASSUME SettlementInv, [Next]_vars
  PROVE  TypeOK'
<1> USE DEF SettlementInv
<1>1. ASSUME NEW o \in Orders, NEW r \in Checkouts, CreateOrder(o, r)
      PROVE  TypeOK'
  <2>1. \A p \in Orders : [order[p] EXCEPT !.status = "cancelled"] \in Row
    BY WithStatus DEF TypeOK
  <2>2. CheckoutRow(r) \in Row
    BY CheckoutRowType
  <2>3. order' \in [Orders -> Row]
    BY <1>1, <2>1, <2>2 DEF CreateOrder, TypeOK
  <2> QED
    BY <1>1, <2>3 DEF CreateOrder, TypeOK, outer, tx
<1>2. ASSUME NEW o \in Orders, PayAtProvider(o)
      PROVE  TypeOK'
  BY <1>2 DEF PayAtProvider, TypeOK, db, tx
<1>3. ASSUME NEW w \in Workers, NEW o \in Orders, FindCallback(w, o)
      PROVE  TypeOK'
  <2>1. CASE callback[o] # "none"
    <3>1. acked' = acked \cup {o} /\ UNCHANGED <<db, paid, failures, tx>>
      BY <1>3, <2>1, Zenon DEF FindCallback, Recorded
    <3> QED
      BY <3>1 DEF TypeOK, db, tx
  <2>2. CASE callback[o] = "none"
    <3>1. /\ Notifiable(o)
          /\ pc' = [pc EXCEPT ![w] = "lock_order"]
          /\ cur' = [cur EXCEPT ![w] = o]
          /\ \/ order[o].kind = "purchase" /\ UNCHANGED snap
             \/ /\ order[o].kind # "purchase"
                /\ snap' = [snap EXCEPT ![w] = sub[order[o].sub]]
          /\ UNCHANGED <<db, outer, draft, useCoupon, accrual, newWallet,
                         newCommission, held>>
      BY <1>3, <2>2, Zenon DEF FindCallback, Recorded
    <3>2. order[o].kind # "purchase" => sub[order[o].sub] \in SubRow
      BY <3>1 DEF Notifiable, OrdersComplete, TypeOK
    <3>3. snap' \in [Workers -> SubRow \cup {Nobody}]
      BY <3>1, <3>2 DEF TypeOK
    <3>4. pc' \in [Workers -> Locations] /\ cur' \in [Workers -> Orders \cup {Nobody}]
      BY <3>1 DEF TypeOK, Locations
    <3> QED
      BY <3>1, <3>3, <3>4 DEF TypeOK, db, outer
  <2> QED
    BY <2>1, <2>2
<1>4. ASSUME NEW w \in Workers, NEW s \in Subs, NEW o \in Orders,
             AutoRenewLockSub(w, s, o)
      PROVE  TypeOK'
  <2>1. /\ sub[s] \in SubRow /\ sub[s].plan \in Plans
        /\ {<<"sub", s>>, <<"order", o>>} \in SUBSET LockName
    BY DEF TypeOK, SubRow, LockName
  <2>2. BotRow(s, sub[s].plan) \in Row
    BY <2>1, BotRowType
  <2> QED
    BY <1>4, <2>1, <2>2 DEF AutoRenewLockSub, TypeOK, Locations, db, outer
<1>5. ASSUME NEW w \in Workers, Step(w)
      PROVE  TypeOK'
  BY <1>5, StepType
<1>6. ASSUME NEW w \in Workers, Fail(w)
      PROVE  TypeOK'
  BY <1>6, ReleaseType, MaxFailuresAssumption DEF Fail, Rollback, TypeOK, db
<1>7. ASSUME NEW u \in Users,
             TransferCommissionToBalance(u) \/ CreateCommissionWithdrawal(u)
      PROVE  TypeOK'
  <2>1. PICK amount \in 1 .. commission[u] :
          /\ commission' = [commission EXCEPT ![u] = @ - amount]
          /\ wallet' = wallet \/ wallet' = [wallet EXCEPT ![u] = @ + amount]
          /\ moved' = moved \/ moved' = [moved EXCEPT ![u] = @ + amount]
          /\ withdrawn' = withdrawn
               \/ withdrawn' = [withdrawn EXCEPT ![u] = @ + amount]
    BY <1>7 DEF TransferCommissionToBalance, CreateCommissionWithdrawal
  <2>2. /\ amount \in Nat /\ commission[u] - amount \in Nat
        /\ wallet[u] + amount \in Nat /\ moved[u] + amount \in Nat
        /\ withdrawn[u] + amount \in Nat
    BY DEF TypeOK
  <2>3. /\ commission' \in [Users -> Nat] /\ wallet' \in [Users -> Nat]
        /\ moved' \in [Users -> Nat] /\ withdrawn' \in [Users -> Nat]
    BY <2>1, <2>2 DEF TypeOK
  <2> QED
    BY <1>7, <2>3 DEF TransferCommissionToBalance, CreateCommissionWithdrawal,
                      TypeOK, outer, tx
<1>8. ASSUME NEW c \in Coupons, ExpireCoupon(c)
      PROVE  TypeOK'
  <2>1. [coupon[c] EXCEPT !.status = "expired"]
          \in [status : {"available", "used", "expired"},
               order  : Orders \cup {Nobody}]
    BY DEF TypeOK
  <2> QED
    BY <1>8, <2>1 DEF ExpireCoupon, TypeOK, outer, tx
<1>9. ASSUME NEW s \in Subs, ExpireSubscription(s)
      PROVE  TypeOK'
  <2>1. [sub[s] EXCEPT !.status = "expired"] \in SubRow
    BY DEF TypeOK, SubRow
  <2> QED
    BY <1>9, <2>1 DEF ExpireSubscription, TypeOK, outer, tx
<1>10. CASE UNCHANGED vars
  BY <1>10 DEF vars, db, outer, tx, TypeOK
<1> QED
  BY <1>1, <1>2, <1>3, <1>4, <1>5, <1>6, <1>7, <1>8, <1>9, <1>10 DEF Next

-----------------------------------------------------------------------------
(* Every step keeps row locks exclusive. *)

\* A row that is free may be locked.
LEMMA LockExclusive ==
  ASSUME TypeOK, LocksExclusive, NEW w \in Workers, NEW row, FreeFor(w, row),
         held' = [held EXCEPT ![w] = @ \cup {row}]
  PROVE  LocksExclusive'
BY DEF TypeOK, LocksExclusive, FreeFor

\* Locks may be given up.
LEMMA ReleaseExclusive ==
  ASSUME TypeOK, LocksExclusive, NEW w \in Workers, Release(w)
  PROVE  LocksExclusive'
BY DEF TypeOK, LocksExclusive, Release

\* A step takes only a lock that nobody else holds.
LEMMA StepExclusive ==
  ASSUME SettlementInv, NEW w \in Workers, Step(w)
  PROVE  LocksExclusive'
<1> USE DEF SettlementInv
<1>1. CASE LockPendingOrder(w)
  BY <1>1, LockExclusive DEF LockPendingOrder, Lock
<1>2. CASE FulfilPaidOrderByType(w)
  BY <1>2, LockExclusive DEF FulfilPaidOrderByType, Goto, Lock, LocksExclusive
<1>3. CASE ReadCoupon(w)
  BY <1>3 DEF ReadCoupon, Goto, LocksExclusive
<1>4. CASE MarkUsed(w)
  BY <1>4, LockExclusive DEF MarkUsed, Lock
<1>5. CASE LockBuyer(w)
  BY <1>5, LockExclusive DEF LockBuyer, Lock
<1>6. CASE LockInviter(w)
  BY <1>6, LockExclusive DEF LockInviter, Lock
<1>7. CASE AutoRenewCharge(w)
  BY <1>7, LockExclusive DEF AutoRenewCharge, Lock
<1>8. CASE OrderAlreadyCompleted(w) \/ OrderNotPayable(w)
             \/ SubscriptionRefused(w) \/ CouponTaken(w)
             \/ AutoRenewSkipped(w) \/ Commit(w)
  <2>1. Release(w)
    BY <1>8 DEF OrderAlreadyCompleted, OrderNotPayable, SubscriptionRefused,
                CouponTaken, AutoRenewSkipped, Commit, Refuse, Rollback
  <2> QED
    BY <2>1, ReleaseExclusive
<1> QED
  BY <1>1, <1>2, <1>3, <1>4, <1>5, <1>6, <1>7, <1>8 DEF Step

\* Two sessions never hold the same row lock.
LEMMA NextExclusive ==
  ASSUME SettlementInv, [Next]_vars
  PROVE  LocksExclusive'
<1> USE DEF SettlementInv
<1>1. ASSUME NEW w \in Workers, NEW s \in Subs, NEW o \in Orders,
             AutoRenewLockSub(w, s, o)
      PROVE  LocksExclusive'
  <2>1. /\ held' = [held EXCEPT ![w] = {<<"sub", s>>, <<"order", o>>}]
        /\ \A v \in Workers \ {w} : <<"sub", s>> \notin held[v]
        /\ \A v \in Workers : <<"order", o>> \notin held[v]
    BY <1>1 DEF AutoRenewLockSub, FreeFor, Unlocked
  <2>2. \A v \in Workers \ {w} :
          /\ held'[v] = held[v]
          /\ held'[w] \cap held'[v] = {}
    BY <2>1 DEF TypeOK
  <2> QED
    BY <2>2 DEF LocksExclusive
<1>2. ASSUME NEW w \in Workers, Step(w)
      PROVE  LocksExclusive'
  BY <1>2, StepExclusive
<1>3. ASSUME NEW w \in Workers, Fail(w)
      PROVE  LocksExclusive'
  BY <1>3, ReleaseExclusive DEF Fail, Rollback
<1>4. ASSUME UNCHANGED held
      PROVE  LocksExclusive'
  BY <1>4 DEF LocksExclusive
<1>5. ASSUME NEW w \in Workers, NEW o \in Orders, FindCallback(w, o)
      PROVE  UNCHANGED held
  BY <1>5 DEF FindCallback, Recorded, tx
<1>6. CASE \/ \E o \in Orders, r \in Checkouts : CreateOrder(o, r)
           \/ \E o \in Orders : PayAtProvider(o)
           \/ \E u \in Users : TransferCommissionToBalance(u)
                                  \/ CreateCommissionWithdrawal(u)
           \/ \E c \in Coupons : ExpireCoupon(c)
           \/ \E s \in Subs : ExpireSubscription(s)
           \/ UNCHANGED vars
  <2>1. UNCHANGED tx
    BY <1>6 DEF CreateOrder, PayAtProvider, TransferCommissionToBalance,
                CreateCommissionWithdrawal, ExpireCoupon, ExpireSubscription, vars
  <2> QED
    BY <2>1, <1>4 DEF tx
<1> QED
  BY <1>1, <1>2, <1>3, <1>4, <1>5, <1>6 DEF Next

-----------------------------------------------------------------------------
(* What a step leaves alone.  A row that a session has locked is written by   *)
(* nobody else, which is why what it read there stays true.                   *)

\* The session's own variables are untouched.
Same(v) ==
  /\ pc'[v] = pc[v] /\ cur'[v] = cur[v] /\ draft'[v] = draft[v]
  /\ snap'[v] = snap[v] /\ useCoupon'[v] = useCoupon[v]
  /\ accrual'[v] = accrual[v] /\ newWallet'[v] = newWallet[v]
  /\ newCommission'[v] = newCommission[v] /\ held'[v] = held[v]

\* The rows it has locked are untouched.
Keeps(v) ==
  /\ \A o \in Orders : <<"order", o>> \in held[v] => order'[o] = order[o]
  /\ \A c \in Coupons : <<"coupon", c>> \in held[v] => coupon'[c] = coupon[c]
  /\ \A u \in Users : <<"user", u>> \in held[v] =>
                          wallet'[u] = wallet[u] /\ commission'[u] = commission[u]

\* No order row disappears or changes its kind.
Grows ==
  \A o \in Orders :
    order[o].status # "none" =>
      /\ order'[o].status # "none"
      /\ order'[o].bot = order[o].bot /\ order'[o].kind = order[o].kind

UpToDate(w) == OrderUpToDate(w) /\ CouponUpToDate(w) /\ BalancesUpToDate(w)

\* A session that is left alone stays up to date.
LEMMA FrameUpToDate ==
  ASSUME SettlementInv, NEW v \in Workers, Same(v), Keeps(v), Grows
  PROVE  UpToDate(v)'
<1> USE DEF SettlementInv
<1>1. UpToDate(v)
  BY DEF SessionsUpToDate, UpToDate
<1>2. OrderUpToDate(v)'
  <2>1. CASE pc[v] \in Begun
    <3>1. cur[v] \in Orders /\ <<"order", cur[v]>> \in held[v]
      BY <2>1, SessionFacts DEF Begun
    <3>2. order'[cur[v]] = order[cur[v]]
      BY <3>1 DEF Keeps
    <3> QED
      BY <1>1, <2>1, <3>2 DEF UpToDate, OrderUpToDate, Same, Begun
  <2>2. CASE pc[v] = "lock_order"
    <3>1. cur[v] \in Orders /\ order[cur[v]].status # "none"
      BY <1>1, <2>2 DEF UpToDate, OrderUpToDate
    <3>2. /\ order'[cur[v]].status # "none"
          /\ order'[cur[v]].bot = order[cur[v]].bot
          /\ order'[cur[v]].kind = order[cur[v]].kind
      BY <3>1 DEF Grows
    <3> QED
      BY <1>1, <2>2, <3>2 DEF UpToDate, OrderUpToDate, Same, Begun
  <2>3. CASE pc[v] = "idle"
    BY <1>1, <2>3 DEF UpToDate, OrderUpToDate, Same, Begun
  <2> QED
    BY <2>1, <2>2, <2>3 DEF Begun, TypeOK
<1>3. CouponUpToDate(v)'
  BY <1>1 DEF UpToDate, CouponUpToDate, Same, Keeps
<1>4. BalancesUpToDate(v)'
  <2>1. pc[v] \in Rebating => draft[v].user \in Users
    BY SessionFacts DEF Rebating, Begun, Locations
  <2>2. HasInviter(draft[v].user) /\ draft[v].user \in Users
          => Parent[draft[v].user] \in Users
    BY ParentAssumption DEF HasInviter
  <2>3. pc[v] \in Rebating => HasInviter(draft[v].user)' = HasInviter(draft[v].user)
    BY DEF HasInviter, Same
  <2>4. pc[v] = "commit" => pc[v] \in Rebating
    BY DEF Rebating
  <2> QED
    BY <1>1, <2>1, <2>2, <2>3, <2>4 DEF UpToDate, BalancesUpToDate, Same, Keeps
<1> QED
  BY <1>2, <1>3, <1>4 DEF UpToDate

\* A session's step leaves the other sessions and their rows alone.
LEMMA StepFrame ==
  ASSUME SettlementInv, NEW w \in Workers, Step(w)
  PROVE  Grows /\ \A v \in Workers \ {w} : Same(v) /\ Keeps(v)
<1> USE DEF SettlementInv
<1>1. CASE LockPendingOrder(w) \/ FulfilPaidOrderByType(w) \/ ReadCoupon(w)
             \/ MarkUsed(w) \/ LockBuyer(w) \/ LockInviter(w)
             \/ AutoRenewCharge(w)
  <2>1. UNCHANGED db
    BY <1>1 DEF LockPendingOrder, FulfilPaidOrderByType, ReadCoupon, MarkUsed,
                LockBuyer, LockInviter, AutoRenewCharge
  <2>2. ASSUME NEW v \in Workers \ {w}
        PROVE  Same(v)
    <3>1. CASE LockPendingOrder(w)
      BY <3>1 DEF LockPendingOrder, Lock, Same, TypeOK
    <3>2. CASE FulfilPaidOrderByType(w)
      BY <3>2 DEF FulfilPaidOrderByType, Goto, Lock, Same, TypeOK
    <3>3. CASE ReadCoupon(w)
      BY <3>3 DEF ReadCoupon, Goto, Same, TypeOK
    <3>4. CASE MarkUsed(w)
      BY <3>4 DEF MarkUsed, Lock, Same, TypeOK
    <3>5. CASE LockBuyer(w)
      BY <3>5 DEF LockBuyer, Lock, Same, TypeOK
    <3>6. CASE LockInviter(w)
      BY <3>6 DEF LockInviter, Lock, Same, TypeOK
    <3>7. CASE AutoRenewCharge(w)
      BY <3>7 DEF AutoRenewCharge, Lock, Same, TypeOK
    <3> QED
      BY <1>1, <3>1, <3>2, <3>3, <3>4, <3>5, <3>6, <3>7
  <2> QED
    BY <2>1, <2>2 DEF db, Grows, Keeps
<1>2. ASSUME Release(w)
      PROVE  \A v \in Workers \ {w} : Same(v)
  BY <1>2 DEF Release, Same, TypeOK
<1>3. CASE OrderAlreadyCompleted(w) \/ OrderNotPayable(w)
             \/ SubscriptionRefused(w) \/ CouponTaken(w) \/ AutoRenewSkipped(w)
  <2>1. Release(w) /\ UNCHANGED <<order, coupon, wallet, commission>>
    BY <1>3 DEF OrderAlreadyCompleted, OrderNotPayable, SubscriptionRefused,
                CouponTaken, AutoRenewSkipped, Refuse, Rollback, db
  <2> QED
    BY <1>2, <2>1 DEF Grows, Keeps
<1>4. CASE Commit(w)
  <2>1. pc[w] = "commit" /\ pc[w] \in Begun /\ pc[w] \in Rebating
    BY <1>4 DEF Commit, Begun, Rebating, Locations
  <2>2. /\ cur[w] \in Orders /\ <<"order", cur[w]>> \in held[w]
        /\ draft[w].user \in Users /\ draft[w] \in Row
        /\ order[cur[w]].status # "none" => draft[w] = order[cur[w]]
    BY <2>1, SessionFacts
  <2>3. UpToDate(w)
    BY DEF SessionsUpToDate, UpToDate
  <2>4. Grows
    <3>1. LET d == [draft[w] EXCEPT !.status = "completed"]
          IN  d.status = "completed" /\ d.bot = draft[w].bot /\ d.kind = draft[w].kind
      BY <2>2, WithStatus
    <3>2. \A o \in Orders :
            order'[o] = IF o = cur[w] THEN [draft[w] EXCEPT !.status = "completed"]
                                      ELSE order[o]
      BY <1>4, <2>2 DEF Commit, DeductBalance, AccrueRebate, InsertCallback, TypeOK
    <3> QED
      BY <2>2, <3>1, <3>2 DEF Grows
  <2>5. ASSUME NEW v \in Workers \ {w}
        PROVE  Keeps(v)
    <3>1. held[v] \cap held[w] = {}
      BY DEF LocksExclusive
    <3>2. \A o \in Orders : <<"order", o>> \in held[v] => order'[o] = order[o]
      BY <1>4, <2>2, <3>1 DEF Commit, DeductBalance, AccrueRebate, InsertCallback,
                              TypeOK
    <3>3. \A c \in Coupons : <<"coupon", c>> \in held[v] => coupon'[c] = coupon[c]
      <4>1. useCoupon[w] => <<"coupon", draft[w].coupon>> \in held[w]
        BY <2>3 DEF UpToDate, CouponUpToDate
      <4>2. coupon' = IF useCoupon[w]
                      THEN [coupon EXCEPT ![draft[w].coupon] =
                              [status |-> "used", order |-> cur[w]]]
                      ELSE coupon
        BY <1>4, Zenon DEF Commit, DeductBalance, AccrueRebate, InsertCallback
      <4> QED
        BY <3>1, <4>1, <4>2 DEF TypeOK
    <3>4. \A u \in Users : <<"user", u>> \in held[v] => wallet'[u] = wallet[u]
      <4>1. draft[w].bot => <<"user", draft[w].user>> \in held[w]
        BY <2>1, <2>3 DEF UpToDate, BalancesUpToDate
      <4>2. wallet' = IF draft[w].bot
                      THEN [wallet EXCEPT ![draft[w].user] = newWallet[w]] ELSE wallet
        BY <1>4, Zenon DEF Commit, DeductBalance, AccrueRebate, InsertCallback
      <4> QED
        BY <3>1, <4>1, <4>2 DEF TypeOK
    <3>5. \A u \in Users :
            <<"user", u>> \in held[v] => commission'[u] = commission[u]
      <4>1. accrual[w] > 0 => <<"user", Parent[draft[w].user]>> \in held[w]
        BY <2>1, <2>3 DEF UpToDate, BalancesUpToDate
      <4>2. commission' = IF accrual[w] > 0
                          THEN [commission EXCEPT ![Parent[draft[w].user]] =
                                  newCommission[w]]
                          ELSE commission
        BY <1>4, Zenon DEF Commit, DeductBalance, AccrueRebate, InsertCallback
      <4> QED
        BY <3>1, <4>1, <4>2 DEF TypeOK
    <3> QED
      BY <3>2, <3>3, <3>4, <3>5 DEF Keeps
  <2>6. Release(w)
    BY <1>4 DEF Commit
  <2> QED
    BY <1>2, <2>4, <2>5, <2>6
<1> QED
  BY <1>1, <1>3, <1>4 DEF Step

\* A session that is done knows nothing.
LEMMA ReleaseUpToDate ==
  ASSUME TypeOK, NEW w \in Workers, Release(w)
  PROVE  UpToDate(w)'
BY DEF TypeOK, Release, UpToDate, OrderUpToDate, CouponUpToDate, BalancesUpToDate,
       Begun, Rebating, Locations

\* What a session has read under a lock is so when its step is over.
LEMMA StepUpToDate ==
  ASSUME SettlementInv, NEW w \in Workers, Step(w)
  PROVE  UpToDate(w)'
<1> USE DEF SettlementInv
<1>0. UpToDate(w)
  BY DEF SessionsUpToDate, UpToDate
<1>1. CASE LockPendingOrder(w)
  <2>1. /\ pc[w] = "lock_order" /\ pc'[w] = "fulfil"
        /\ held'[w] = held[w] \cup {<<"order", cur[w]>>}
        /\ draft'[w] = order[cur[w]]
        /\ order[cur[w]].status = "pending_payment"
        /\ UNCHANGED <<db, cur, snap, useCoupon>>
    BY <1>1 DEF LockPendingOrder, Lock, Payable, TypeOK
  <2>2. /\ cur[w] \in Orders
        /\ ~order[cur[w]].bot
        /\ order[cur[w]].user \in Users
        /\ order[cur[w]].kind # "purchase" =>
             order[cur[w]].sub \in Subs /\ snap[w] \in SubRow
        /\ ~useCoupon[w]
    BY <1>0, <2>1 DEF UpToDate, OrderUpToDate, CouponUpToDate, OrdersComplete,
                      Rebating, TypeOK
  <2>3. OrderUpToDate(w)'
    BY <2>1, <2>2 DEF OrderUpToDate, Begun, Locations, db
  <2>4. accrual[w] = 0 /\ accrual' = accrual
    BY <1>0, <1>1, <2>1 DEF UpToDate, BalancesUpToDate, LockPendingOrder
  <2> QED
    BY <2>1, <2>2, <2>3, <2>4 DEF UpToDate, CouponUpToDate, BalancesUpToDate, Rebating
<1>2. CASE FulfilPaidOrderByType(w)
  <2>1. /\ pc[w] = "fulfil" /\ pc'[w] = AfterFulfil(draft[w])
        /\ held[w] \subseteq held'[w]
        /\ UNCHANGED <<db, cur, draft, snap, useCoupon, accrual, newWallet,
                       newCommission>>
    BY <1>2 DEF FulfilPaidOrderByType, Goto, Lock, TypeOK
  <2>2. /\ ~draft[w].bot /\ ~useCoupon[w]
        /\ draft[w].coupon \in Coupons \cup {Nobody}
    BY <1>0, <2>1 DEF UpToDate, OrderUpToDate, CouponUpToDate, Rebating, TypeOK, Row
  <2>3. CASE draft[w].coupon # Nobody
    BY <1>0, <2>1, <2>2, <2>3
       DEF AfterFulfil, UpToDate, OrderUpToDate, CouponUpToDate, BalancesUpToDate,
           Begun, Rebating, Locations, db, TypeOK
  <2>4. CASE draft[w].coupon = Nobody
    <3>1. accrual[w] = 0
      BY <1>0, <2>1 DEF UpToDate, BalancesUpToDate
    <3> QED
      BY <1>0, <2>1, <2>2, <2>4, <3>1
         DEF AfterFulfil, UpToDate, OrderUpToDate, CouponUpToDate, BalancesUpToDate,
             Begun, Rebating, Locations, db, TypeOK
  <2> QED
    BY <2>3, <2>4
<1>3. CASE ReadCoupon(w)
  <2>1. /\ pc[w] = "read_coupon" /\ pc'[w] \in {"mark_coupon", "lock_buyer"}
        /\ UNCHANGED <<db, cur, draft, snap, useCoupon, accrual, newWallet,
                       newCommission, held>>
    BY <1>3 DEF ReadCoupon, Goto, TypeOK
  <2>2. ~draft[w].bot /\ ~useCoupon[w] /\ accrual[w] = 0
    BY <1>0, <2>1 DEF UpToDate, OrderUpToDate, CouponUpToDate, BalancesUpToDate,
                      Rebating, TypeOK
  <2> QED
    BY <1>0, <2>1, <2>2
       DEF UpToDate, OrderUpToDate, CouponUpToDate, BalancesUpToDate, Begun,
           Rebating, Locations, db, TypeOK
<1>4. CASE MarkUsed(w)
  <2>1. /\ pc[w] = "mark_coupon" /\ pc'[w] = "lock_buyer"
        /\ held'[w] = held[w] \cup {<<"coupon", draft[w].coupon>>}
        /\ coupon[draft[w].coupon].status = "available"
        /\ UNCHANGED <<db, cur, draft, snap, accrual, newWallet, newCommission>>
    BY <1>4 DEF MarkUsed, CouponMatches, Lock, TypeOK
  <2>2. ~draft[w].bot /\ draft[w].coupon \in Coupons /\ accrual[w] = 0
    BY <1>0, <2>1 DEF UpToDate, OrderUpToDate, BalancesUpToDate
  <2> QED
    BY <1>0, <2>1, <2>2
       DEF UpToDate, OrderUpToDate, CouponUpToDate, BalancesUpToDate, Begun,
           Rebating, Locations, db, TypeOK
<1>5. CASE LockBuyer(w)
  <2>1. /\ pc[w] = "lock_buyer"
        /\ pc'[w] = IF rebate[cur[w]] = 0 /\ HasInviter(draft[w].user)
                    THEN "lock_inviter" ELSE "commit"
        /\ held[w] \subseteq held'[w]
        /\ UNCHANGED <<db, cur, draft, snap, useCoupon, accrual, newWallet,
                       newCommission>>
    BY <1>5 DEF LockBuyer, Lock, TypeOK
  <2>2. rebate[cur[w]] = 0 /\ accrual[w] = 0
    <3>1. cur[w] \in Orders /\ order[cur[w]].status # "completed"
      BY <2>1, SessionFacts DEF Begun, Locations
    <3> QED
      BY <1>0, <2>1, <3>1 DEF RecordsAgree, UpToDate, BalancesUpToDate, TypeOK
  <2> QED
    BY <1>0, <2>1, <2>2
       DEF UpToDate, OrderUpToDate, CouponUpToDate, BalancesUpToDate, Begun,
           Rebating, Locations, db, HasInviter
<1>6. CASE LockInviter(w)
  <2>1. PICK rate \in Rates :
          /\ accrual' = [accrual EXCEPT ![w] = RebateAmount(draft[w].amount, rate)]
          /\ newCommission' = [newCommission EXCEPT
               ![w] = commission[Parent[draft[w].user]]
                        + RebateAmount(draft[w].amount, rate)]
    BY <1>6 DEF LockInviter
  <2>2. /\ pc[w] = "lock_inviter" /\ pc'[w] = "commit"
        /\ held'[w] = held[w] \cup {<<"user", Parent[draft[w].user]>>}
        /\ accrual'[w] = RebateAmount(draft[w].amount, rate)
        /\ newCommission'[w] = commission[Parent[draft[w].user]] + accrual'[w]
        /\ UNCHANGED <<db, cur, draft, snap, useCoupon, newWallet>>
    BY <1>6, <2>1 DEF LockInviter, Lock, RebateUser, TypeOK
  <2>3. HasInviter(draft[w].user)
    BY <2>2, SessionFacts
  <2>4. OrderUpToDate(w)' /\ CouponUpToDate(w)'
    BY <1>0, <2>2 DEF UpToDate, OrderUpToDate, CouponUpToDate, Begun,
                      Rebating, Locations, db
  <2>5. BalancesUpToDate(w)'
    BY <1>0, <2>2, <2>3 DEF UpToDate, BalancesUpToDate, Rebating, HasInviter, db
  <2> QED
    BY <2>4, <2>5 DEF UpToDate
<1>7. CASE AutoRenewCharge(w)
  <2>1. /\ pc[w] = "renew_wallet" /\ pc'[w] = "lock_buyer"
        /\ held'[w] = held[w] \cup {<<"user", draft[w].user>>}
        /\ newWallet'[w] = wallet[draft[w].user] - draft[w].amount
        /\ UNCHANGED <<db, cur, draft, snap, useCoupon, accrual, newCommission>>
    BY <1>7 DEF AutoRenewCharge, Lock, TypeOK
  <2>2. /\ draft[w].bot /\ ~useCoupon[w] /\ accrual[w] = 0
        /\ draft[w].user \in Users
    BY <1>0, <2>1 DEF UpToDate, OrderUpToDate, CouponUpToDate, BalancesUpToDate,
                      Begun, Rebating, Locations, TypeOK
  <2>3. newWallet'[w] + draft[w].amount = wallet[draft[w].user]
    <3>1. wallet[draft[w].user] \in Nat /\ draft[w].amount \in Nat
      BY <2>2 DEF TypeOK, Row
    <3> QED
      BY <2>1, <3>1
  <2>4. OrderUpToDate(w)' /\ CouponUpToDate(w)'
    BY <1>0, <2>1, <2>2 DEF UpToDate, OrderUpToDate, CouponUpToDate, Begun,
                      Rebating, Locations, db
  <2>5. BalancesUpToDate(w)'
    BY <2>1, <2>2, <2>3 DEF BalancesUpToDate, Rebating, db
  <2> QED
    BY <2>4, <2>5 DEF UpToDate
<1>8. CASE OrderAlreadyCompleted(w) \/ OrderNotPayable(w)
             \/ SubscriptionRefused(w) \/ CouponTaken(w)
             \/ AutoRenewSkipped(w) \/ Commit(w)
  <2>1. Release(w)
    BY <1>8 DEF OrderAlreadyCompleted, OrderNotPayable, SubscriptionRefused,
                CouponTaken, AutoRenewSkipped, Commit, Refuse, Rollback
  <2> QED
    BY <2>1, ReleaseUpToDate
<1> QED
  BY <1>1, <1>2, <1>3, <1>4, <1>5, <1>6, <1>7, <1>8 DEF Step

\* No step makes a session's knowledge stale.
LEMMA NextUpToDate ==
  ASSUME SettlementInv, [Next]_vars
  PROVE  SessionsUpToDate'
<1> USE DEF SettlementInv
<1>1. ASSUME Grows, \A v \in Workers : Same(v) /\ Keeps(v)
      PROVE  SessionsUpToDate'
  BY <1>1, FrameUpToDate DEF SessionsUpToDate, UpToDate
<1>2. ASSUME NEW w \in Workers, UpToDate(w)', Grows,
             \A v \in Workers \ {w} : Same(v) /\ Keeps(v)
      PROVE  SessionsUpToDate'
  <2>1. \A v \in Workers \ {w} : UpToDate(v)'
    BY <1>2, FrameUpToDate
  <2> QED
    BY <1>2, <2>1 DEF SessionsUpToDate, UpToDate
<1>3. ASSUME UNCHANGED tx
      PROVE  \A v \in Workers : Same(v)
  BY <1>3 DEF tx, Same
<1>4. ASSUME NEW o \in Orders, NEW r \in Checkouts, CreateOrder(o, r)
      PROVE  SessionsUpToDate'
  <2>1. \A p \in Orders :
          LET e == [order[p] EXCEPT !.status = "cancelled"]
          IN  /\ e.status = "cancelled"
              /\ e.kind = order[p].kind /\ e.bot = order[p].bot
    BY WithStatus DEF TypeOK
  <2>2. Grows
    BY <1>4, <2>1 DEF CreateOrder, Grows
  <2>3. ASSUME NEW v \in Workers
        PROVE  Keeps(v)
    <3>1. ASSUME NEW p \in Orders, <<"order", p>> \in held[v]
          PROVE  order'[p] = order[p]
      BY <1>4, <3>1 DEF CreateOrder, Replaced, Unlocked
    <3> QED
      BY <1>4, <3>1 DEF CreateOrder, Keeps
  <2> QED
    BY <1>1, <1>3, <1>4, <2>2, <2>3 DEF CreateOrder
<1>5. ASSUME NEW o \in Orders, PayAtProvider(o)
      PROVE  SessionsUpToDate'
  BY <1>1, <1>3, <1>5 DEF PayAtProvider, Grows, Keeps, db
<1>6. ASSUME NEW w \in Workers, NEW o \in Orders, FindCallback(w, o)
      PROVE  SessionsUpToDate'
  <2>1. CASE callback[o] # "none"
    <3>1. UNCHANGED <<db, paid, failures, tx>>
      BY <1>6, <2>1, Zenon DEF FindCallback, Recorded
    <3> QED
      BY <1>1, <1>3, <3>1 DEF Grows, Keeps, db
  <2>2. CASE callback[o] = "none"
    <3>1. /\ pc[w] = "idle" /\ pc' = [pc EXCEPT ![w] = "lock_order"]
          /\ cur' = [cur EXCEPT ![w] = o]
          /\ order[o].status # "none" /\ o \in paid
          /\ order[o].kind # "purchase" =>
               snap' = [snap EXCEPT ![w] = sub[order[o].sub]]
          /\ order[o].kind = "purchase" => snap' = snap
          /\ UNCHANGED <<db, draft, useCoupon, accrual, newWallet, newCommission,
                         held>>
      BY <1>6, <2>2 DEF FindCallback, Recorded, Notifiable
    <3>2. \A v \in Workers \ {w} : Same(v) /\ Keeps(v)
      BY <3>1 DEF Same, Keeps, TypeOK, db
    <3>3. Grows
      BY <3>1 DEF Grows, db
    <3>4. order[o].kind # "purchase" => sub[order[o].sub] \in SubRow
      BY <3>1 DEF OrdersComplete, TypeOK
    <3>5. /\ pc'[w] = "lock_order" /\ cur'[w] = o
          /\ order'[o] = order[o] /\ ~order[o].bot
          /\ order[o].kind # "purchase" => snap'[w] \in SubRow
      BY <3>1, <3>4 DEF OrdersComplete, TypeOK, db
    <3>6. ~useCoupon'[w] /\ accrual'[w] = 0
      BY <3>1 DEF SessionsUpToDate, CouponUpToDate, BalancesUpToDate, Rebating, TypeOK
    <3>7. UpToDate(w)'
      BY <3>1, <3>5, <3>6 DEF UpToDate, OrderUpToDate, CouponUpToDate,
                        BalancesUpToDate, Begun, Rebating, Locations
    <3> QED
      BY <1>2, <3>2, <3>3, <3>7
  <2> QED
    BY <2>1, <2>2
<1>7. ASSUME NEW w \in Workers, NEW s \in Subs, NEW o \in Orders,
             AutoRenewLockSub(w, s, o)
      PROVE  SessionsUpToDate'
  <2>1. /\ pc[w] = "idle" /\ pc' = [pc EXCEPT ![w] = "renew_wallet"]
        /\ cur' = [cur EXCEPT ![w] = o] /\ snap' = [snap EXCEPT ![w] = sub[s]]
        /\ draft' = [draft EXCEPT ![w] = BotRow(s, sub[s].plan)]
        /\ held' = [held EXCEPT ![w] = {<<"sub", s>>, <<"order", o>>}]
        /\ order[o].status = "none"
        /\ UNCHANGED <<db, useCoupon, accrual, newWallet, newCommission>>
    BY <1>7 DEF AutoRenewLockSub
  <2>2. \A v \in Workers \ {w} : Same(v) /\ Keeps(v)
    BY <2>1 DEF Same, Keeps, TypeOK, db
  <2>3. Grows
    BY <2>1 DEF Grows, db
  <2>4. sub[s] \in SubRow /\ sub[s].plan \in Plans
    BY DEF TypeOK, SubRow
  <2>5. LET d == BotRow(s, sub[s].plan)
        IN  /\ d.bot /\ d.user \in Users /\ d.sub = s /\ d.plan = sub[s].plan
    BY <2>4, BotRowType
  <2>6. ~useCoupon'[w] /\ accrual'[w] = 0
    BY <2>1 DEF SessionsUpToDate, CouponUpToDate, BalancesUpToDate, Rebating, TypeOK
  <2>7. /\ pc'[w] = "renew_wallet" /\ cur'[w] = o /\ snap'[w] = sub[s]
        /\ draft'[w] = BotRow(s, sub[s].plan)
        /\ <<"order", o>> \in held'[w] /\ order'[o].status = "none"
    BY <2>1 DEF TypeOK, db
  <2>8. UpToDate(w)'
    BY <2>4, <2>5, <2>6, <2>7 DEF UpToDate, OrderUpToDate, CouponUpToDate,
                      BalancesUpToDate, Begun, Rebating, Locations
  <2> QED
    BY <1>2, <2>2, <2>3, <2>8
<1>8. ASSUME NEW w \in Workers, Step(w)
      PROVE  SessionsUpToDate'
  BY <1>2, <1>8, StepFrame, StepUpToDate
<1>9. ASSUME NEW w \in Workers, Fail(w)
      PROVE  SessionsUpToDate'
  <2>1. Release(w) /\ UNCHANGED db
    BY <1>9 DEF Fail, Rollback
  <2>2. Grows /\ \A v \in Workers \ {w} : Same(v) /\ Keeps(v)
    BY <2>1 DEF Release, Grows, Same, Keeps, TypeOK, db
  <2> QED
    BY <1>2, <2>1, <2>2, ReleaseUpToDate
<1>10. ASSUME NEW u \in Users,
              TransferCommissionToBalance(u) \/ CreateCommissionWithdrawal(u)
       PROVE  SessionsUpToDate'
  <2>1. /\ UNCHANGED <<order, coupon, tx>>
        /\ \A v \in Workers : <<"user", u>> \notin held[v]
        /\ \A q \in Users \ {u} :
             wallet'[q] = wallet[q] /\ commission'[q] = commission[q]
    BY <1>10 DEF TransferCommissionToBalance, CreateCommissionWithdrawal, Unlocked,
                 TypeOK
  <2>2. Grows /\ \A v \in Workers : Keeps(v)
    BY <2>1 DEF Grows, Keeps
  <2> QED
    BY <1>1, <1>3, <2>1, <2>2
<1>11. ASSUME NEW c \in Coupons, ExpireCoupon(c)
       PROVE  SessionsUpToDate'
  <2>1. /\ UNCHANGED <<order, wallet, commission, tx>>
        /\ \A v \in Workers : <<"coupon", c>> \notin held[v]
        /\ \A k \in Coupons \ {c} : coupon'[k] = coupon[k]
    BY <1>11 DEF ExpireCoupon, Unlocked, TypeOK
  <2>2. Grows /\ \A v \in Workers : Keeps(v)
    BY <2>1 DEF Grows, Keeps
  <2> QED
    BY <1>1, <1>3, <2>1, <2>2
<1>12. ASSUME NEW s \in Subs, ExpireSubscription(s)
       PROVE  SessionsUpToDate'
  BY <1>1, <1>3, <1>12 DEF ExpireSubscription, Grows, Keeps
<1>13. CASE UNCHANGED vars
  BY <1>1, <1>3, <1>13 DEF vars, db, Grows, Keeps
<1> QED
  BY <1>4, <1>5, <1>6, <1>7, <1>8, <1>9, <1>10, <1>11, <1>12, <1>13 DEF Next

-----------------------------------------------------------------------------
(* Orders and the records beside them. *)

\* The only steps that write user_orders.
LEMMA OrderWriters ==
  ASSUME SettlementInv, [Next]_vars
  PROVE  \/ \E o \in Orders, r \in Checkouts : CreateOrder(o, r)
         \/ \E w \in Workers : Commit(w)
         \/ UNCHANGED <<order, granted, payFlow, rebate, invoices>>
<1>1. ASSUME NEW w \in Workers, Step(w)
      PROVE  Commit(w) \/ UNCHANGED <<order, granted, payFlow, rebate, invoices>>
  BY <1>1 DEF Step, LockPendingOrder, OrderAlreadyCompleted, OrderNotPayable,
       FulfilPaidOrderByType, SubscriptionRefused, ReadCoupon, MarkUsed, CouponTaken,
       LockBuyer, LockInviter, AutoRenewCharge, AutoRenewSkipped, Refuse, Rollback, db
<1>2. ASSUME NEW w \in Workers, Fail(w)
      PROVE  UNCHANGED <<order, granted, payFlow, rebate, invoices>>
  BY <1>2 DEF Fail, Rollback, db
<1>3. ASSUME NEW w \in Workers, NEW o \in Orders, FindCallback(w, o)
      PROVE  UNCHANGED <<order, granted, payFlow, rebate, invoices>>
  BY <1>3 DEF FindCallback, Recorded, db
<1>4. ASSUME NEW w \in Workers, NEW s \in Subs, NEW o \in Orders,
             AutoRenewLockSub(w, s, o)
      PROVE  UNCHANGED <<order, granted, payFlow, rebate, invoices>>
  BY <1>4 DEF AutoRenewLockSub, db
<1> QED
  BY <1>1, <1>2, <1>3, <1>4
     DEF Next, PayAtProvider, TransferCommissionToBalance,
         CreateCommissionWithdrawal, ExpireCoupon, ExpireSubscription, vars, db

\* What a commit finds: the order is not settled yet.
LEMMA CommitFinds ==
  ASSUME SettlementInv, NEW w \in Workers, Commit(w)
  PROVE  /\ pc[w] = "commit" /\ pc[w] \in Begun /\ pc[w] \in Rebating
         /\ cur[w] \in Orders /\ draft[w] \in Row
         /\ order[cur[w]].status =
              IF draft[w].bot THEN "none" ELSE "pending_payment"
         /\ ~draft[w].bot => draft[w] = order[cur[w]]
         /\ draft[w].user \in Users /\ draft[w].plan \in Plans
         /\ draft[w].kind # "purchase" => draft[w].sub \in Subs
         /\ granted[cur[w]] = 0
<1>1. pc[w] = "commit" /\ pc[w] \in Begun /\ pc[w] \in Rebating
  BY DEF Commit, Begun, Rebating, Locations
<1>2. cur[w] \in Orders /\ draft[w] \in Row
  BY <1>1, SessionFacts
<1>3. granted[cur[w]] = 0
  BY <1>1, <1>2, SessionFacts DEF SettlementInv, GrantedOnce
<1> QED
  BY <1>1, <1>2, <1>3, SessionFacts

\* What it leaves: the order completed, its entitlement applied, its records made.
LEMMA CommitLeaves ==
  ASSUME SettlementInv, NEW w \in Workers, Commit(w)
  PROVE  /\ order'[cur[w]] = [draft[w] EXCEPT !.status = "completed"]
         /\ order'[cur[w]].status = "completed"
         /\ order'[cur[w]].user = draft[w].user
         /\ order'[cur[w]].plan = draft[w].plan
         /\ order'[cur[w]].kind = draft[w].kind
         /\ order'[cur[w]].sub = draft[w].sub
         /\ order'[cur[w]].invoice = draft[w].invoice
         /\ order'[cur[w]].bot = draft[w].bot
         /\ order'[cur[w]].amount = draft[w].amount
         /\ granted'[cur[w]] = 1
         /\ rebate'[cur[w]] = accrual[w]
         /\ cur[w] \in payFlow'
<1> USE DEF SettlementInv
<1>1. cur[w] \in Orders /\ draft[w] \in Row /\ granted[cur[w]] = 0
  BY CommitFinds
<1>2. order'[cur[w]] = [draft[w] EXCEPT !.status = "completed"]
  BY <1>1 DEF Commit, DeductBalance, AccrueRebate, InsertCallback, TypeOK
<1>3. granted'[cur[w]] = 1
  BY <1>1 DEF Commit, DeductBalance, AccrueRebate, InsertCallback, TypeOK
<1>4. rebate'[cur[w]] = accrual[w] /\ cur[w] \in payFlow'
  BY <1>1 DEF Commit, DeductBalance, AccrueRebate, InsertCallback, TypeOK
<1> QED
  BY <1>1, <1>2, <1>3, <1>4, WithStatus

\* The other orders' rows and records are not touched by a commit.
LEMMA CommitOthers ==
  ASSUME SettlementInv, NEW w \in Workers, Commit(w),
         NEW o \in Orders \ {cur[w]}
  PROVE  /\ order'[o] = order[o] /\ granted'[o] = granted[o]
         /\ rebate'[o] = rebate[o] /\ callback'[o] = callback[o]
         /\ o \in payFlow' <=> o \in payFlow
         /\ o \in invoices' <=> o \in invoices
         /\ o \in acked' <=> o \in acked
BY DEF Commit, DeductBalance, AccrueRebate, InsertCallback, SettlementInv, TypeOK

\* What a checkout leaves: a pending order, and the replaced ones cancelled.
LEMMA CreateFacts ==
  ASSUME SettlementInv, NEW o \in Orders, NEW r \in Checkouts, CreateOrder(o, r)
  PROVE  /\ order[o].status = "none" /\ order'[o] = CheckoutRow(r)
         /\ \A p \in Orders \ {o} :
              \/ order'[p] = order[p]
              \/ /\ order[p].status = "pending_payment"
                 /\ order'[p].status = "cancelled"
                 /\ order'[p] = [order[p] EXCEPT !.status = "cancelled"]
                 /\ order'[p].user = order[p].user /\ order'[p].plan = order[p].plan
                 /\ order'[p].kind = order[p].kind /\ order'[p].sub = order[p].sub
                 /\ order'[p].bot = order[p].bot
                 /\ order'[p].invoice = order[p].invoice
<1>1. \A p \in Orders :
        LET e == [order[p] EXCEPT !.status = "cancelled"]
        IN  /\ e.status = "cancelled" /\ e.user = order[p].user
            /\ e.plan = order[p].plan /\ e.kind = order[p].kind
            /\ e.sub = order[p].sub /\ e.bot = order[p].bot
            /\ e.invoice = order[p].invoice
  BY WithStatus DEF SettlementInv, TypeOK
<1> QED
  BY <1>1 DEF CreateOrder, Replaced

\* Orders stay complete: checkout and bot insert full rows, a commit keeps them.
LEMMA NextOrdersComplete ==
  ASSUME SettlementInv, [Next]_vars
  PROVE  OrdersComplete'
<1> USE DEF SettlementInv
<1>1. ASSUME NEW o \in Orders, NEW r \in Checkouts, CreateOrder(o, r)
      PROVE  OrdersComplete'
  <2>1. /\ order'[o].status = "pending_payment" /\ ~order'[o].bot
        /\ order'[o].user \in Users /\ order'[o].plan \in Plans
        /\ order'[o].kind # "purchase" => order'[o].sub \in Subs
    BY <1>1, CreateFacts, CheckoutRowType, CheckoutsAssumption
       DEF CheckoutRow, Request, CreateOrder, ResolvesSub
  <2>2. paid' = paid
    BY <1>1 DEF CreateOrder, outer
  <2>3. \A p \in Orders : p \in paid' => order[p].status # "none" /\ ~order[p].bot
    BY <2>2 DEF OrdersComplete
  <2>4. order[o].status = "none"
    BY <1>1 DEF CreateOrder
  <2>5. ASSUME NEW p \in Orders \ {o}
        PROVE  /\ order'[p].user = order[p].user /\ order'[p].plan = order[p].plan
               /\ order'[p].kind = order[p].kind /\ order'[p].sub = order[p].sub
               /\ order'[p].bot = order[p].bot
               /\ \/ order'[p].status = order[p].status
                  \/ /\ order[p].status = "pending_payment"
                     /\ order'[p].status = "cancelled"
    BY <1>1, CreateFacts
  <2> QED
    BY <2>1, <2>3, <2>4, <2>5 DEF OrdersComplete
<1>2. ASSUME NEW w \in Workers, Commit(w)
      PROVE  OrdersComplete'
  <2>1. paid' = paid
    BY <1>2 DEF Commit
  <2>2. /\ order'[cur[w]].status = "completed"
        /\ order'[cur[w]].user \in Users /\ order'[cur[w]].plan \in Plans
        /\ order'[cur[w]].kind # "purchase" => order'[cur[w]].sub \in Subs
        /\ order'[cur[w]].bot \/ order'[cur[w]].bot = order[cur[w]].bot
        /\ cur[w] \in paid => ~order'[cur[w]].bot
    <3>1. /\ cur[w] \in Orders
          /\ order[cur[w]].status = IF draft[w].bot THEN "none" ELSE "pending_payment"
          /\ ~draft[w].bot => draft[w] = order[cur[w]]
          /\ order'[cur[w]].bot = draft[w].bot
      BY <1>2, CommitFinds, CommitLeaves
    <3>2. /\ order'[cur[w]].status = "completed"
          /\ order'[cur[w]].user \in Users /\ order'[cur[w]].plan \in Plans
          /\ order'[cur[w]].kind # "purchase" => order'[cur[w]].sub \in Subs
      <4>1. /\ draft[w].user \in Users /\ draft[w].plan \in Plans
            /\ draft[w].kind # "purchase" => draft[w].sub \in Subs
        BY <1>2, CommitFinds
      <4>2. /\ order'[cur[w]].status = "completed"
            /\ order'[cur[w]].user = draft[w].user
            /\ order'[cur[w]].plan = draft[w].plan
            /\ order'[cur[w]].kind = draft[w].kind
            /\ order'[cur[w]].sub = draft[w].sub
        BY <1>2, CommitLeaves
      <4> QED
        BY <4>1, <4>2
    <3>3. cur[w] \in paid => order[cur[w]].status # "none" /\ ~order[cur[w]].bot
      BY <3>1 DEF OrdersComplete
    <3>4. draft[w].bot \in BOOLEAN
      BY <1>2, CommitFinds, CommitLeaves DEF Row
    <3> QED
      BY <3>1, <3>2, <3>3, <3>4
  <2>3. \A o \in Orders \ {cur[w]} : order'[o] = order[o]
    BY <1>2, CommitOthers
  <2> QED
    BY <2>1, <2>2, <2>3 DEF OrdersComplete
<1>3. ASSUME NEW o \in Orders, PayAtProvider(o)
      PROVE  OrdersComplete'
  BY <1>3 DEF PayAtProvider, OrdersComplete, db
<1>4. ASSUME UNCHANGED <<order, paid>>
      PROVE  OrdersComplete'
  BY <1>4 DEF OrdersComplete
<1>5. \/ \E o \in Orders, r \in Checkouts : CreateOrder(o, r)
      \/ \E w \in Workers : Commit(w)
      \/ \E o \in Orders : PayAtProvider(o)
      \/ UNCHANGED paid
  <2>1. ASSUME NEW w \in Workers, Step(w) \/ Fail(w)
        PROVE  UNCHANGED paid
    BY <2>1 DEF Step, LockPendingOrder, OrderAlreadyCompleted, OrderNotPayable,
       FulfilPaidOrderByType, SubscriptionRefused, ReadCoupon, MarkUsed, CouponTaken,
       LockBuyer, LockInviter, AutoRenewCharge, AutoRenewSkipped, Commit, Fail,
       Refuse, Rollback, outer
  <2>2. ASSUME NEW w \in Workers, NEW o \in Orders, FindCallback(w, o)
        PROVE  UNCHANGED paid
    BY <2>2 DEF FindCallback, Recorded, outer
  <2> QED
    BY <2>1, <2>2 DEF Next, AutoRenewLockSub, TransferCommissionToBalance,
         CreateCommissionWithdrawal, ExpireCoupon, ExpireSubscription, vars, outer
<1> QED
  BY <1>1, <1>2, <1>3, <1>4, <1>5, OrderWriters

\* A commit finds its order not settled and applies the entitlement once.
LEMMA NextGrantedOnce ==
  ASSUME SettlementInv, [Next]_vars
  PROVE  GrantedOnce'
<1> USE DEF SettlementInv
<1>1. ASSUME NEW o \in Orders, NEW r \in Checkouts, CreateOrder(o, r)
      PROVE  GrantedOnce'
  <2>1. granted' = granted
    BY <1>1 DEF CreateOrder
  <2>2. order[o].status = "none" /\ order'[o].status = "pending_payment"
    BY <1>1, CreateFacts, CheckoutRowType
  <2>3. \A p \in Orders \ {o} :
          \/ order'[p].status = order[p].status
          \/ order[p].status = "pending_payment" /\ order'[p].status = "cancelled"
    BY <1>1, CreateFacts
  <2> QED
    BY <2>1, <2>2, <2>3 DEF GrantedOnce
<1>2. ASSUME NEW w \in Workers, Commit(w)
      PROVE  GrantedOnce'
  <2>1. order'[cur[w]].status = "completed" /\ granted'[cur[w]] = 1
    BY <1>2, CommitLeaves
  <2>2. \A o \in Orders \ {cur[w]} : order'[o] = order[o] /\ granted'[o] = granted[o]
    BY <1>2, CommitOthers
  <2> QED
    BY <2>1, <2>2 DEF GrantedOnce
<1> QED
  BY <1>1, <1>2, OrderWriters DEF GrantedOnce

\* A commit writes all records of its order; nobody else writes them.
LEMMA NextRecordsAgree ==
  ASSUME SettlementInv, [Next]_vars
  PROVE  RecordsAgree'
<1> USE DEF SettlementInv
<1>1. ASSUME NEW o \in Orders, NEW r \in Checkouts, CreateOrder(o, r)
      PROVE  RecordsAgree'
  <2>1. UNCHANGED <<callback, payFlow, rebate, invoices, acked>>
    BY <1>1 DEF CreateOrder, outer
  <2>2. order[o].status = "none" /\ order'[o].status = "pending_payment"
    BY <1>1, CreateFacts, CheckoutRowType
  <2>3. \A p \in Orders \ {o} :
          \/ order'[p] = order[p]
          \/ order[p].status = "pending_payment" /\ order'[p].status = "cancelled"
    BY <1>1, CreateFacts
  <2> QED
    BY <2>1, <2>2, <2>3 DEF RecordsAgree
<1>2. ASSUME NEW w \in Workers, Commit(w)
      PROVE  RecordsAgree'
  <2>1. /\ cur[w] \in Orders /\ order[cur[w]].status # "completed"
        /\ order'[cur[w]].status = "completed"
        /\ order'[cur[w]].invoice = draft[w].invoice
        /\ order'[cur[w]].bot = draft[w].bot
        /\ cur[w] \in payFlow'
    BY <1>2, CommitFinds, CommitLeaves
  <2>2. callback[cur[w]] = "none" /\ cur[w] \notin invoices
    BY <2>1 DEF RecordsAgree, TypeOK
  <2>3. callback'[cur[w]] = IF draft[w].bot THEN "none" ELSE "success"
    BY <1>2, <2>1, <2>2 DEF Commit, DeductBalance, AccrueRebate, InsertCallback, TypeOK
  <2>4. cur[w] \in invoices' <=> draft[w].invoice
    BY <1>2, <2>1, <2>2 DEF Commit
  <2>5. draft[w].bot \in BOOLEAN /\ draft[w].invoice \in BOOLEAN
    BY <1>2, CommitFinds, CommitLeaves DEF Row
  <2>6. \A o \in Orders \ {cur[w]} :
              /\ order'[o] = order[o]
              /\ rebate'[o] = rebate[o] /\ callback'[o] = callback[o]
              /\ o \in payFlow' <=> o \in payFlow
              /\ o \in invoices' <=> o \in invoices
              /\ o \in acked' <=> o \in acked
    BY <1>2, CommitOthers
  <2> QED
    BY <2>1, <2>3, <2>4, <2>5, <2>6 DEF RecordsAgree
<1>3. ASSUME NEW w \in Workers, OrderAlreadyCompleted(w)
      PROVE  RecordsAgree'
  <2>1. /\ cur[w] \in Orders /\ order[cur[w]].status = "completed"
        /\ ~order[cur[w]].bot
    BY <1>3 DEF OrderAlreadyCompleted, SessionsUpToDate, OrderUpToDate
  <2>2. callback' = callback
    <3>1. callback[cur[w]] = "success"
      BY <2>1 DEF RecordsAgree
    <3> QED
      BY <1>3, <2>1, <3>1 DEF OrderAlreadyCompleted, TypeOK
  <2> QED
    BY <1>3, <2>1, <2>2 DEF OrderAlreadyCompleted, RecordsAgree
<1>4. ASSUME NEW w \in Workers, NEW o \in Orders, FindCallback(w, o)
      PROVE  RecordsAgree'
  <2>1. UNCHANGED db
    BY <1>4, Zenon DEF FindCallback
  <2>2. acked' = acked \/ (acked' = acked \cup {o} /\ Recorded(o))
    BY <1>4 DEF FindCallback, outer
  <2>3. Recorded(o) => order[o].status = "completed"
    BY DEF Recorded, RecordsAgree, TypeOK
  <2> QED
    BY <2>1, <2>2, <2>3 DEF RecordsAgree, db
<1>5. ASSUME UNCHANGED <<order, payFlow, rebate, invoices, callback, acked>>
      PROVE  RecordsAgree'
  BY <1>5 DEF RecordsAgree
<1>6. \/ \E o \in Orders, r \in Checkouts : CreateOrder(o, r)
      \/ \E w \in Workers : Commit(w) \/ OrderAlreadyCompleted(w)
      \/ \E w \in Workers, o \in Orders : FindCallback(w, o)
      \/ UNCHANGED <<callback, acked>>
  <2>1. ASSUME NEW w \in Workers, Step(w) \/ Fail(w)
        PROVE  Commit(w) \/ OrderAlreadyCompleted(w) \/ UNCHANGED <<callback, acked>>
    BY <2>1 DEF Step, LockPendingOrder, OrderNotPayable,
       FulfilPaidOrderByType, SubscriptionRefused, ReadCoupon, MarkUsed, CouponTaken,
       LockBuyer, LockInviter, AutoRenewCharge, AutoRenewSkipped, Fail,
       Refuse, Rollback, db, outer
  <2> QED
    BY <2>1 DEF Next, PayAtProvider, AutoRenewLockSub, TransferCommissionToBalance,
         CreateCommissionWithdrawal, ExpireCoupon, ExpireSubscription, vars, db, outer
<1> QED
  BY <1>1, <1>2, <1>3, <1>4, <1>5, <1>6, OrderWriters

-----------------------------------------------------------------------------
(* The theorems. *)

\* SettlementInv is an invariant: whatever a session has read under a lock stays
\* true until it commits, and the rows beside an order agree with it.
THEOREM SettlementInvariant == Spec => []SettlementInv
<1>1. Init => SettlementInv
  BY InitInv
<1>2. SettlementInv /\ [Next]_vars => SettlementInv'
  BY NextType, NextExclusive, NextOrdersComplete, NextUpToDate, NextGrantedOnce,
     NextRecordsAgree DEF SettlementInv
<1> QED
  BY <1>1, <1>2, PTL DEF Spec

\* Every variable keeps its type; above all, no balance ever becomes negative.
THEOREM TypeCorrect == Spec => []TypeOK
BY SettlementInvariant, PTL DEF SettlementInv

\* However often an order is notified, its entitlement is applied once, and only
\* if the order completes.
THEOREM GrantsOnce == Spec => []GrantedOnce
BY SettlementInvariant, PTL DEF SettlementInv

\* Pay flow, callback, rebate, invoice and answer agree with the order.
THEOREM RecordsAlwaysAgree == Spec => []RecordsAgree
BY SettlementInvariant, PTL DEF SettlementInv

-----------------------------------------------------------------------------
(* Finality. *)

\* The only steps that write user_coupons: a commit uses an available coupon, and
\* the coupon bot expires one.
LEMMA CouponWriters ==
  ASSUME SettlementInv, [Next]_vars
  PROVE  \/ \E w \in Workers : Commit(w)
         \/ \E c \in Coupons : ExpireCoupon(c)
         \/ UNCHANGED coupon
<1>1. ASSUME NEW w \in Workers, Step(w) \/ Fail(w)
      PROVE  Commit(w) \/ UNCHANGED coupon
  BY <1>1 DEF Step, LockPendingOrder, OrderAlreadyCompleted, OrderNotPayable,
       FulfilPaidOrderByType, SubscriptionRefused, ReadCoupon, MarkUsed, CouponTaken,
       LockBuyer, LockInviter, AutoRenewCharge, AutoRenewSkipped, Fail, Refuse,
       Rollback, db
<1>2. ASSUME NEW w \in Workers, NEW o \in Orders, FindCallback(w, o)
      PROVE  UNCHANGED coupon
  BY <1>2 DEF FindCallback, Recorded, db
<1> QED
  BY <1>1, <1>2
     DEF Next, CreateOrder, PayAtProvider, AutoRenewLockSub,
         TransferCommissionToBalance, CreateCommissionWithdrawal,
         ExpireSubscription, vars, db

\* A commit marks its order's coupon, which was available, or none.
LEMMA CommitCoupon ==
  ASSUME SettlementInv, NEW w \in Workers, Commit(w), NEW c \in Coupons
  PROVE  IF useCoupon[w] /\ c = draft[w].coupon
         THEN /\ coupon[c].status = "available"
              /\ coupon'[c] = [status |-> "used", order |-> cur[w]]
         ELSE coupon'[c] = coupon[c]
<1>1. useCoupon[w] => coupon[draft[w].coupon].status = "available"
  BY DEF SettlementInv, SessionsUpToDate, CouponUpToDate
<1>2. useCoupon[w] \in BOOLEAN /\ coupon = [k \in Coupons |-> coupon[k]]
  BY DEF SettlementInv, TypeOK
<1>3. coupon' = IF useCoupon[w]
                THEN [coupon EXCEPT ![draft[w].coupon] =
                        [status |-> "used", order |-> cur[w]]]
                ELSE coupon
  BY DEF Commit
<1> QED
  BY <1>1, <1>2, <1>3

\* A used coupon is not written again.
LEMMA UsedCouponStays ==
  ASSUME SettlementInv, [Next]_vars, NEW c \in Coupons, coupon[c].status = "used"
  PROVE  coupon'[c] = coupon[c]
<1>1. ASSUME NEW k \in Coupons, ExpireCoupon(k)
      PROVE  coupon'[c] = coupon[c]
  BY <1>1 DEF ExpireCoupon, SettlementInv, TypeOK
<1> QED
  BY <1>1, CouponWriters, CommitCoupon

\* A completed or cancelled order is not written again.
LEMMA SettledOrderStays ==
  ASSUME SettlementInv, [Next]_vars, NEW o \in Orders,
         order[o].status \in {"completed", "cancelled"}
  PROVE  /\ order'[o] = order[o]
         /\ granted'[o] = granted[o]
         /\ rebate'[o] = rebate[o]
<1>1. ASSUME NEW p \in Orders, NEW r \in Checkouts, CreateOrder(p, r)
      PROVE  order'[o] = order[o] /\ UNCHANGED <<granted, rebate>>
  <2>1. order[p].status = "none"
    BY <1>1 DEF CreateOrder
  <2>2. o # p
    BY <2>1
  <2>3. UNCHANGED <<granted, rebate>>
    BY <1>1 DEF CreateOrder
  <2> QED
    BY <1>1, <2>2, <2>3, CreateFacts
<1>2. ASSUME NEW w \in Workers, Commit(w)
      PROVE  /\ order'[o] = order[o]
             /\ granted'[o] = granted[o]
             /\ rebate'[o] = rebate[o]
  <2>1. o # cur[w]
    BY <1>2, CommitFinds
  <2> QED
    BY <1>2, <2>1, CommitOthers
<1> QED
  BY <1>1, <1>2, OrderWriters

\* A completed or cancelled order and a used coupon are final.
THEOREM OrdersAreFinal == Spec => FinalOrders
<1> DEFINE Final ==
      /\ \A o \in Orders :
          order[o].status \in {"completed", "cancelled"} =>
            /\ order'[o] = order[o]
            /\ granted'[o] = granted[o]
            /\ rebate'[o] = rebate[o]
      /\ \A c \in Coupons : coupon[c].status = "used" => coupon'[c] = coupon[c]
<1>1. SettlementInv /\ [Next]_vars => [Final]_vars
  BY UsedCouponStays, SettledOrderStays
<1>2. FinalOrders <=> [][Final]_vars
  BY DEF FinalOrders
<1> HIDE DEF Final
<1> QED
  BY <1>1, <1>2, SettlementInvariant, PTL DEF Spec

\* A used coupon was used by one completed order that named it.
THEOREM CouponsHaveTheirOrder == Spec => []CouponUsedByItsOrder
<1>1. Init => CouponUsedByItsOrder
  BY DEF Init, CouponUsedByItsOrder
<1>2. ASSUME SettlementInv, CouponUsedByItsOrder, [Next]_vars
      PROVE  CouponUsedByItsOrder'
  <2> SUFFICES ASSUME NEW c \in Coupons, coupon'[c].status = "used"
               PROVE  /\ coupon'[c].order \in Orders
                      /\ order'[coupon'[c].order].status = "completed"
                      /\ order'[coupon'[c].order].coupon = c
    BY DEF CouponUsedByItsOrder
  <2>1. CASE coupon[c].status = "used"
    <3>1. coupon'[c] = coupon[c]
      BY <1>2, <2>1, UsedCouponStays
    <3>2. /\ coupon[c].order \in Orders
          /\ order[coupon[c].order].status = "completed"
          /\ order[coupon[c].order].coupon = c
      BY <1>2, <2>1 DEF CouponUsedByItsOrder
    <3>3. order'[coupon[c].order] = order[coupon[c].order]
      BY <1>2, <3>2, SettledOrderStays
    <3> QED
      BY <3>1, <3>2, <3>3
  <2>2. CASE coupon[c].status # "used"
    <3>1. ~\E k \in Coupons : ExpireCoupon(k)
      BY <1>2, <2>2 DEF ExpireCoupon, SettlementInv, TypeOK
    <3>2. PICK w \in Workers : Commit(w)
      BY <1>2, <2>2, <3>1, CouponWriters
    <3>3. c = draft[w].coupon /\ coupon'[c] = [status |-> "used", order |-> cur[w]]
      BY <1>2, <2>2, <3>2, CommitCoupon
    <3>4. cur[w] \in Orders /\ draft[w] \in Row
      BY <1>2, <3>2, CommitFinds
    <3>5. order'[cur[w]] = [draft[w] EXCEPT !.status = "completed"]
      BY <1>2, <3>2, CommitLeaves
    <3>6. order'[cur[w]].status = "completed" /\ order'[cur[w]].coupon = c
      BY <3>3, <3>4, <3>5, WithStatus
    <3> QED
      BY <3>3, <3>4, <3>6
  <2> QED
    BY <2>1, <2>2
<1> QED
  BY <1>1, <1>2, SettlementInvariant, PTL DEF Spec

-----------------------------------------------------------------------------
(* The ledger. *)

\* The steps that write what the ledger adds up.
LEMMA LedgerWriters ==
  ASSUME SettlementInv, [Next]_vars
  PROVE  \/ \E o \in Orders, r \in Checkouts : CreateOrder(o, r)
         \/ \E w \in Workers : Commit(w)
         \/ \E u \in Users : TransferCommissionToBalance(u)
                               \/ CreateCommissionWithdrawal(u)
         \/ UNCHANGED <<order, payFlow, rebate, wallet, commission, moved, withdrawn>>
<1> DEFINE books == <<order, payFlow, rebate, wallet, commission, moved, withdrawn>>
<1>1. ASSUME NEW w \in Workers, Step(w) \/ Fail(w)
      PROVE  Commit(w) \/ UNCHANGED books
  <2>1. CASE OrderNotPayable(w) \/ SubscriptionRefused(w) \/ CouponTaken(w)
               \/ AutoRenewSkipped(w) \/ Fail(w)
    BY <2>1 DEF OrderNotPayable, SubscriptionRefused, CouponTaken, AutoRenewSkipped,
                Fail, Refuse, Rollback, db
  <2>2. CASE LockPendingOrder(w) \/ FulfilPaidOrderByType(w) \/ ReadCoupon(w)
               \/ MarkUsed(w) \/ LockBuyer(w) \/ LockInviter(w)
               \/ AutoRenewCharge(w)
    <3>1. UNCHANGED db
      BY <2>2, Zenon DEF LockPendingOrder, FulfilPaidOrderByType, ReadCoupon, MarkUsed,
                         LockBuyer, LockInviter, AutoRenewCharge
    <3> QED
      BY <3>1 DEF db
  <2>3. CASE OrderAlreadyCompleted(w)
    BY <2>3 DEF OrderAlreadyCompleted
  <2> QED
    BY <1>1, <2>1, <2>2, <2>3 DEF Step
<1>2. ASSUME NEW w \in Workers, NEW o \in Orders, FindCallback(w, o)
      PROVE  UNCHANGED books
  BY <1>2 DEF FindCallback, Recorded, db
<1>3. ASSUME NEW o \in Orders, PayAtProvider(o)
      PROVE  UNCHANGED books
  BY <1>3 DEF PayAtProvider, db
<1>4. ASSUME NEW w \in Workers, NEW s \in Subs, NEW o \in Orders,
             AutoRenewLockSub(w, s, o)
      PROVE  UNCHANGED books
  BY <1>4 DEF AutoRenewLockSub, db
<1>5. ASSUME NEW s \in Subs, ExpireSubscription(s)
      PROVE  UNCHANGED books
  BY <1>5 DEF ExpireSubscription
<1>6. ASSUME NEW c \in Coupons, ExpireCoupon(c)
      PROVE  UNCHANGED books
  BY <1>6 DEF ExpireCoupon
<1>7. CASE UNCHANGED vars
  BY <1>7 DEF vars, db
<1> QED
  BY <1>1, <1>2, <1>3, <1>4, <1>5, <1>6, <1>7 DEF Next

\* The sets that are added up are finite, and so are amounts and rebates numbers.
LEMMA LedgerTypes ==
  ASSUME SettlementInv, NEW u \in Users
  PROVE  /\ Spent(u) \subseteq Orders /\ IsFiniteSet(Spent(u))
         /\ Earned(u) \subseteq Orders /\ IsFiniteSet(Earned(u))
         /\ \A o \in Orders : Amount[o] \in Int /\ rebate[o] \in Int
         /\ SumFunctionOnSet(Amount, Spent(u)) \in Int
         /\ SumFunctionOnSet(rebate, Earned(u)) \in Int
<1>1. Spent(u) \subseteq Orders /\ Earned(u) \subseteq Orders
  BY DEF SettlementInv, TypeOK, Spent, Earned
<1>2. IsFiniteSet(Spent(u)) /\ IsFiniteSet(Earned(u))
  BY <1>1, OrdersAssumption, FS_Subset
<1>3. \A o \in Orders : Amount[o] \in Int /\ rebate[o] \in Int
  BY DEF SettlementInv, TypeOK, Amount, Row
<1>4. /\ \A o \in Spent(u) : Amount[o] \in Int
      /\ \A o \in Earned(u) : rebate[o] \in Int
  BY <1>1, <1>3
<1>5. /\ SumFunctionOnSet(Amount, Spent(u)) \in Int
      /\ SumFunctionOnSet(rebate, Earned(u)) \in Int
  BY <1>2, <1>4, SumType
<1> QED
  BY <1>1, <1>2, <1>3, <1>5

\* A step that completes no order leaves both sums alone.
LEMMA SumsStay ==
  ASSUME SettlementInv, NEW u \in Users,
         UNCHANGED payFlow, UNCHANGED rebate,
         \A o \in Orders : order[o].status = "completed" => order'[o] = order[o],
         \A o \in Orders : order'[o].status = "completed" => order'[o] = order[o]
  PROVE  /\ SumFunctionOnSet(Amount, Spent(u))' = SumFunctionOnSet(Amount, Spent(u))
         /\ SumFunctionOnSet(rebate, Earned(u))' = SumFunctionOnSet(rebate, Earned(u))
<1>1. /\ payFlow \subseteq Orders
      /\ \A o \in payFlow : order[o].status = "completed"
  BY DEF SettlementInv, TypeOK, RecordsAgree
<1>2. Spent(u)' = Spent(u)
  BY <1>1 DEF Spent
<1>3. Earned(u)' = Earned(u)
  BY DEF Earned
<1>4. \A o \in Spent(u) : Amount[o] = Amount'[o] /\ Amount[o] \in Int
  BY <1>1, LedgerTypes DEF Spent, Amount
<1>5. SumFunctionOnSet(Amount, Spent(u)) = SumFunctionOnSet(Amount', Spent(u))
  BY <1>4, LedgerTypes, SumSame
<1> QED
  BY <1>2, <1>3, <1>5

\* A commit adds its order's amount to what the buyer has spent, when the bot
\* places it, and its rebate to what the inviter has earned.
LEMMA CommitAdds ==
  ASSUME SettlementInv, NEW w \in Workers, Commit(w), NEW u \in Users
  PROVE  /\ SumFunctionOnSet(Amount, Spent(u))' =
              IF draft[w].bot /\ draft[w].user = u
              THEN draft[w].amount + SumFunctionOnSet(Amount, Spent(u))
              ELSE SumFunctionOnSet(Amount, Spent(u))
         /\ SumFunctionOnSet(rebate, Earned(u))' =
              IF Parent[draft[w].user] = u
              THEN accrual[w] + SumFunctionOnSet(rebate, Earned(u))
              ELSE SumFunctionOnSet(rebate, Earned(u))
<1> DEFINE o == cur[w]
           d == draft[w]
<1>1. /\ o \in Orders /\ d \in Row /\ order[o].status # "completed"
      /\ order'[o].status = "completed" /\ order'[o].user = d.user
      /\ order'[o].bot = d.bot /\ order'[o].amount = d.amount
      /\ rebate'[o] = accrual[w]
  BY CommitFinds, CommitLeaves
<1>2. \A p \in Orders \ {o} : order'[p] = order[p] /\ rebate'[p] = rebate[p]
  BY CommitOthers
<1>3. payFlow' = payFlow \cup {o} /\ payFlow \subseteq Orders /\ o \notin payFlow
  BY <1>1 DEF Commit, DeductBalance, SettlementInv, TypeOK, RecordsAgree
<1>4. d.amount \in Int /\ accrual[w] \in Int
  BY <1>1 DEF Row, SettlementInv, TypeOK
<1> HIDE DEF o, d
<1>5. Amount'[o] = d.amount /\ \A p \in Orders \ {o} : Amount'[p] = Amount[p]
  BY <1>1, <1>2 DEF Amount
<1>6. /\ o \notin Spent(u) /\ o \notin Earned(u)
      /\ IsFiniteSet(Spent(u)) /\ IsFiniteSet(Earned(u))
  BY <1>1, <1>3, LedgerTypes DEF Spent, Earned
<1>7. /\ \A p \in Spent(u) : Amount[p] = Amount'[p] /\ Amount[p] \in Int
      /\ \A p \in Earned(u) : rebate[p] = rebate'[p] /\ rebate[p] \in Int
  BY <1>2, <1>5, <1>6, LedgerTypes
<1>8. /\ SumFunctionOnSet(Amount', Spent(u)) = SumFunctionOnSet(Amount, Spent(u))
      /\ SumFunctionOnSet(rebate', Earned(u)) = SumFunctionOnSet(rebate, Earned(u))
  BY <1>6, <1>7, SumSame
<1>9. /\ \A p \in Spent(u) \cup {o} : Amount'[p] \in Int
      /\ \A p \in Earned(u) \cup {o} : rebate'[p] \in Int
  BY <1>1, <1>4, <1>5, <1>7
<1>10. /\ SumFunctionOnSet(Amount', Spent(u) \cup {o}) =
            d.amount + SumFunctionOnSet(Amount, Spent(u))
       /\ SumFunctionOnSet(rebate', Earned(u) \cup {o}) =
            accrual[w] + SumFunctionOnSet(rebate, Earned(u))
  <2>1. SumFunctionOnSet(Amount', Spent(u) \cup {o}) =
          Amount'[o] + SumFunctionOnSet(Amount', Spent(u))
    BY <1>6, <1>9, SumAdd
  <2>2. SumFunctionOnSet(rebate', Earned(u) \cup {o}) =
          rebate'[o] + SumFunctionOnSet(rebate', Earned(u))
    BY <1>6, <1>9, SumAdd
  <2> QED
    BY <1>1, <1>5, <1>8, <2>1, <2>2
<1>11. Spent(u)' = IF d.bot /\ d.user = u THEN Spent(u) \cup {o} ELSE Spent(u)
  BY <1>1, <1>2, <1>3 DEF Spent
<1>12. Earned(u)' = IF Parent[d.user] = u THEN Earned(u) \cup {o} ELSE Earned(u)
  BY <1>1, <1>2 DEF Earned
<1>13. /\ SumFunctionOnSet(Amount, Spent(u))' =
            IF d.bot /\ d.user = u
            THEN d.amount + SumFunctionOnSet(Amount, Spent(u))
            ELSE SumFunctionOnSet(Amount, Spent(u))
       /\ SumFunctionOnSet(rebate, Earned(u))' =
            IF Parent[d.user] = u
            THEN accrual[w] + SumFunctionOnSet(rebate, Earned(u))
            ELSE SumFunctionOnSet(rebate, Earned(u))
  BY <1>8, <1>10, <1>11, <1>12
<1> QED
  BY <1>13 DEF d

\* What a commit writes to the balances.
LEMMA CommitPays ==
  ASSUME SettlementInv, NEW w \in Workers, Commit(w), NEW u \in Users
  PROVE  /\ wallet[u] = IF draft[w].bot /\ draft[w].user = u
                        THEN wallet'[u] + draft[w].amount ELSE wallet'[u]
         /\ commission'[u] = IF Parent[draft[w].user] = u
                             THEN commission[u] + accrual[w] ELSE commission[u]
         /\ UNCHANGED <<moved, withdrawn>>
         /\ wallet'[u] \in Nat /\ accrual[w] \in Nat /\ draft[w].amount \in Nat
<1>1. /\ pc[w] = "commit" /\ pc[w] \in Rebating /\ draft[w].user \in Users
      /\ draft[w] \in Row
  BY CommitFinds
<1>2. BalancesUpToDate(w) /\ TypeOK
  BY DEF SettlementInv, SessionsUpToDate
<1>3. /\ draft[w].bot => newWallet[w] + draft[w].amount = wallet[draft[w].user]
      /\ accrual[w] > 0 =>
           /\ HasInviter(draft[w].user)
           /\ newCommission[w] = commission[Parent[draft[w].user]] + accrual[w]
      /\ HasInviter(draft[w].user) => Parent[draft[w].user] \in Users
  BY <1>1, <1>2, ParentAssumption DEF BalancesUpToDate, HasInviter
<1>4. /\ draft[w].amount \in Nat /\ accrual[w] \in Nat /\ newWallet[w] \in Nat
      /\ wallet \in [Users -> Nat] /\ commission \in [Users -> Nat]
      /\ draft[w].bot \in BOOLEAN
  BY <1>1, <1>2 DEF TypeOK, Row
<1>5. /\ wallet' = IF draft[w].bot
                   THEN [wallet EXCEPT ![draft[w].user] = newWallet[w]] ELSE wallet
      /\ commission' = IF accrual[w] > 0
                       THEN [commission EXCEPT
                               ![Parent[draft[w].user]] = newCommission[w]]
                       ELSE commission
      /\ UNCHANGED <<moved, withdrawn>>
  BY Zenon DEF Commit, DeductBalance, AccrueRebate
<1>6. /\ wallet'[u] = IF draft[w].bot /\ draft[w].user = u
                      THEN newWallet[w] ELSE wallet[u]
      /\ commission'[u] = IF accrual[w] > 0 /\ Parent[draft[w].user] = u
                          THEN newCommission[w] ELSE commission[u]
  BY <1>4, <1>5
<1> QED
  BY <1>1, <1>3, <1>4, <1>5, <1>6

\* The ledger of one user, as an equation between the numbers it is made of.
LEMMA LedgerStep ==
  ASSUME SettlementInv, LedgerBalances, [Next]_vars
  PROVE  LedgerBalances'
<1> SUFFICES ASSUME NEW u \in Users
             PROVE  /\ (wallet[u] + SumFunctionOnSet(Amount, Spent(u))
                          = InitWallet[u] + moved[u])'
                    /\ (commission[u] + moved[u] + withdrawn[u]
                          = SumFunctionOnSet(rebate, Earned(u)))'
  BY DEF LedgerBalances
<1> DEFINE spent  == SumFunctionOnSet(Amount, Spent(u))
           earned == SumFunctionOnSet(rebate, Earned(u))
<1>1. /\ spent \in Int /\ earned \in Int
      /\ wallet[u] \in Nat /\ commission[u] \in Nat /\ moved[u] \in Nat
      /\ withdrawn[u] \in Nat /\ InitWallet[u] \in Nat
      /\ wallet[u] + spent = InitWallet[u] + moved[u]
      /\ commission[u] + moved[u] + withdrawn[u] = earned
  BY LedgerTypes, AmountAssumption DEF SettlementInv, TypeOK, LedgerBalances
<1> SUFFICES /\ wallet'[u] + spent' = InitWallet[u] + moved'[u]
             /\ commission'[u] + moved'[u] + withdrawn'[u] = earned'
  OBVIOUS
<1>2. ASSUME NEW w \in Workers, Commit(w)
      PROVE  /\ wallet'[u] + spent' = InitWallet[u] + moved'[u]
             /\ commission'[u] + moved'[u] + withdrawn'[u] = earned'
  <2>1. /\ spent' = IF draft[w].bot /\ draft[w].user = u
                    THEN draft[w].amount + spent ELSE spent
        /\ earned' = IF Parent[draft[w].user] = u
                     THEN accrual[w] + earned ELSE earned
    BY <1>2, CommitAdds
  <2> HIDE DEF spent, earned
  <2> QED
    BY <1>1, <1>2, <2>1, CommitPays
<1>3. ASSUME UNCHANGED payFlow, UNCHANGED rebate, UNCHANGED order
      PROVE  spent' = spent /\ earned' = earned
  BY <1>3, SumsStay
<1>4. ASSUME NEW o \in Orders, NEW r \in Checkouts, CreateOrder(o, r)
      PROVE  /\ wallet'[u] + spent' = InitWallet[u] + moved'[u]
             /\ commission'[u] + moved'[u] + withdrawn'[u] = earned'
  <2>1. UNCHANGED <<payFlow, rebate, wallet, commission, moved, withdrawn>>
    BY <1>4 DEF CreateOrder
  <2>2. order'[o].status # "completed" /\ order[o].status # "completed"
    BY <1>4, CreateFacts, CheckoutRowType
  <2>3. \A p \in Orders : order[p].status = "completed" => order'[p] = order[p]
    BY <1>4, <2>2, CreateFacts
  <2>4. \A p \in Orders : order'[p].status = "completed" => order'[p] = order[p]
    BY <1>4, <2>2, CreateFacts
  <2>5. spent' = spent /\ earned' = earned
    BY <2>1, <2>3, <2>4, SumsStay
  <2> QED
    BY <1>1, <2>1, <2>5
<1>5. ASSUME NEW v \in Users, TransferCommissionToBalance(v)
      PROVE  /\ wallet'[u] + spent' = InitWallet[u] + moved'[u]
             /\ commission'[u] + moved'[u] + withdrawn'[u] = earned'
  <2>1. PICK amount \in 1 .. commission[v] :
          /\ commission' = [commission EXCEPT ![v] = @ - amount]
          /\ wallet' = [wallet EXCEPT ![v] = @ + amount]
          /\ moved' = [moved EXCEPT ![v] = @ + amount]
          /\ UNCHANGED <<order, payFlow, rebate, withdrawn>>
    BY <1>5 DEF TransferCommissionToBalance
  <2>2. spent' = spent /\ earned' = earned
    BY <1>3, <2>1
  <2>3. /\ wallet'[u] = IF u = v THEN wallet[u] + amount ELSE wallet[u]
        /\ commission'[u] = IF u = v THEN commission[u] - amount ELSE commission[u]
        /\ moved'[u] = IF u = v THEN moved[u] + amount ELSE moved[u]
        /\ withdrawn' = withdrawn /\ amount \in Int
    BY <2>1 DEF SettlementInv, TypeOK
  <2> HIDE DEF spent, earned
  <2> QED
    BY <1>1, <2>2, <2>3
<1>6. ASSUME NEW v \in Users, CreateCommissionWithdrawal(v)
      PROVE  /\ wallet'[u] + spent' = InitWallet[u] + moved'[u]
             /\ commission'[u] + moved'[u] + withdrawn'[u] = earned'
  <2>1. PICK amount \in 1 .. commission[v] :
          /\ commission' = [commission EXCEPT ![v] = @ - amount]
          /\ withdrawn' = [withdrawn EXCEPT ![v] = @ + amount]
          /\ UNCHANGED <<order, payFlow, rebate, wallet, moved>>
    BY <1>6 DEF CreateCommissionWithdrawal
  <2>2. spent' = spent /\ earned' = earned
    BY <1>3, <2>1
  <2>3. /\ commission'[u] = IF u = v THEN commission[u] - amount ELSE commission[u]
        /\ withdrawn'[u] = IF u = v THEN withdrawn[u] + amount ELSE withdrawn[u]
        /\ wallet' = wallet /\ moved' = moved /\ amount \in Int
    BY <2>1 DEF SettlementInv, TypeOK
  <2> HIDE DEF spent, earned
  <2> QED
    BY <1>1, <2>2, <2>3
<1>7. CASE UNCHANGED <<order, payFlow, rebate, wallet, commission, moved, withdrawn>>
  BY <1>1, <1>3, <1>7
<1> QED
  BY <1>2, <1>4, <1>5, <1>6, <1>7, LedgerWriters

\* The money adds up, for every user and whatever the sessions interleave: no fen
\* is lost, made or paid twice between wallets, commissions, orders and rebates.
THEOREM LedgerAlwaysBalances == Spec => []LedgerBalances
<1>1. Init => LedgerBalances
  <2> SUFFICES ASSUME Init, NEW u \in Users
               PROVE  /\ wallet[u] + SumFunctionOnSet(Amount, Spent(u))
                           = InitWallet[u] + moved[u]
                      /\ commission[u] + moved[u] + withdrawn[u]
                           = SumFunctionOnSet(rebate, Earned(u))
    BY DEF LedgerBalances
  <2>1. Spent(u) = {} /\ Earned(u) = {}
    BY DEF Init, Spent, Earned, NoRow
  <2>2. SumFunctionOnSet(Amount, Spent(u)) = 0 /\ SumFunctionOnSet(rebate, Earned(u)) = 0
    BY <2>1, SumEmpty
  <2>3. /\ wallet[u] = InitWallet[u] /\ InitWallet[u] \in Nat
        /\ commission[u] = 0 /\ moved[u] = 0 /\ withdrawn[u] = 0
    BY AmountAssumption DEF Init
  <2> QED
    BY <2>2, <2>3
<1> QED
  BY <1>1, LedgerStep, SettlementInvariant, PTL DEF Spec

-----------------------------------------------------------------------------
(* Sessions do not wait in a ring.                                           *)

\* The session whose step it is holds its locks in order afterwards.
LEMMA StepInLockOrder ==
  ASSUME SettlementInv, NEW w \in Workers, InLockOrder(w), Step(w)
  PROVE  InLockOrder(w)'
<1>0. /\ pc \in [Workers -> Locations] /\ held \in [Workers -> SUBSET LockName]
      /\ draft \in [Workers -> Row]
  BY DEF SettlementInv, TypeOK
<1>1. ASSUME Release(w)
      PROVE  InLockOrder(w)'
  BY <1>0, <1>1 DEF Release, InLockOrder
<1>2. CASE LockPendingOrder(w)
  <2>1. /\ pc[w] = "lock_order" /\ pc'[w] = "fulfil"
        /\ held'[w] = held[w] \cup {<<"order", cur[w]>>}
    BY <1>0, <1>2 DEF LockPendingOrder, Lock
  <2> QED
    BY <2>1 DEF InLockOrder, Begun, Rebating, Locations
<1>3. CASE FulfilPaidOrderByType(w)
  <2>1. /\ pc[w] = "fulfil" /\ pc'[w] \in {"read_coupon", "lock_buyer"}
        /\ held'[w] \subseteq held[w] \cup {<<"sub", draft[w].sub>>}
        /\ UNCHANGED draft
    BY <1>0, <1>3 DEF FulfilPaidOrderByType, Lock, Goto, AfterFulfil
  <2> QED
    BY <2>1 DEF InLockOrder, Begun, Rebating, Locations
<1>4. CASE ReadCoupon(w)
  <2>1. /\ pc[w] = "read_coupon" /\ pc'[w] \in {"mark_coupon", "lock_buyer"}
        /\ UNCHANGED held
    BY <1>0, <1>4 DEF ReadCoupon, Goto
  <2> QED
    BY <2>1 DEF InLockOrder, Begun, Rebating, Locations
<1>5. CASE MarkUsed(w)
  <2>1. /\ pc[w] = "mark_coupon" /\ pc'[w] = "lock_buyer"
        /\ held'[w] = held[w] \cup {<<"coupon", draft[w].coupon>>}
    BY <1>0, <1>5 DEF MarkUsed, Lock
  <2> QED
    BY <2>1 DEF InLockOrder, Begun, Rebating, Locations
<1>6. CASE LockBuyer(w)
  <2>1. /\ pc[w] = "lock_buyer" /\ pc'[w] \in {"lock_inviter", "commit"}
        /\ held'[w] = held[w] \cup {<<"user", draft[w].user>>}
        /\ UNCHANGED draft
    BY <1>0, <1>6 DEF LockBuyer, Lock, RebateUser
  <2> QED
    BY <2>1 DEF InLockOrder, Begun, Rebating, Locations
<1>7. CASE LockInviter(w)
  <2>1. /\ pc[w] = "lock_inviter" /\ pc'[w] = "commit"
        /\ held'[w] = held[w] \cup {<<"user", RebateUser(w)>>}
    BY <1>0, <1>7 DEF LockInviter, Lock
  <2> QED
    BY <2>1 DEF InLockOrder, Begun, Rebating, Locations
<1>8. CASE AutoRenewCharge(w)
  <2>1. /\ pc[w] = "renew_wallet" /\ pc'[w] = "lock_buyer"
        /\ held'[w] = held[w] \cup {<<"user", draft[w].user>>}
        /\ UNCHANGED draft
    BY <1>0, <1>8 DEF AutoRenewCharge, Lock
  <2>2. draft[w].bot
    BY <2>1 DEF SettlementInv, SessionsUpToDate, OrderUpToDate
  <2> QED
    BY <2>1, <2>2 DEF InLockOrder, Begun, Rebating, Locations
<1>9. CASE \/ OrderAlreadyCompleted(w) \/ OrderNotPayable(w) \/ SubscriptionRefused(w)
           \/ CouponTaken(w) \/ AutoRenewSkipped(w) \/ Commit(w)
  <2>1. Release(w)
    BY <1>9 DEF OrderAlreadyCompleted, OrderNotPayable, SubscriptionRefused,
                CouponTaken, AutoRenewSkipped, Commit, Refuse, Rollback
  <2> QED
    BY <1>1, <2>1
<1> QED
  BY <1>2, <1>3, <1>4, <1>5, <1>6, <1>7, <1>8, <1>9 DEF Step

\* Every step keeps the locks in order.
LEMMA NextInLockOrder ==
  ASSUME SettlementInv, LocksInOrder, [Next]_vars
  PROVE  LocksInOrder'
<1>0. /\ pc \in [Workers -> Locations] /\ held \in [Workers -> SUBSET LockName]
      /\ draft \in [Workers -> Row]
  BY DEF SettlementInv, TypeOK
<1>1. ASSUME NEW v \in Workers, Same(v)
      PROVE  InLockOrder(v)'
  BY <1>1 DEF LocksInOrder, InLockOrder, Same
<1>2. ASSUME NEW w \in Workers, Step(w)
      PROVE  LocksInOrder'
  BY <1>1, <1>2, StepFrame, StepInLockOrder DEF LocksInOrder
<1>3. ASSUME NEW w \in Workers, Fail(w)
      PROVE  LocksInOrder'
  <2>1. Release(w)
    BY <1>3 DEF Fail, Rollback
  <2>2. \A v \in Workers : held'[v] = {} \/
          (held'[v] = held[v] /\ pc'[v] = pc[v] /\ draft'[v] = draft[v])
    BY <1>0, <2>1 DEF Release
  <2> QED
    BY <2>2 DEF LocksInOrder, InLockOrder
<1>4. ASSUME NEW w \in Workers, NEW o \in Orders, FindCallback(w, o)
      PROVE  LocksInOrder'
  <2>1. /\ UNCHANGED <<held, draft>>
        /\ pc[w] = "idle" /\ \A v \in Workers \ {w} : pc'[v] = pc[v]
    BY <1>0, <1>4 DEF FindCallback, tx
  <2>2. held[w] = {}
    BY <2>1 DEF SettlementInv, SessionsUpToDate, OrderUpToDate
  <2> QED
    BY <2>1, <2>2 DEF LocksInOrder, InLockOrder
<1>5. ASSUME NEW w \in Workers, NEW s \in Subs, NEW o \in Orders,
             AutoRenewLockSub(w, s, o)
      PROVE  LocksInOrder'
  <2>1. /\ held'[w] = {<<"sub", s>>, <<"order", o>>} /\ pc'[w] = "renew_wallet"
        /\ \A v \in Workers \ {w} :
             held'[v] = held[v] /\ pc'[v] = pc[v] /\ draft'[v] = draft[v]
    BY <1>0, <1>5 DEF AutoRenewLockSub
  <2> QED
    BY <2>1 DEF LocksInOrder, InLockOrder, Begun, Locations
<1>6. CASE \/ \E o \in Orders, r \in Checkouts : CreateOrder(o, r)
           \/ \E o \in Orders : PayAtProvider(o)
           \/ \E u \in Users : TransferCommissionToBalance(u)
                                  \/ CreateCommissionWithdrawal(u)
           \/ \E c \in Coupons : ExpireCoupon(c)
           \/ \E s \in Subs : ExpireSubscription(s)
           \/ UNCHANGED vars
  <2>1. UNCHANGED tx
    BY <1>6 DEF CreateOrder, PayAtProvider, TransferCommissionToBalance,
                CreateCommissionWithdrawal, ExpireCoupon, ExpireSubscription, vars
  <2> QED
    BY <2>1 DEF tx, LocksInOrder, InLockOrder
<1> QED
  BY <1>2, <1>3, <1>4, <1>5, <1>6 DEF Next

\* A session in a ring waits for a row that it does not hold itself.
LEMMA RingMember ==
  ASSUME SettlementInv, NEW S \in SUBSET Workers, Ring(S), NEW w \in S
  PROVE  /\ Wanted(w) \notin held[w]
         /\ \E v \in S : Wanted(w) \in held[v]
BY DEF Ring, WaitsFor, SettlementInv, LocksExclusive

\* Where a session is tells what it waits for.
LEMMA WantedRow ==
  ASSUME SettlementInv, NEW w \in Workers, Wanted(w) \in LockName
  PROVE  \/ pc[w] = "lock_order" /\ Wanted(w) = <<"order", cur[w]>> /\ cur[w] \in Orders
         \/ /\ pc[w] = "fulfil" /\ Wanted(w) = <<"sub", draft[w].sub>>
            /\ draft[w].sub \in Subs
         \/ /\ pc[w] = "mark_coupon" /\ Wanted(w) = <<"coupon", draft[w].coupon>>
            /\ draft[w].coupon \in Coupons
         \/ /\ pc[w] \in {"lock_buyer", "renew_wallet"} /\ draft[w].user \in Users
            /\ Wanted(w) = <<"user", draft[w].user>>
         \/ /\ pc[w] = "lock_inviter" /\ Wanted(w) = <<"user", Parent[draft[w].user]>>
            /\ HasInviter(draft[w].user) /\ draft[w].user \in Users
            /\ Parent[draft[w].user] \in Users
<1>1. pc[w] \in Locations
  BY DEF SettlementInv, TypeOK
<1>2. CASE pc[w] = "lock_order"
  BY <1>2 DEF Wanted, LockName
<1>3. CASE pc[w] = "fulfil"
  BY <1>3 DEF Wanted, LockName
<1>4. CASE pc[w] = "mark_coupon"
  BY <1>4 DEF Wanted, LockName
<1>5. CASE pc[w] \in {"lock_buyer", "renew_wallet"}
  BY <1>5 DEF Wanted, LockName, RebateUser
<1>6. CASE pc[w] = "lock_inviter"
  <2>1. /\ Wanted(w) = <<"user", Parent[draft[w].user]>>
        /\ HasInviter(draft[w].user) /\ Parent[draft[w].user] \in Users
    BY <1>6, SessionFacts DEF Wanted, RebateUser
  <2>2. draft[w].user \in Users
    BY <1>6, SessionFacts DEF Begun, Locations
  <2> QED
    BY <1>6, <2>1, <2>2
<1>7. CASE pc[w] \in {"idle", "read_coupon", "commit"}
  <2>1. Wanted(w) = <<"nothing", Nobody>>
    BY <1>7 DEF Wanted
  <2> QED
    BY <2>1 DEF LockName
<1> QED
  BY <1>1, <1>2, <1>3, <1>4, <1>5, <1>6, <1>7 DEF Locations

\* Locks are taken in an order, and among users from the invited to the inviter:
\* the session that waits for the last row waits for a session that does not wait.
LEMMA OrderedLocksMakeNoRing ==
  ASSUME SettlementInv, LocksInOrder
  PROVE  NoRing
<1> SUFFICES ASSUME NEW S \in SUBSET Workers, Ring(S), S # {}
             PROVE  FALSE
  BY DEF NoRing
<1> DEFINE asked == {u \in Users : \E w \in S : Wanted(w) = <<"user", u>>}
<1>1. \A w \in S :
        /\ Wanted(w) \notin held[w] /\ Wanted(w) \in LockName
        /\ \E v \in S : Wanted(w) \in held[v]
  BY RingMember DEF SettlementInv, TypeOK
<1>2. \A w \in S :
        \/ pc[w] = "lock_order" /\ \E o \in Orders : Wanted(w) = <<"order", o>>
        \/ pc[w] = "fulfil" /\ \E s \in Subs : Wanted(w) = <<"sub", s>>
        \/ pc[w] = "mark_coupon" /\ \E c \in Coupons : Wanted(w) = <<"coupon", c>>
        \/ \E u \in asked : Wanted(w) = <<"user", u>>
  <2> TAKE w \in S
  <2>1. Wanted(w) \in LockName
    BY <1>1
  <2> QED
    BY <2>1, WantedRow
<1>3. \A w \in S : /\ InLockOrder(w)
                   /\ pc[w] \notin {"idle", "read_coupon", "commit"}
  <2> TAKE w \in S
  <2>1. Wanted(w) \in LockName
    BY <1>1
  <2> QED
    BY <2>1, WantedRow DEF LocksInOrder
<1>4. asked = {}
  <2> SUFFICES ASSUME asked # {} PROVE FALSE
    OBVIOUS
  <2>1. PICK u \in asked : HasInviter(u) => Parent[u] \notin asked
    BY EldestAssumption
  <2>2. PICK v \in S : <<"user", u>> \in held[v]
    BY <1>1, <2>1
  <2>3. \/ u = draft[v].user /\ pc[v] = "lock_inviter"
        \/ u = draft[v].user /\ pc[v] = "lock_buyer"
    BY <1>3, <2>1, <2>2 DEF InLockOrder
  <2>4. Wanted(v) \in LockName /\ Wanted(v) \notin held[v]
    BY <1>1
  <2>5. CASE pc[v] = "lock_buyer"
    BY <2>2, <2>3, <2>4, <2>5, WantedRow
  <2>6. CASE pc[v] = "lock_inviter"
    <3>1. /\ Wanted(v) = <<"user", Parent[u]>> /\ HasInviter(u)
          /\ Parent[u] \in Users
      BY <2>3, <2>4, <2>6, WantedRow
    <3> QED
      BY <2>1, <3>1
  <2> QED
    BY <2>3, <2>5, <2>6
<1> HIDE DEF asked
<1>5. \A w \in S : pc[w] \in {"lock_order", "fulfil", "mark_coupon"}
  BY <1>2, <1>4
<1>6. \A w \in S : pc[w] # "mark_coupon"
  BY <1>1, <1>2, <1>3, <1>4, <1>5 DEF InLockOrder, Rebating
<1>7. \A w \in S : pc[w] # "fulfil"
  BY <1>1, <1>2, <1>3, <1>4, <1>5, <1>6 DEF InLockOrder, Begun
<1>8. \A w \in S : pc[w] # "lock_order"
  BY <1>1, <1>2, <1>3, <1>4, <1>5, <1>6, <1>7 DEF InLockOrder, Begun
<1> QED
  BY <1>5, <1>6, <1>7, <1>8

\* No sessions wait for one another in a ring, so no transaction of a payment or
\* a renewal is ever the victim of a deadlock.
THEOREM NeverARing == Spec => []NoRing
<1>1. Init => LocksInOrder
  BY DEF Init, LocksInOrder, InLockOrder
<1> QED
  BY <1>1, NextInLockOrder, OrderedLocksMakeNoRing, SettlementInvariant, PTL DEF Spec

-----------------------------------------------------------------------------
(* Every step of PaymentNotify is a step of Settlement, or changes nothing     *)
(* that Settlement speaks of.                                                  *)

\* Settlement's rows and amounts are those of PaymentNotify.
LEMMA SameData ==
  /\ Promise!NoRow = NoRow
  /\ \A r \in Checkouts : Promise!CheckoutRow(r) = CheckoutRow(r)
  /\ \A s \in Subs, p \in Plans : Promise!BotRow(s, p) = BotRow(s, p)
  /\ \A u \in Users : Promise!HasInviter(u) <=> HasInviter(u)
  /\ \A a \in Nat, rate \in Rates :
       Promise!RebateAmount(a, rate) = RebateAmount(a, rate)
<1> USE DEF Percent, Promise!Percent
<1>1. \A r \in Checkouts : Promise!CheckoutRow(r) = CheckoutRow(r)
  BY DEF CheckoutRow, Promise!CheckoutRow, TotalAmount, Promise!TotalAmount,
         DiscountAmount, Promise!DiscountAmount, Subtotal, Promise!Subtotal
<1> QED
  BY <1>1 DEF NoRow, Promise!NoRow, BotRow, Promise!BotRow, HasInviter,
              Promise!HasInviter, RebateAmount, Promise!RebateAmount

\* The steps that write what Settlement speaks of.
LEMMA PromiseWriters ==
  ASSUME [Next]_vars
  PROVE  \/ \E o \in Orders, r \in Checkouts : CreateOrder(o, r)
         \/ \E w \in Workers : Commit(w)
         \/ \E u \in Users : TransferCommissionToBalance(u)
                               \/ CreateCommissionWithdrawal(u)
         \/ \E c \in Coupons : ExpireCoupon(c)
         \/ UNCHANGED Promise!vars
<1>1. ASSUME NEW w \in Workers, Step(w) \/ Fail(w)
      PROVE  Commit(w) \/ UNCHANGED Promise!vars
  <2>1. CASE OrderNotPayable(w) \/ SubscriptionRefused(w) \/ CouponTaken(w)
               \/ AutoRenewSkipped(w) \/ Fail(w)
    BY <2>1 DEF OrderNotPayable, SubscriptionRefused, CouponTaken, AutoRenewSkipped,
                Fail, Refuse, Rollback, db, Promise!vars
  <2>2. CASE LockPendingOrder(w) \/ FulfilPaidOrderByType(w) \/ ReadCoupon(w)
               \/ MarkUsed(w) \/ LockBuyer(w) \/ LockInviter(w)
               \/ AutoRenewCharge(w)
    <3>1. UNCHANGED db
      BY <2>2, Zenon DEF LockPendingOrder, FulfilPaidOrderByType, ReadCoupon, MarkUsed,
                         LockBuyer, LockInviter, AutoRenewCharge
    <3> QED
      BY <3>1 DEF db, Promise!vars
  <2>3. CASE OrderAlreadyCompleted(w)
    BY <2>3 DEF OrderAlreadyCompleted, Promise!vars
  <2> QED
    BY <1>1, <2>1, <2>2, <2>3 DEF Step
<1>2. ASSUME NEW w \in Workers, NEW o \in Orders, FindCallback(w, o)
      PROVE  UNCHANGED Promise!vars
  BY <1>2 DEF FindCallback, Recorded, db, Promise!vars
<1>3. ASSUME NEW o \in Orders, PayAtProvider(o)
      PROVE  UNCHANGED Promise!vars
  BY <1>3 DEF PayAtProvider, db, Promise!vars
<1>4. ASSUME NEW w \in Workers, NEW s \in Subs, NEW o \in Orders,
             AutoRenewLockSub(w, s, o)
      PROVE  UNCHANGED Promise!vars
  BY <1>4 DEF AutoRenewLockSub, db, Promise!vars
<1>5. ASSUME NEW s \in Subs, ExpireSubscription(s)
      PROVE  UNCHANGED Promise!vars
  BY <1>5 DEF ExpireSubscription, Promise!vars
<1>6. CASE UNCHANGED vars
  BY <1>6 DEF vars, db, Promise!vars
<1> QED
  BY <1>1, <1>2, <1>3, <1>4, <1>5, <1>6 DEF Next

\* A commit settles its order at some rate, from the balances of that moment.
LEMMA CommitSettles ==
  ASSUME SettlementInv, NEW w \in Workers, Commit(w)
  PROVE  \E rate \in Rates : Promise!Settle(cur[w], draft[w], rate, useCoupon[w])
<1> DEFINE o == cur[w]
           d == draft[w]
<1>1. /\ pc[w] = "commit" /\ o \in Orders /\ d \in Row
      /\ d.user \in Users /\ granted[o] = 0
  BY CommitFinds
<1>2. BalancesUpToDate(w) /\ CouponUpToDate(w) /\ TypeOK
  BY DEF SettlementInv, SessionsUpToDate
<1>3. \E rate \in Rates :
        accrual[w] = IF HasInviter(d.user) THEN RebateAmount(d.amount, rate) ELSE 0
  BY <1>1, <1>2, AmountAssumption DEF BalancesUpToDate
<1>4. PICK rate \in Rates :
        accrual[w] = IF HasInviter(d.user) THEN RebateAmount(d.amount, rate) ELSE 0
  BY <1>3
<1>5. d.bot => /\ newWallet[w] + d.amount = wallet[d.user]
               /\ wallet[d.user] >= d.amount
               /\ newWallet[w] = wallet[d.user] - d.amount
  BY <1>1, <1>2 DEF BalancesUpToDate, Rebating, TypeOK, Row
<1>6. useCoupon[w] => d.coupon # Nobody /\ coupon[d.coupon].status = "available"
  BY <1>2, NobodyAssumption DEF CouponUpToDate
<1>7. granted' = [granted EXCEPT ![o] = 1]
  BY <1>1 DEF Commit, DeductBalance, AccrueRebate, InsertCallback
<1>8. wallet' = IF d.bot THEN [wallet EXCEPT ![d.user] = @ - d.amount] ELSE wallet
  BY <1>1, <1>5 DEF Commit, DeductBalance, AccrueRebate, InsertCallback
<1>9. commission' = IF accrual[w] > 0
                    THEN [commission EXCEPT ![Parent[d.user]] = @ + accrual[w]]
                    ELSE commission
  <2>1. accrual[w] > 0 =>
          newCommission[w] = commission[Parent[d.user]] + accrual[w]
    BY <1>1, <1>2 DEF BalancesUpToDate
  <2> QED
    BY <2>1 DEF Commit, DeductBalance, AccrueRebate, InsertCallback
<1>10. /\ order' = [order EXCEPT ![o] = [d EXCEPT !.status = "completed"]]
       /\ rebate' = [rebate EXCEPT ![o] = accrual[w]]
       /\ coupon' = IF useCoupon[w]
                    THEN [coupon EXCEPT ![d.coupon] =
                            [status |-> "used", order |-> o]]
                    ELSE coupon
  BY Zenon DEF Commit, AccrueRebate
<1> QED
  <2>1. /\ Promise!HasInviter(d.user) <=> HasInviter(d.user)
        /\ Promise!RebateAmount(d.amount, rate) = RebateAmount(d.amount, rate)
    BY <1>1, SameData DEF Row
  <2> QED
    BY <1>4, <1>5, <1>6, <1>7, <1>8, <1>9, <1>10, <2>1 DEF Promise!Settle

\* So a commit is one of Settlement's two settling steps.
LEMMA CommitPromised ==
  ASSUME SettlementInv, NEW w \in Workers, Commit(w)
  PROVE  \E o \in Orders : Promise!SettlePending(o) \/ Promise!SettleRenewal(o)
<1> DEFINE o == cur[w]
           d == draft[w]
<1>1. PICK rate \in Rates : Promise!Settle(o, d, rate, useCoupon[w])
  BY CommitSettles
<1>2. /\ o \in Orders
      /\ order[o].status = IF d.bot THEN "none" ELSE "pending_payment"
      /\ ~d.bot => d = order[o]
      /\ d.plan \in Plans
  BY CommitFinds
<1>3. useCoupon[w] \in BOOLEAN
  BY DEF SettlementInv, TypeOK
<1> HIDE DEF o, d
<1>4. CASE ~d.bot
  BY <1>1, <1>2, <1>3, <1>4 DEF Promise!SettlePending
<1>5. CASE d.bot
  <2>1. d = BotRow(d.sub, d.plan) /\ d.sub \in Subs /\ d.coupon = Nobody
    BY <1>5, CommitFinds, SessionFacts DEF d
  <2>2. useCoupon[w] = FALSE
    BY <1>3, <2>1, SessionFacts, NobodyAssumption DEF d
  <2>3. Promise!Settle(o, BotRow(d.sub, d.plan), rate, FALSE)
    BY <1>1, <1>2, <2>1, <2>2, SameData
  <2> QED
    BY <1>2, <1>5, <2>1, <2>3, SameData DEF Promise!SettleRenewal
<1> QED
  BY <1>2, <1>4, <1>5

\* Every interleaving of sessions, failures and bots is one of Settlement's
\* behaviours: each order is settled in one step, from current balances.
THEOREM Refinement == Spec => SettlesAtomically
<1>1. Init => Promise!Init
  BY SameData DEF Init, Promise!Init
<1>2. ASSUME SettlementInv, [Next]_vars
      PROVE  [Promise!Next]_(Promise!vars)
  <2>1. ASSUME NEW o \in Orders, NEW r \in Checkouts, CreateOrder(o, r)
        PROVE  Promise!Place(o, r)
    BY <2>1, SameData DEF CreateOrder, Replaced, Promise!Place
  <2>2. ASSUME NEW u \in Users,
               TransferCommissionToBalance(u) \/ CreateCommissionWithdrawal(u)
        PROVE  Promise!Spend(u)
    <3>1. ASSUME TransferCommissionToBalance(u)
          PROVE  Promise!Spend(u)
      BY <3>1 DEF TransferCommissionToBalance, Promise!Spend
    <3>2. ASSUME CreateCommissionWithdrawal(u)
          PROVE  Promise!Spend(u)
      BY <3>2 DEF CreateCommissionWithdrawal, Promise!Spend
    <3> QED
      BY <2>2, <3>1, <3>2
  <2>3. ASSUME NEW c \in Coupons, ExpireCoupon(c)
        PROVE  Promise!Lapse(c)
    BY <2>3 DEF ExpireCoupon, Promise!Lapse
  <2> QED
    BY <1>2, <2>1, <2>2, <2>3, CommitPromised, PromiseWriters DEF Promise!Next
<1> QED
  BY <1>1, <1>2, SettlementInvariant, PTL DEF Spec, SettlesAtomically, Promise!Spec
=============================================================================
