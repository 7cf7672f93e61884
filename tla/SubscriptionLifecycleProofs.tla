-------------------- MODULE SubscriptionLifecycleProofs --------------------
(***************************************************************************)
(* Proofs about SubscriptionLifecycle for every set of orders, handlers,   *)
(* server processes and plans, and every length of the billing periods.    *)
(***************************************************************************)
EXTENDS SubscriptionLifecycle, SumTheorems, TLAPS

-----------------------------------------------------------------------------
(* Periods. *)

\* The end of some periods is a day.
LEMMA PeriodsNat ==
  ASSUME NEW from \in Nat, NEW days \in Nat, NEW n \in Nat
  PROVE  AddPeriods(from, days, n) \in Nat
<1>1. days * n \in Nat
  OBVIOUS
<1> QED
  BY <1>1 DEF AddPeriods

\* g is the loop of CountUpgradeBillingCycles: what it ends with, from each count on.
Counts(g, end, expires, days) ==
  g = [n \in 1 .. MaxQuantity |->
         IF n < MaxQuantity /\ AddPeriods(end, days, n - 1) < expires
         THEN g[n + 1] ELSE n]

\* The loop stops: there is a first count at which it does.
LEMMA LoopStops ==
  ASSUME NEW end \in Nat, NEW expires \in Nat, NEW days \in Nat
  PROVE  \E c \in 1 .. MaxQuantity :
           /\ c < MaxQuantity => AddPeriods(end, days, c - 1) >= expires
           /\ \A n \in 1 .. MaxQuantity :
                n < c => n < MaxQuantity /\ AddPeriods(end, days, n - 1) < expires
<1> DEFINE Done == {n \in 1 .. MaxQuantity :
                      n < MaxQuantity => AddPeriods(end, days, n - 1) >= expires}
<1>0. MaxQuantity = 99
  BY DEF MaxQuantity
<1>1. MaxQuantity \in Done /\ Done \in SUBSET Nat
  BY <1>0
<1>2. PICK c \in Done : \A n \in Done : c <= n
  <2> HIDE DEF Done
  <2> QED
    BY <1>1, LeastNatural
<1>3. ASSUME NEW n \in 1 .. MaxQuantity, n < c
      PROVE  n < MaxQuantity /\ AddPeriods(end, days, n - 1) < expires
  <2>1. n \notin Done
    BY <1>0, <1>2, <1>3
  <2>2. AddPeriods(end, days, n - 1) \in Nat
    <3>1. n - 1 \in Nat
      BY <1>0
    <3> QED
      BY <3>1, PeriodsNat
  <2> QED
    BY <2>1, <2>2
<1> QED
  BY <1>2, <1>3

\* From every count before it, the loop ends with that one.
LEMMA LoopCounts ==
  ASSUME NEW end \in Nat, NEW expires \in Nat, NEW days \in Nat,
         NEW c \in 1 .. MaxQuantity,
         c < MaxQuantity => AddPeriods(end, days, c - 1) >= expires,
         \A n \in 1 .. MaxQuantity :
           n < c => n < MaxQuantity /\ AddPeriods(end, days, n - 1) < expires
  PROVE  /\ \E g : Counts(g, end, expires, days)
         /\ \A g : Counts(g, end, expires, days) => g[1] = c
<1>0. MaxQuantity = 99
  BY DEF MaxQuantity
<1> DEFINE More(n) == n < MaxQuantity /\ AddPeriods(end, days, n - 1) < expires
<1>c. ~More(c) /\ \A n \in 1 .. MaxQuantity : n < c => More(n)
  <2>1. c - 1 \in Nat
    BY <1>0
  <2>2. AddPeriods(end, days, c - 1) \in Nat
    BY <2>1, PeriodsNat
  <2> QED
    BY <2>2
<1>1. \E g : Counts(g, end, expires, days)
  <2>1. \A n \in 1 .. MaxQuantity : n >= c => ~More(n)
    <3> SUFFICES ASSUME NEW n \in 1 .. MaxQuantity, n > c
                 PROVE  ~More(n)
      BY <1>0, <1>c
    <3>1. PICK a \in Nat, k \in Nat : a = c - 1 /\ n - 1 = a + k
      <4>1. c - 1 \in Nat /\ n - c \in Nat /\ n - 1 = (c - 1) + (n - c)
        BY <1>0
      <4> QED
        BY <4>1
    <3>2. days * (a + k) = days * a + days * k /\ days * k >= 0 /\ days * a \in Nat
      BY <3>1
    <3>3. AddPeriods(end, days, c - 1) >= expires
      BY <1>0
    <3> QED
      BY <1>0, <3>1, <3>2, <3>3 DEF AddPeriods
  <2> DEFINE g == [n \in 1 .. MaxQuantity |-> IF n < c THEN c ELSE n]
  <2>2. \A n \in 1 .. MaxQuantity : n < c => n + 1 \in 1 .. MaxQuantity
    BY <1>0
  <2> HIDE DEF More
  <2>3. \A n \in 1 .. MaxQuantity : g[n] = IF More(n) THEN g[n + 1] ELSE n
    BY <1>0, <1>c, <2>1, <2>2
  <2>4. g = [n \in 1 .. MaxQuantity |-> IF More(n) THEN g[n + 1] ELSE n]
    BY <2>3
  <2> QED
    BY <2>4 DEF Counts, More
<1>2. ASSUME NEW g, Counts(g, end, expires, days)
      PROVE  g[1] = c
  <2> DEFINE Bad == {d \in 0 .. c - 1 : g[c - d] # c}
  <2>0. \A n \in 1 .. MaxQuantity : g[n] = IF More(n) THEN g[n + 1] ELSE n
    BY <1>2 DEF Counts
  <2> HIDE DEF More
  <2>1. ASSUME Bad # {}
        PROVE  FALSE
    <3>1. Bad \in SUBSET Nat
      BY <1>0
    <3>2. PICK d \in Bad : \A m \in Bad : d <= m
      <4> HIDE DEF Bad
      <4> QED
        BY <2>1, <3>1, LeastNatural
    <3>3. d # 0
      BY <1>0, <1>c, <2>0, <3>2
    <3>4. d - 1 \notin Bad /\ d - 1 \in 0 .. c - 1
      BY <1>0, <3>2, <3>3
    <3>5. g[c - (d - 1)] = c
      BY <3>4
    <3>6. c - d \in 1 .. MaxQuantity /\ c - d < c /\ c - (d - 1) = (c - d) + 1
      BY <1>0, <3>2, <3>3
    <3>7. g[c - d] = g[(c - d) + 1]
      BY <1>c, <2>0, <3>6
    <3> QED
      BY <3>2, <3>5, <3>6, <3>7
  <2>2. Bad = {}
    BY <2>1
  <2>3. c - 1 \in 0 .. c - 1 /\ c - (c - 1) = 1
    BY <1>0
  <2>4. g[c - (c - 1)] = c
    BY <2>2, <2>3
  <2> QED
    BY <2>3, <2>4
<1> QED
  BY <1>1, <1>2

\* The loop that counts the periods of an upgrade ends, with the least count, of at
\* most 99, that reaches the end of the service: the buyer pays for all of it and
\* for no period more.
THEOREM UpgradesReachTheEnd ==
  ASSUME NEW end \in Nat, NEW expires \in Nat, NEW days \in Nat
  PROVE  LET c == CountUpgradeBillingCycles(end, expires, days)
         IN  /\ c \in 1 .. MaxQuantity
             /\ c < MaxQuantity => AddPeriods(end, days, c - 1) >= expires
             /\ \A n \in 1 .. MaxQuantity :
                  n < c => AddPeriods(end, days, n - 1) < expires
<1>1. PICK c \in 1 .. MaxQuantity :
        /\ c < MaxQuantity => AddPeriods(end, days, c - 1) >= expires
        /\ \A n \in 1 .. MaxQuantity :
             n < c => n < MaxQuantity /\ AddPeriods(end, days, n - 1) < expires
  BY LoopStops
<1>2. \E g : /\ CountUpgradeBillingCycles(end, expires, days) = g[1]
             /\ g = CHOOSE h : h = [n \in 1 .. MaxQuantity |->
                      IF n < MaxQuantity /\ AddPeriods(end, days, n - 1) < expires
                      THEN h[n + 1] ELSE n]
  BY DEF CountUpgradeBillingCycles
<1>3. \E g : Counts(g, end, expires, days)
              /\ CountUpgradeBillingCycles(end, expires, days) = g[1]
  <2>1. \E g : Counts(g, end, expires, days)
    BY <1>1, LoopCounts
  <2> QED
    BY <1>2, <2>1 DEF Counts
<1>4. CountUpgradeBillingCycles(end, expires, days) = c
  BY <1>1, <1>3, LoopCounts
<1> QED
  BY <1>1, <1>4

\* The later of two days is a day.
LEMMA LaterNat ==
  ASSUME NEW a \in Nat, NEW b \in Nat
  PROVE  Later(a, b) \in Nat /\ Later(a, b) >= a /\ Later(a, b) >= b
BY DEF Later

\* A plan's period is a positive number of days, its quota a number.
LEMMA PlanTypes ==
  ASSUME NEW p \in Plans
  PROVE  Days[p] \in Nat /\ Days[p] > 0 /\ Quota[p] \in Nat
BY PlanAssumption

-----------------------------------------------------------------------------
(* Initial states. *)

\* Every initial state satisfies the invariant.
LEMMA InitInv == Init => LifecycleInv
<1> SUFFICES ASSUME Init
             PROVE  LifecycleInv
  OBVIOUS
<1> DEFINE end   == AddPeriods(0, Days[FirstPlan], FirstQuantity)
           grant == Quota[FirstPlan] * FirstQuantity
<1>1. FirstPlan \in Plans /\ FirstQuantity \in Nat
  BY PlanAssumption DEF MaxQuantity
<1>2. end \in Nat /\ grant \in Nat
  <2>1. Days[FirstPlan] \in Nat /\ Quota[FirstPlan] \in Nat
    BY <1>1, PlanTypes
  <2>2. grant \in Nat
    BY <1>1, <2>1
  <2> QED
    BY <1>1, <2>1, <2>2, PeriodsNat
<1>3. /\ sub = [status |-> "active", plan |-> FirstPlan, base |-> grant,
                limit |-> grant, start |-> 0, end |-> end, expires |-> end]
      /\ key = [status |-> "active", limit |-> grant]
  BY DEF Init
<1> HIDE DEF end, grant
<1>4. sub \in Sub /\ key \in [status : {"active", "expired"}, limit : Nat]
  BY <1>1, <1>2, <1>3 DEF Sub
<1>5. bill \in [Orders -> Bill]
  BY <1>1 DEF Init, Bill, NoBill, MaxQuantity
<1>6. TypeOK
  BY <1>4, <1>5, BoundAssumption DEF Init, TypeOK, Phases
<1>7. KeyFollowsLimit
  BY <1>2, <1>3 DEF KeyFollowsLimit
<1>8. RunsHaveBegun /\ OnePendingPerKind /\ ExpiredStaysRead
  BY DEF Init, RunsHaveBegun, OnePendingPerKind, ExpiredStaysRead, NoBill
<1>9. Days[FirstPlan] \in Nat /\ Days[FirstPlan] > 0 /\ FirstQuantity > 0
  BY <1>1, PlanTypes, PlanAssumption
<1>10. 0 < end
  <2>1. Days[FirstPlan] * FirstQuantity > 0
    BY <1>1, <1>9
  <2> QED
    BY <1>1, <1>9, <2>1 DEF AddPeriods, end
<1>11. SessionsShort /\ PeriodBegun /\ ChargesBehind
  BY <1>2, <1>3, <1>10 DEF Init, SessionsShort, PeriodBegun, ChargesBehind
<1> QED
  BY <1>6, <1>7, <1>8, <1>11 DEF LifecycleInv

-----------------------------------------------------------------------------
(* Types. *)

\* A handler that settles an order has a session and a row to settle.
LEMMA SettlesType ==
  ASSUME TypeOK, NEW w \in Workers, NEW kind, Settles(w, kind)
  PROVE  /\ http[w] \in Session
         /\ http[w].order \in Orders /\ http[w].sub \in Sub
         /\ http[w].since \in Nat
         /\ bill[http[w].order] \in Bill
         /\ bill[http[w].order].status = "pending_payment"
         /\ bill[http[w].order].kind = kind
<1>1. http[w] \in Session
  BY DEF TypeOK, Settles
<1> QED
  BY <1>1, BoundAssumption DEF TypeOK, Settles, Session

\* What completing an order does to the rows and the sessions.
LEMMA CompleteEffect ==
  ASSUME TypeOK, NEW w \in Workers, http[w] \in Session, Complete(w)
  PROVE  /\ bill' \in [Orders -> Bill]
         /\ http' \in [Workers -> Session \cup {Nobody}]
         /\ \A o \in Orders :
              /\ bill'[o].kind = bill[o].kind
              /\ o # http[w].order => bill'[o] = bill[o]
              /\ o = http[w].order => bill'[o].status = "completed"
         /\ \A v \in Workers : http'[v] # Nobody => v # w /\ http'[v] = http[v]
<1>1. http[w].order \in Orders
  BY DEF Session
<1>2. bill' = [bill EXCEPT ![http[w].order].status = "completed"]
      /\ http' = [http EXCEPT ![w] = Nobody]
  BY DEF Complete
<1>3. [bill[http[w].order] EXCEPT !.status = "completed"] \in Bill
  BY <1>1 DEF TypeOK, Bill
<1>4. bill' \in [Orders -> Bill]
  BY <1>1, <1>2, <1>3 DEF TypeOK
<1>5. http' \in [Workers -> Session \cup {Nobody}]
  BY <1>2 DEF TypeOK
<1>6. \A o \in Orders :
        /\ bill'[o].kind = bill[o].kind
        /\ o # http[w].order => bill'[o] = bill[o]
        /\ o = http[w].order => bill'[o].status = "completed"
  BY <1>1, <1>2 DEF TypeOK, Bill
<1>7. \A v \in Workers : http'[v] # Nobody => v # w /\ http'[v] = http[v]
  BY <1>2 DEF TypeOK
<1> QED
  BY <1>4, <1>5, <1>6, <1>7

\* An upgrade writes a row of the table: its limit is its base, and its dates are
\* changed only for a handler that has read an expired subscription.
LEMMA UpgradedRow ==
  ASSUME TypeOK, NEW b \in Bill, NEW s \in Sub, NEW now \in Nat
  PROVE  LET u == Upgraded(b, s, now)
         IN  /\ u \in Sub
             /\ u.limit = u.base
             /\ s.status = "active" => /\ u.status = sub.status
                                       /\ u.start = sub.start /\ u.end = sub.end
             /\ s.status = "expired" => u.status = "active"
<1>1. b.plan \in Plans /\ b.quantity \in Nat
  BY DEF Bill, MaxQuantity
<1>2. Quota[b.plan] \in Nat /\ AddPeriods(now, Days[b.plan], b.quantity) \in Nat
  BY <1>1, PlanTypes, PeriodsNat
<1> DEFINE u == Upgraded(b, s, now)
<1>3. CASE s.status = "active"
  <2>1. u = [sub EXCEPT !.plan = b.plan, !.base = Quota[b.plan],
                        !.limit = Quota[b.plan]]
    BY <1>3 DEF Upgraded
  <2> HIDE DEF u
  <2>2. sub \in Sub
    BY DEF TypeOK
  <2>3. u \in Sub /\ u.limit = u.base /\ u.status = sub.status
        /\ u.start = sub.start /\ u.end = sub.end
    BY <1>1, <1>2, <2>1, <2>2 DEF Sub
  <2> QED
    BY <1>3, <2>3 DEF u
<1>4. CASE s.status = "expired"
  <2>1. u = [status |-> "active", plan |-> b.plan, base |-> Quota[b.plan],
             limit |-> Quota[b.plan], start |-> now,
             end |-> AddPeriods(now, Days[b.plan], b.quantity),
             expires |-> AddPeriods(now, Days[b.plan], b.quantity)]
    BY <1>4 DEF Upgraded
  <2> HIDE DEF u
  <2>2. u \in Sub /\ u.limit = u.base /\ u.status = "active"
    BY <1>1, <1>2, <2>1 DEF Sub
  <2> QED
    BY <1>4, <2>2 DEF u
<1> QED
  BY <1>3, <1>4 DEF Sub

\* So the step of a paid upgrade does.
LEMMA UpgradeEffect ==
  ASSUME TypeOK, NEW w \in Workers, Upgrade(w)
  PROVE  /\ sub' \in Sub
         /\ sub'.limit = sub'.base
         /\ http[w].sub.status = "active" =>
              /\ sub'.status = sub.status
              /\ sub'.start = sub.start /\ sub'.end = sub.end
         /\ http[w].sub.status = "expired" => sub'.status = "active"
         /\ http[w].sub.status \in {"active", "expired"}
<1>1. PICK now \in http[w].since .. day :
        sub' = Upgraded(bill[http[w].order], http[w].sub, now)
  BY DEF Upgrade
<1>2. PICK b \in Bill, s \in Sub : b = bill[http[w].order] /\ s = http[w].sub
  BY SettlesType DEF Upgrade
<1>3. now \in Nat
  BY SettlesType, BoundAssumption DEF Upgrade, TypeOK
<1>4. /\ Upgraded(b, s, now) \in Sub
      /\ Upgraded(b, s, now).limit = Upgraded(b, s, now).base
      /\ s.status = "active" =>
           /\ Upgraded(b, s, now).status = sub.status
           /\ Upgraded(b, s, now).start = sub.start
           /\ Upgraded(b, s, now).end = sub.end
      /\ s.status = "expired" => Upgraded(b, s, now).status = "active"
  BY <1>3, UpgradedRow
<1> QED
  BY <1>1, <1>2, <1>4 DEF Sub

\* A row of a paid renewal, upgrade or add-on is a row of the table.
LEMMA NotifyTypes ==
  ASSUME TypeOK, NEW w \in Workers, Renew(w) \/ Upgrade(w) \/ AddQuota(w)
  PROVE  /\ sub' \in Sub
         /\ key' \in [status : {"active", "expired"}, limit : Nat]
<1>0. sub \in Sub /\ key \in [status : {"active", "expired"}, limit : Nat] /\ day \in Nat
  BY BoundAssumption DEF TypeOK
<1>1. CASE Renew(w)
  <2> DEFINE b == bill[http[w].order]
  <2>1. /\ http[w].since \in Nat /\ b \in Bill
        /\ http[w].sub \in Sub
    BY <1>1, SettlesType DEF Renew
  <2> HIDE DEF b
  <2>2. PICK now \in http[w].since .. day :
          sub' = [sub EXCEPT !.expires =
                    AddPeriods(Later(http[w].sub.expires, now), Days[b.plan], b.quantity)]
    BY <1>1 DEF Renew, b
  <2>3. /\ now \in Nat /\ http[w].sub.expires \in Nat
        /\ b.plan \in Plans /\ b.quantity \in Nat
    BY <1>0, <2>1 DEF Sub, Bill, MaxQuantity
  <2>4. AddPeriods(Later(http[w].sub.expires, now), Days[b.plan], b.quantity) \in Nat
    BY <2>3, PlanTypes, LaterNat, PeriodsNat
  <2>5. sub' \in Sub
    BY <1>0, <2>2, <2>4 DEF Sub
  <2> QED
    BY <1>0, <1>1, <2>5 DEF Renew
<1>2. CASE Upgrade(w)
  <2>1. sub' \in Sub
    BY <1>2, UpgradeEffect
  <2>2. key' = [status |-> "active", limit |-> sub'.limit]
    BY <1>2 DEF Upgrade
  <2> QED
    BY <2>1, <2>2 DEF Sub
<1>3. CASE AddQuota(w)
  <2> DEFINE grant == Quota[bill[http[w].order].plan]
  <2>1. grant \in Nat
    BY <1>3, SettlesType, PlanTypes DEF AddQuota, Bill
  <2>2. /\ sub' = [sub EXCEPT !.limit = @ + grant]
        /\ key' = [key EXCEPT !.limit = @ + grant]
    BY <1>3 DEF AddQuota
  <2> HIDE DEF grant
  <2> QED
    BY <1>0, <2>1, <2>2 DEF Sub
<1> QED
  BY <1>1, <1>2, <1>3

\* Every step keeps the types.
LEMMA TypeNext == TypeOK /\ [Next]_vars => TypeOK'
<1> SUFFICES ASSUME TypeOK, [Next]_vars
             PROVE  TypeOK'
  OBVIOUS
<1> USE BoundAssumption
<1>1. ASSUME NEW o \in Orders, NEW kind \in {"renewal", "upgrade", "quota_addon"},
             NEW plan \in Plans, NEW asked \in Quantities,
             Resolve(o, kind, plan, asked)
      PROVE  TypeOK'
  <2>1. CountUpgradeBillingCycles(sub.end, sub.expires, Days[plan])
          \in 1 .. MaxQuantity
    BY UpgradesReachTheEnd, PlanTypes DEF TypeOK, Sub
  <2>2. OrderQuantity(kind, plan, asked) \in 1 .. MaxQuantity
    BY <2>1, QuantityAssumption DEF OrderQuantity
  <2> DEFINE row == [status |-> "resolved", kind |-> kind, plan |-> plan,
                     quantity |-> OrderQuantity(kind, plan, asked)]
  <2>3. row \in Bill
    BY <2>2 DEF Bill
  <2>4. bill' = [bill EXCEPT ![o] = row]
    BY <1>1 DEF Resolve
  <2> HIDE DEF row
  <2>5. bill' \in [Orders -> Bill]
    BY <2>3, <2>4 DEF TypeOK
  <2> QED
    BY <1>1, <2>5 DEF Resolve, TypeOK
<1>2. ASSUME NEW o \in Orders, Place(o)
      PROVE  TypeOK'
  <2>1. \A p \in Orders : /\ [bill[p] EXCEPT !.status = "cancelled"] \in Bill
                          /\ [bill[p] EXCEPT !.status = "pending_payment"] \in Bill
    BY DEF TypeOK, Bill
  <2>2. bill' \in [Orders -> Bill]
    BY <1>2, <2>1 DEF Place, TypeOK
  <2> QED
    BY <1>2, <2>2 DEF Place, TypeOK
<1>3. ASSUME NEW w \in Workers, NEW o \in Orders, NotifyBegin(w, o)
      PROVE  TypeOK'
  <2>1. [order |-> o, sub |-> sub, since |-> day] \in Session
    BY DEF Session, TypeOK
  <2>2. http' \in [Workers -> Session \cup {Nobody}]
    BY <1>3, <2>1 DEF NotifyBegin, TypeOK
  <2> QED
    BY <1>3, <2>2 DEF NotifyBegin, TypeOK
<1>4. ASSUME NEW w \in Workers, Renew(w) \/ Upgrade(w) \/ AddQuota(w)
      PROVE  TypeOK'
  <2>1. http[w] \in Session /\ Complete(w)
    BY <1>4, SettlesType DEF Renew, Upgrade, AddQuota
  <2>2. /\ bill' \in [Orders -> Bill]
        /\ http' \in [Workers -> Session \cup {Nobody}]
    BY <2>1, CompleteEffect
  <2>3. /\ sub' \in Sub
        /\ key' \in [status : {"active", "expired"}, limit : Nat]
    BY <1>4, NotifyTypes
  <2> QED
    BY <1>4, <2>2, <2>3 DEF Renew, Upgrade, AddQuota, TypeOK
<1>5. ASSUME NEW w \in Workers, NotifyRefused(w) \/ NotifyFails(w)
      PROVE  TypeOK'
  <2>1. http' = [http EXCEPT ![w] = Nobody]
    BY <1>5 DEF NotifyRefused, NotifyFails
  <2>2. http' \in [Workers -> Session \cup {Nobody}]
    BY <2>1 DEF TypeOK
  <2>3. failures' \in 0 .. MaxFailures
    BY <1>5 DEF NotifyRefused, NotifyFails, TypeOK
  <2> QED
    BY <1>5, <2>2, <2>3 DEF NotifyRefused, NotifyFails, TypeOK
<1>6. ASSUME NEW j \in Jobs, RunBegins(j)
      PROVE  TypeOK'
  BY <1>6 DEF RunBegins, TypeOK, Phases
<1>7. ASSUME NEW j \in Jobs, AutoRenew(j)
      PROVE  TypeOK'
  <2>1. sub' \in Sub /\ charged' \subseteq Nat
    <3>1. AddPeriods(sub.expires, Days[sub.plan], 1) \in Nat
      BY PeriodsNat, PlanTypes DEF TypeOK, Sub
    <3> QED
      BY <1>7, <3>1 DEF AutoRenew, TypeOK, Sub
  <2>2. purse' \in 0 .. Fortune
    BY <1>7 DEF AutoRenew, PurseCovers, TypeOK
  <2> QED
    BY <1>7, <2>1, <2>2 DEF AutoRenew, NextPhase, TypeOK, Phases
<1>8. ASSUME NEW j \in Jobs, PeriodReset(j)
      PROVE  TypeOK'
  <2>1. AddPeriods(sub.end, Days[sub.plan], 1) \in Nat
    BY PeriodsNat, PlanTypes DEF TypeOK, Sub
  <2>2. sub' \in Sub /\ key' \in [status : {"active", "expired"}, limit : Nat]
    BY <1>8, <2>1 DEF PeriodReset, RolledOver, TypeOK, Sub
  <2> QED
    BY <1>8, <2>2 DEF PeriodReset, NextPhase, TypeOK, Phases
<1>9. ASSUME NEW j \in Jobs, Expire(j)
      PROVE  TypeOK'
  BY <1>9 DEF Expire, NextPhase, Later, TypeOK, Sub, Phases
<1>10. ASSUME NEW j \in Jobs, RunFails(j)
       PROVE  TypeOK'
  BY <1>10 DEF RunFails, NextPhase, TypeOK, Phases
<1>11. CASE Tick
  BY <1>11 DEF Tick, TypeOK
<1>12. CASE UNCHANGED vars
  BY <1>12 DEF vars, TypeOK
<1> QED
  BY <1>1, <1>2, <1>3, <1>4, <1>5, <1>6, <1>7, <1>8, <1>9, <1>10, <1>11, <1>12
     DEF Next, Notify, Run

-----------------------------------------------------------------------------
(* The invariant. *)

\* What settling an order does to the orders that can be paid, and to the handlers
\* that have read an expired subscription.
LEMMA NotifyInv ==
  ASSUME LifecycleInv, TypeOK', NEW w \in Workers,
         Renew(w) \/ Upgrade(w) \/ AddQuota(w)
  PROVE  OnePendingPerKind' /\ ExpiredStaysRead'
<1>o. PICK o \in Orders : o = http[w].order
  BY SettlesType DEF LifecycleInv, Renew, Upgrade, AddQuota
<1>1. TypeOK /\ http[w] \in Session /\ Complete(w)
      /\ bill[o].status = "pending_payment" /\ bill[o] \in Bill /\ http[w] # Nobody
  BY <1>o, SettlesType DEF LifecycleInv, Renew, Upgrade, AddQuota, Settles
<1>2. /\ \A p \in Orders : /\ bill'[p].kind = bill[p].kind
                           /\ p # o => bill'[p] = bill[p]
                           /\ p = o => bill'[p].status = "completed"
      /\ \A v \in Workers : http'[v] # Nobody => v # w /\ http'[v] = http[v]
  BY <1>o, <1>1, CompleteEffect
<1>3. sub.status = "expired" /\ sub'.status # "expired"
        => bill[o].kind = "upgrade"
  <2>1. CASE Renew(w)
    BY <1>1, <2>1 DEF Renew, TypeOK, Sub
  <2>2. CASE Upgrade(w)
    BY <1>o, <2>2 DEF Upgrade, Settles
  <2>3. CASE AddQuota(w)
    BY <1>1, <2>3 DEF AddQuota, TypeOK, Sub
  <2> QED
    BY <2>1, <2>2, <2>3
<1>4. OnePendingPerKind'
  BY <1>2 DEF LifecycleInv, OnePendingPerKind
<1>5. ASSUME NEW v \in Workers, http'[v] # Nobody
      PROVE  /\ bill'[http'[v].order].status \notin {"none", "resolved"}
             /\ bill'[http'[v].order].status = "pending_payment"
                  /\ bill'[http'[v].order].kind = "upgrade"
                  /\ http'[v].sub.status = "expired"
                => sub'.status = "expired"
  <2>1. v # w /\ http'[v] = http[v] /\ http[v] # Nobody
    BY <1>2, <1>5
  <2>2. PICK p \in Orders : p = http[v].order
    BY <1>1, <2>1 DEF TypeOK, Session
  <2>3. /\ bill[p].status \notin {"none", "resolved"}
        /\ bill[p].status = "pending_payment" /\ bill[p].kind = "upgrade"
             /\ http[v].sub.status = "expired" => sub.status = "expired"
    BY <2>1, <2>2 DEF LifecycleInv, ExpiredStaysRead
  <2>4. CASE p = o
    BY <1>2, <2>1, <2>2, <2>4
  <2>5. CASE p # o
    <3>1. bill'[p] = bill[p]
      BY <1>2, <2>2, <2>5
    <3>2. ~(bill[p].status = "pending_payment" /\ bill[p].kind = "upgrade"
              /\ bill[o].kind = "upgrade")
      BY <1>1, <2>2, <2>5 DEF LifecycleInv, OnePendingPerKind
    <3> QED
      BY <1>3, <2>1, <2>2, <2>3, <3>1, <3>2
  <2> QED
    BY <2>4, <2>5
<1> QED
  BY <1>4, <1>5 DEF ExpiredStaysRead

\* The six writers of the subscription and its key.
LEMMA SubWriters ==
  ASSUME [Next]_vars
  PROVE  \/ \E w \in Workers : Renew(w) \/ Upgrade(w) \/ AddQuota(w)
         \/ \E j \in Jobs : AutoRenew(j) \/ PeriodReset(j) \/ Expire(j)
         \/ UNCHANGED <<sub, key>>
<1>1. ASSUME NEW o \in Orders, NEW kind, NEW plan, NEW asked,
             Resolve(o, kind, plan, asked) \/ Place(o)
      PROVE  UNCHANGED <<sub, key>>
  BY <1>1 DEF Resolve, Place
<1>2. ASSUME NEW w \in Workers, NEW o \in Orders,
             NotifyBegin(w, o)
      PROVE  UNCHANGED <<sub, key>>
  BY <1>2 DEF NotifyBegin
<1>3. ASSUME NEW j \in Jobs, RunBegins(j) \/ RunFails(j)
      PROVE  UNCHANGED <<sub, key>>
  BY <1>3 DEF RunBegins, RunFails
<1>4. Tick \/ UNCHANGED vars => UNCHANGED <<sub, key>>
  BY DEF Tick, vars
<1>5. ASSUME NEW w \in Workers, NotifyRefused(w) \/ NotifyFails(w)
      PROVE  UNCHANGED <<sub, key>>
  BY <1>5 DEF NotifyRefused, NotifyFails
<1>6. CASE Next
  BY <1>1, <1>2, <1>3, <1>4, <1>5, <1>6 DEF Next, Notify, Run
<1> QED
  BY <1>4, <1>6

\* The key follows the limit whoever writes it.
LEMMA KeyNext ==
  ASSUME TypeOK, TypeOK', KeyFollowsLimit, [Next]_vars
  PROVE  KeyFollowsLimit'
<1>0. sub \in Sub /\ key \in [status : {"active", "expired"}, limit : Nat] /\ day \in Nat
  BY BoundAssumption DEF TypeOK
<1>1. ASSUME NEW w \in Workers, Renew(w)
      PROVE  KeyFollowsLimit'
  BY <1>0, <1>1 DEF Renew, KeyFollowsLimit, Sub
<1>2. ASSUME NEW w \in Workers, Upgrade(w)
      PROVE  KeyFollowsLimit'
  <2>1. sub' \in Sub /\ sub'.limit = sub'.base
    BY <1>2, UpgradeEffect
  <2>2. key' = [status |-> "active", limit |-> sub'.limit]
    BY <1>2 DEF Upgrade
  <2> QED
    BY <2>1, <2>2 DEF KeyFollowsLimit, Sub
<1>3. ASSUME NEW w \in Workers, AddQuota(w)
      PROVE  KeyFollowsLimit'
  <2> DEFINE grant == Quota[bill[http[w].order].plan]
  <2>1. grant \in Nat
    BY <1>3, SettlesType, PlanTypes DEF AddQuota, Bill
  <2>2. /\ sub' = [sub EXCEPT !.limit = @ + grant]
        /\ key' = [key EXCEPT !.limit = @ + grant]
    BY <1>3 DEF AddQuota
  <2> HIDE DEF grant
  <2> QED
    BY <1>0, <2>1, <2>2 DEF KeyFollowsLimit, Sub
<1>4. ASSUME NEW j \in Jobs, AutoRenew(j)
      PROVE  KeyFollowsLimit'
  BY <1>0, <1>4 DEF AutoRenew, KeyFollowsLimit, Sub
<1>5. ASSUME NEW j \in Jobs, PeriodReset(j)
      PROVE  KeyFollowsLimit'
  <2>1. CASE PeriodOver(job[j].now)
    <3>1. sub'.limit = sub.base /\ sub'.base = sub.base
      BY <1>0, <1>5, <2>1 DEF PeriodReset, RolledOver, Sub
    <3>2. key'.limit = sub.base
      BY <1>0, <1>5, <2>1 DEF PeriodReset
    <3> QED
      BY <1>0, <3>1, <3>2 DEF KeyFollowsLimit, Sub
  <2>2. CASE ~PeriodOver(job[j].now)
    BY <1>5, <2>2 DEF PeriodReset, KeyFollowsLimit
  <2> QED
    BY <2>1, <2>2
<1>6. ASSUME NEW j \in Jobs, Expire(j)
      PROVE  KeyFollowsLimit'
  BY <1>0, <1>6 DEF Expire, KeyFollowsLimit, Sub
<1>7. CASE UNCHANGED <<sub, key>>
  BY <1>7 DEF KeyFollowsLimit
<1> QED
  BY <1>1, <1>2, <1>3, <1>4, <1>5, <1>6, <1>7, SubWriters

-----------------------------------------------------------------------------
(* What has been charged for. *)

\* A plan's period is longer than the bot looks ahead, and so are several.
LEMMA PeriodsLong ==
  ASSUME NEW from \in Nat, NEW p \in Plans, NEW n \in Nat, n > 0
  PROVE  AddPeriods(from, Days[p], n) > from + Lead + 1
<1>1. Days[p] \in Nat /\ Days[p] > Lead + 1 /\ Lead \in Nat
  BY PlanTypes, LeadAssumption, BoundAssumption
<1>2. Days[p] * n >= Days[p]
  BY <1>1
<1>3. Days[p] * n \in Nat
  BY <1>1
<1> QED
  BY <1>1, <1>2, <1>3 DEF AddPeriods

\* A paid renewal changes the end of the service only, to a day well ahead.
LEMMA RenewDates ==
  ASSUME TypeOK, SessionsShort, NEW w \in Workers, Renew(w)
  PROVE  /\ sub'.start = sub.start /\ sub'.end = sub.end
         /\ sub'.status = sub.status
         /\ sub'.expires \in Nat /\ sub'.expires > day + Lead
<1> DEFINE b == bill[http[w].order]
<1>0. day \in Nat /\ Lead \in Nat /\ sub \in Sub
  BY BoundAssumption DEF TypeOK
<1>1. /\ http[w].since \in Nat /\ b \in Bill /\ http[w].sub \in Sub
      /\ http[w] # Nobody
  BY SettlesType DEF Renew, Settles
<1> HIDE DEF b
<1>2. day <= http[w].since + 1
  BY <1>1 DEF SessionsShort
<1>3. PICK now \in http[w].since .. day :
        sub' = [sub EXCEPT !.expires =
                  AddPeriods(Later(http[w].sub.expires, now), Days[b.plan], b.quantity)]
  BY DEF Renew, b
<1>4. /\ now \in Nat /\ now >= http[w].since /\ http[w].sub.expires \in Nat
      /\ b.plan \in Plans /\ b.quantity \in Nat /\ b.quantity > 0
  BY <1>0, <1>1 DEF Sub, Bill, MaxQuantity
<1>5. PICK from \in Nat : from = Later(http[w].sub.expires, now) /\ from >= now
  BY <1>4, LaterNat
<1>6. PICK end \in Nat : end = AddPeriods(from, Days[b.plan], b.quantity)
  BY <1>4, PlanTypes, PeriodsNat
<1>7. end > from + Lead + 1
  BY <1>4, <1>6, PeriodsLong
<1>8. sub' = [sub EXCEPT !.expires = end]
  BY <1>3, <1>5, <1>6
<1>9. end > day + Lead
  BY <1>0, <1>1, <1>2, <1>4, <1>5, <1>7
<1> QED
  BY <1>0, <1>8, <1>9 DEF Sub

\* A paid upgrade leaves the dates as they are; or it restarts an expired
\* subscription, on a day since its handler has begun.
LEMMA UpgradeDates ==
  ASSUME TypeOK, NEW w \in Workers, Upgrade(w)
  PROVE  \/ /\ http[w].sub.status = "active"
            /\ sub'.start = sub.start /\ sub'.end = sub.end
            /\ sub'.expires = sub.expires /\ sub'.status = sub.status
         \/ /\ http[w].sub.status = "expired"
            /\ sub'.status = "active"
            /\ sub'.start \in http[w].since .. day
            /\ sub'.end > sub'.start /\ sub'.expires = sub'.end
<1> DEFINE b == bill[http[w].order]
           s == http[w].sub
<1>0. day \in Nat /\ Lead \in Nat /\ sub \in Sub
  BY BoundAssumption DEF TypeOK
<1>1. http[w].since \in Nat /\ b \in Bill /\ s \in Sub
  BY SettlesType DEF Upgrade
<1>2. PICK now \in http[w].since .. day : sub' = Upgraded(b, s, now)
  BY DEF Upgrade
<1> HIDE DEF b, s
<1>3. /\ now \in Nat /\ b.plan \in Plans /\ b.quantity \in Nat /\ b.quantity > 0
  BY <1>0, <1>1 DEF Bill, MaxQuantity
<1>4. PICK end \in Nat : end = AddPeriods(now, Days[b.plan], b.quantity)
  BY <1>3, PlanTypes, PeriodsNat
<1>5. end > now
  BY <1>0, <1>3, <1>4, PeriodsLong
<1>6. CASE s.status = "active"
  <2>1. sub' = [sub EXCEPT !.plan = b.plan, !.base = Quota[b.plan],
                           !.limit = Quota[b.plan]]
    BY <1>2, <1>6 DEF Upgraded
  <2>2. /\ sub'.start = sub.start /\ sub'.end = sub.end
        /\ sub'.expires = sub.expires /\ sub'.status = sub.status
    BY <1>0, <2>1 DEF Sub
  <2> QED
    BY <1>6, <2>2 DEF s
<1>7. CASE s.status = "expired"
  <2>1. sub' = [status |-> "active", plan |-> b.plan, base |-> Quota[b.plan],
                limit |-> Quota[b.plan], start |-> now, end |-> end, expires |-> end]
    BY <1>2, <1>4, <1>7 DEF Upgraded
  <2>2. /\ sub'.start = now /\ sub'.end = end /\ sub'.expires = end
        /\ sub'.status = "active"
    BY <2>1
  <2> QED
    BY <1>5, <1>7, <2>2 DEF s
<1> QED
  BY <1>1, <1>6, <1>7 DEF Sub

\* Handlers keep the days they have begun on.
LEMMA SessionsNext ==
  ASSUME TypeOK, SessionsShort, [Next]_vars
  PROVE  SessionsShort'
<1>0. day \in Nat /\ \A w \in Workers : http[w] # Nobody => http[w].since \in Nat
  BY BoundAssumption DEF TypeOK, Session
<1>1. ASSUME NEW w \in Workers, NEW o \in Orders, NotifyBegin(w, o)
      PROVE  SessionsShort'
  <2>1. day' = day /\ \A v \in Workers : v # w => http'[v] = http[v]
    BY <1>1 DEF NotifyBegin, TypeOK
  <2>2. http'[w].since = day
    BY <1>1 DEF NotifyBegin, TypeOK
  <2> QED
    BY <1>0, <2>1, <2>2 DEF SessionsShort
<1>2. ASSUME NEW w \in Workers, Notify(w) \/ NotifyFails(w)
      PROVE  SessionsShort'
  <2>1. day' = day /\ http' = [http EXCEPT ![w] = Nobody]
    BY <1>2 DEF Notify, Renew, Upgrade, AddQuota, Complete, NotifyRefused, NotifyFails
  <2>2. \A v \in Workers : http'[v] # Nobody => http'[v] = http[v]
    BY <2>1 DEF TypeOK
  <2> QED
    BY <2>1, <2>2 DEF SessionsShort
<1>3. ASSUME NEW j \in Jobs, Run(j) \/ RunFails(j)
      PROVE  SessionsShort'
  <2>1. day' = day /\ http' = http
    BY <1>3 DEF Run, RunBegins, AutoRenew, PeriodReset, Expire, RunFails
  <2> QED
    BY <2>1 DEF SessionsShort
<1>4. ASSUME NEW o \in Orders, NEW kind, NEW plan, NEW asked,
             Resolve(o, kind, plan, asked) \/ Place(o)
      PROVE  SessionsShort'
  <2>1. day' = day /\ http' = http
    BY <1>4 DEF Resolve, Place
  <2> QED
    BY <2>1 DEF SessionsShort
<1>5. CASE Tick
  BY <1>0, <1>5 DEF Tick, SessionsShort
<1>6. CASE UNCHANGED vars
  BY <1>6 DEF vars, SessionsShort
<1> QED
  BY <1>1, <1>2, <1>3, <1>4, <1>5, <1>6 DEF Next

\* A handler that can still settle an upgrade has just read the subscription, or could
\* settle it before.
LEMMA UpgradersFrom ==
  ASSUME LifecycleInv, [Next]_vars, NEW v \in Workers, http'[v] # Nobody,
         bill'[http'[v].order].status = "pending_payment",
         bill'[http'[v].order].kind = "upgrade"
  PROVE  \/ /\ http'[v].sub = sub /\ http'[v].since = day
            /\ sub' = sub
         \/ /\ http'[v] = http[v] /\ http[v] # Nobody
            /\ bill[http[v].order].status = "pending_payment"
            /\ bill[http[v].order].kind = "upgrade"
            /\ \A w \in Workers : ~Upgrade(w)
<1> DEFINE Before == /\ http'[v] = http[v] /\ http[v] # Nobody
                     /\ bill[http[v].order].status = "pending_payment"
                     /\ bill[http[v].order].kind = "upgrade"
           Fresh  == /\ http'[v].sub = sub /\ http'[v].since = day
                     /\ sub' = sub
<1>0. TypeOK
  BY DEF LifecycleInv
<1>1. ASSUME NEW o \in Orders, NEW kind, NEW plan, NEW asked,
             Resolve(o, kind, plan, asked) \/ Place(o)
      PROVE  Before
  <2>1. http' = http /\ bill[o].status \in {"none", "resolved"}
    BY <1>1 DEF Resolve, Place
  <2>2. PICK p \in Orders : p = http[v].order
    BY <1>0, <2>1 DEF TypeOK, Session
  <2>3. p # o
    BY <2>1, <2>2 DEF LifecycleInv, ExpiredStaysRead
  <2>4. CASE Resolve(o, kind, plan, asked)
    BY <1>0, <2>1, <2>2, <2>3, <2>4 DEF Resolve, TypeOK
  <2>5. CASE Place(o)
    <3>1. \/ bill'[p] = bill[p]
          \/ bill'[p] = [bill[p] EXCEPT !.status = "cancelled"]
      BY <2>3, <2>5 DEF Place
    <3>2. bill[p] \in Bill
      BY <1>0 DEF TypeOK
    <3>3. bill'[p] = bill[p]
      BY <2>1, <2>2, <3>1, <3>2 DEF Bill
    <3> QED
      BY <2>1, <2>2, <3>3
  <2> QED
    BY <1>1, <2>4, <2>5
<1>2. ASSUME NEW w \in Workers, NEW o \in Orders, NotifyBegin(w, o)
      PROVE  Before \/ Fresh
  <2>1. CASE v = w
    BY <1>0, <1>2, <2>1 DEF NotifyBegin, TypeOK
  <2>2. CASE v # w
    BY <1>0, <1>2, <2>2 DEF NotifyBegin, TypeOK
  <2> QED
    BY <2>1, <2>2
<1>3. ASSUME NEW w \in Workers, Renew(w) \/ Upgrade(w) \/ AddQuota(w)
      PROVE  Before /\ ~Upgrade(w)
  <2>1. /\ http[w] \in Session /\ Complete(w) /\ http[w] # Nobody
        /\ bill[http[w].order].status = "pending_payment"
    BY <1>0, <1>3, SettlesType DEF Renew, Upgrade, AddQuota, Settles
  <2>2. /\ v # w /\ http'[v] = http[v]
        /\ \A p \in Orders :
             /\ bill'[p].kind = bill[p].kind
             /\ p # http[w].order => bill'[p] = bill[p]
             /\ p = http[w].order => bill'[p].status = "completed"
    BY <1>0, <2>1, CompleteEffect
  <2>3. PICK p \in Orders : p = http[v].order
    BY <1>0, <2>2 DEF TypeOK, Session
  <2>4. p # http[w].order /\ bill'[p] = bill[p] /\ Before
    BY <2>2, <2>3
  <2>5. ~Upgrade(w)
    BY <2>1, <2>3, <2>4 DEF Upgrade, Settles, LifecycleInv, OnePendingPerKind, Session
  <2> QED
    BY <2>4, <2>5
<1>4. ASSUME NEW w \in Workers, NotifyRefused(w) \/ NotifyFails(w)
      PROVE  Before
  <2>1. bill' = bill /\ http' = [http EXCEPT ![w] = Nobody]
    BY <1>4 DEF NotifyRefused, NotifyFails
  <2> QED
    BY <1>0, <2>1 DEF TypeOK
<1>5. ASSUME NEW j \in Jobs, Run(j) \/ RunFails(j)
      PROVE  Before
  BY <1>5 DEF Run, RunBegins, AutoRenew, PeriodReset, Expire, RunFails
<1>6. Tick \/ UNCHANGED vars => Before
  BY DEF Tick, vars
<1>7. Before \/ Fresh
  BY <1>1, <1>2, <1>3, <1>4, <1>5, <1>6 DEF Next, Notify
<1>8. \A w \in Workers : ~Upgrade(w)
  BY <1>3
<1> QED
  BY <1>7, <1>8

\* Dates move on, and what has been charged for stays behind them.
LEMMA DatesNext ==
  ASSUME LifecycleInv, TypeOK', [Next]_vars
  PROVE  PeriodBegun' /\ ChargesBehind'
<1>0. /\ TypeOK /\ SessionsShort /\ sub \in Sub /\ day \in Nat /\ Lead \in Nat
      /\ charged \subseteq Nat /\ sub' \in Sub /\ day' \in Nat
      /\ \A j \in Jobs : job[j].now \in Nat /\ job[j].now <= day
  BY BoundAssumption DEF LifecycleInv, TypeOK, RunsHaveBegun
<1>1. /\ sub.start \in Nat /\ sub.end \in Nat /\ sub.expires \in Nat
      /\ sub'.start \in Nat /\ sub'.end \in Nat /\ sub'.expires \in Nat
      /\ sub.status \in {"active", "expired"} /\ sub'.status \in {"active", "expired"}
  BY <1>0 DEF Sub
<1>2. /\ sub.start < sub.end /\ sub.start <= sub.expires /\ sub.start <= day
      /\ sub.status = "expired" => sub.start < day
      /\ \A c \in charged : c <= sub.start
      /\ sub.start \in charged => sub.end < sub.expires /\ sub.end <= day + Lead
  BY DEF LifecycleInv, PeriodBegun, ChargesBehind
<1> DEFINE Row == /\ sub'.start < sub'.end /\ sub'.start <= sub'.expires
                  /\ sub'.start <= day'
                  /\ sub'.status = "expired" => sub'.start < day'
                  /\ \A c \in charged' : c <= sub'.start
                  /\ sub'.start \in charged'
                       => sub'.end < sub'.expires /\ sub'.end <= day' + Lead
           \* Nothing is restarted for an upgrade that is yet to be settled.
           Calm == \/ sub'.start = sub.start
                   \/ sub.status = "active"
                   \/ \E w \in Workers : Upgrade(w)
<1>3. ASSUME Calm
      PROVE  \A v \in Workers :
               /\ http'[v] # Nobody
               /\ bill'[http'[v].order].status = "pending_payment"
               /\ bill'[http'[v].order].kind = "upgrade"
               /\ http'[v].sub.status = "expired"
               => sub'.start < http'[v].since
  <2> SUFFICES ASSUME NEW v \in Workers, http'[v] # Nobody,
                      bill'[http'[v].order].status = "pending_payment",
                      bill'[http'[v].order].kind = "upgrade",
                      http'[v].sub.status = "expired"
               PROVE  sub'.start < http'[v].since
    OBVIOUS
  <2>1. CASE /\ http'[v].sub = sub /\ http'[v].since = day /\ sub' = sub
    BY <1>2, <2>1
  <2>2. CASE /\ http'[v] = http[v] /\ http[v] # Nobody
             /\ bill[http[v].order].status = "pending_payment"
             /\ bill[http[v].order].kind = "upgrade"
             /\ \A w \in Workers : ~Upgrade(w)
    <3>1. sub.status = "expired" /\ sub.start < http[v].since
      BY <2>2 DEF LifecycleInv, ExpiredStaysRead, PeriodBegun
    <3>2. sub'.start = sub.start
      BY <1>3, <2>2, <3>1
    <3> QED
      BY <2>2, <3>1, <3>2
  <2> QED
    BY <2>1, <2>2, UpgradersFrom
<1>4. SUFFICES Row /\ Calm
  BY <1>3 DEF PeriodBegun, ChargesBehind
<1>5. ASSUME UNCHANGED <<sub, charged>>, day' >= day
      PROVE  Row /\ Calm
  BY <1>0, <1>1, <1>2, <1>5
<1>6. ASSUME NEW w \in Workers, Renew(w)
      PROVE  Row /\ Calm
  <2>1. /\ sub'.start = sub.start /\ sub'.end = sub.end /\ sub'.status = sub.status
        /\ sub'.expires > day + Lead /\ day' = day /\ charged' = charged
    BY <1>0, <1>6, RenewDates DEF Renew
  <2> QED
    BY <1>0, <1>1, <1>2, <2>1
<1>7. ASSUME NEW w \in Workers, AddQuota(w)
      PROVE  Row /\ Calm
  <2>1. /\ sub'.start = sub.start /\ sub'.end = sub.end /\ sub'.status = sub.status
        /\ sub'.expires = sub.expires /\ day' = day /\ charged' = charged
    BY <1>0, <1>7 DEF AddQuota, Sub
  <2> QED
    BY <1>0, <1>1, <1>2, <2>1
<1>8. ASSUME NEW w \in Workers, Upgrade(w)
      PROVE  Row /\ Calm
  <2>1. day' = day /\ charged' = charged
    BY <1>8 DEF Upgrade
  <2>2. CASE /\ sub'.start = sub.start /\ sub'.end = sub.end
             /\ sub'.expires = sub.expires /\ sub'.status = sub.status
    BY <1>0, <1>1, <1>2, <2>1, <2>2
  <2>3. CASE /\ http[w].sub.status = "expired" /\ sub'.status = "active"
             /\ sub'.start \in http[w].since .. day
             /\ sub'.end > sub'.start /\ sub'.expires = sub'.end
    <3>1. /\ http[w] # Nobody /\ http[w].since \in Nat
          /\ bill[http[w].order].status = "pending_payment"
          /\ bill[http[w].order].kind = "upgrade"
      BY <1>0, <1>8, SettlesType DEF Upgrade, Settles
    <3>2. sub.start < http[w].since
      BY <2>3, <3>1 DEF LifecycleInv, PeriodBegun
    <3>3. sub.start < sub'.start /\ sub'.start <= day
      BY <1>0, <1>1, <2>3, <3>1, <3>2
    <3>4. \A c \in charged : c < sub'.start
      BY <1>0, <1>1, <1>2, <3>3
    <3>5. Row
      BY <1>0, <1>1, <2>1, <2>3, <3>3, <3>4
    <3> QED
      BY <1>8, <3>5
  <2> QED
    BY <1>0, <1>8, <2>2, <2>3, UpgradeDates
<1>9. ASSUME NEW j \in Jobs, AutoRenew(j)
      PROVE  Row /\ Calm
  <2>1. CASE RenewalDue(job[j].now) /\ PurseCovers
    <3>1. PICK end \in Nat : end = AddPeriods(sub.expires, Days[sub.plan], 1)
      BY <1>0, <1>1, PeriodsNat, PlanTypes DEF Sub
    <3>2. end > sub.expires
      BY <1>0, <1>1, <3>1, PeriodsLong DEF Sub
    <3>3. /\ sub' = [sub EXCEPT !.expires = end]
          /\ charged' = charged \cup {sub.start} /\ day' = day
      BY <1>9, <2>1, <3>1 DEF AutoRenew
    <3>4. /\ sub'.start = sub.start /\ sub'.end = sub.end /\ sub'.status = sub.status
          /\ sub'.expires = end
      BY <1>0, <3>3 DEF Sub
    <3>5. sub.end = sub.expires /\ sub.expires <= job[j].now + Lead
          /\ sub.status = "active"
      BY <1>0, <1>1, <2>1 DEF RenewalDue
    <3>6. sub.end <= day + Lead
      BY <1>0, <1>1, <3>5
    <3> QED
      BY <1>0, <1>1, <1>2, <3>2, <3>3, <3>4, <3>5, <3>6
  <2>2. CASE ~(RenewalDue(job[j].now) /\ PurseCovers)
    <3>1. UNCHANGED <<sub, charged>> /\ day' = day
      BY <1>9, <2>2 DEF AutoRenew
    <3> QED
      BY <1>0, <1>5, <3>1
  <2> QED
    BY <2>1, <2>2
<1>10. ASSUME NEW j \in Jobs, PeriodReset(j)
       PROVE  Row /\ Calm
  <2>1. CASE PeriodOver(job[j].now)
    <3>1. PICK end \in Nat : end = AddPeriods(sub.end, Days[sub.plan], 1)
      BY <1>0, <1>1, PeriodsNat, PlanTypes DEF Sub
    <3>2. end > sub.end
      BY <1>0, <1>1, <3>1, PeriodsLong DEF Sub
    <3>3. /\ sub.status = "active" /\ sub.end < job[j].now /\ sub.expires > sub.end
      BY <1>0, <1>1, <2>1 DEF PeriodOver
    <3>4. /\ sub' = RolledOver(job[j].now) /\ charged' = charged /\ day' = day
      BY <1>10, <2>1 DEF PeriodReset
    <3>5. /\ sub'.start = sub.end /\ sub'.end = end /\ sub'.status = sub.status
          /\ sub'.expires = sub.expires
      BY <1>0, <3>1, <3>4 DEF RolledOver, Sub
    <3>6. \A c \in charged : c < sub'.start
      <4>1. \A c \in charged : c \in Nat /\ c <= sub.start
        BY <1>0, <1>2
      <4>2. sub.start < sub'.start
        BY <1>2, <3>5
      <4> QED
        BY <1>1, <4>1, <4>2
    <3> QED
      BY <1>0, <1>1, <3>2, <3>3, <3>4, <3>5, <3>6
  <2>2. CASE ~PeriodOver(job[j].now)
    <3>1. UNCHANGED <<sub, charged>> /\ day' = day
      BY <1>10, <2>2 DEF PeriodReset
    <3> QED
      BY <1>0, <1>5, <3>1
  <2> QED
    BY <2>1, <2>2
<1>11. ASSUME NEW j \in Jobs, Expire(j)
       PROVE  Row /\ Calm
  <2>1. CASE ServiceOver(job[j].now)
    <3>1. sub.status = "active" /\ job[j].now > sub.expires
      BY <2>1 DEF ServiceOver
    <3>2. /\ sub'.start = sub.start /\ sub'.end = sub.end
          /\ sub'.expires = sub.expires /\ charged' = charged /\ day' = day
      BY <1>0, <1>11, <2>1 DEF Expire, Sub
    <3> QED
      BY <1>0, <1>1, <1>2, <3>1, <3>2
  <2>2. CASE ~ServiceOver(job[j].now)
    <3>1. UNCHANGED <<sub, charged>> /\ day' = day
      BY <1>11, <2>2 DEF Expire
    <3> QED
      BY <1>0, <1>5, <3>1
  <2> QED
    BY <2>1, <2>2
<1>12. ASSUME NEW w \in Workers, NotifyRefused(w) \/ NotifyFails(w)
       PROVE  Row /\ Calm
  <2>1. UNCHANGED <<sub, charged>> /\ day' = day
    BY <1>12 DEF NotifyRefused, NotifyFails
  <2>2. day' >= day
    BY <1>0, <2>1
  <2> QED
    BY <1>5, <2>1, <2>2
<1>13. ASSUME NEW w \in Workers, NEW o \in Orders, NotifyBegin(w, o)
       PROVE  Row /\ Calm
  <2>1. UNCHANGED <<sub, charged>> /\ day' = day
    BY <1>13 DEF NotifyBegin
  <2> QED
    BY <1>0, <1>5, <2>1
<1>14. ASSUME NEW o \in Orders, NEW kind, NEW plan, NEW asked,
              Resolve(o, kind, plan, asked) \/ Place(o)
       PROVE  Row /\ Calm
  <2>1. UNCHANGED <<sub, charged>> /\ day' = day
    BY <1>14 DEF Resolve, Place
  <2> QED
    BY <1>0, <1>5, <2>1
<1>15. ASSUME NEW j \in Jobs, RunBegins(j) \/ RunFails(j)
       PROVE  Row /\ Calm
  <2>1. UNCHANGED <<sub, charged>> /\ day' = day
    BY <1>15 DEF RunBegins, RunFails
  <2> QED
    BY <1>0, <1>5, <2>1
<1>16. ASSUME Tick \/ UNCHANGED vars
       PROVE  Row /\ Calm
  <2>1. UNCHANGED <<sub, charged>> /\ day' >= day
    BY <1>0, <1>16 DEF Tick, vars
  <2> QED
    BY <1>5, <2>1
<1> HIDE DEF Row, Calm
<1> QED
  BY <1>6, <1>7, <1>8, <1>9, <1>10, <1>11, <1>12, <1>13, <1>14, <1>15, <1>16
     DEF Next, Notify, Run

\* Every step keeps the invariant.
LEMMA NextInv == LifecycleInv /\ [Next]_vars => LifecycleInv'
<1> SUFFICES ASSUME LifecycleInv, [Next]_vars
             PROVE  LifecycleInv'
  OBVIOUS
<1>1. TypeOK /\ TypeOK'
  BY TypeNext DEF LifecycleInv
<1>2. KeyFollowsLimit'
  BY <1>1, KeyNext DEF LifecycleInv
<1>c. SessionsShort' /\ PeriodBegun' /\ ChargesBehind'
  BY <1>1, SessionsNext, DatesNext DEF LifecycleInv
<1>3. SUFFICES RunsHaveBegun' /\ OnePendingPerKind' /\ ExpiredStaysRead'
  BY <1>1, <1>2, <1>c DEF LifecycleInv
<1>4. day \in Nat /\ \A j \in Jobs : job[j].now \in Nat
  BY <1>1, BoundAssumption DEF TypeOK
<1>5. ASSUME NEW o \in Orders, NEW kind, NEW plan, NEW asked,
             Resolve(o, kind, plan, asked)
      PROVE  RunsHaveBegun' /\ OnePendingPerKind' /\ ExpiredStaysRead'
  <2>1. /\ bill[o].status = "none" /\ bill'[o].status = "resolved"
        /\ \A p \in Orders : p # o => bill'[p] = bill[p]
    BY <1>1, <1>5 DEF Resolve, TypeOK
  <2>2. \A w \in Workers : http[w] # Nobody =>
          http[w].order \in Orders /\ http[w].order # o
    BY <1>1, <2>1 DEF LifecycleInv, ExpiredStaysRead, TypeOK, Session
  <2>3. RunsHaveBegun' /\ http' = http /\ sub' = sub
    BY <1>5 DEF Resolve, LifecycleInv, RunsHaveBegun
  <2>4. OnePendingPerKind'
    BY <2>1 DEF LifecycleInv, OnePendingPerKind
  <2>5. ExpiredStaysRead'
    BY <2>1, <2>2, <2>3 DEF LifecycleInv, ExpiredStaysRead
  <2> QED
    BY <2>3, <2>4, <2>5
<1>6. ASSUME NEW o \in Orders, Place(o)
      PROVE  RunsHaveBegun' /\ OnePendingPerKind' /\ ExpiredStaysRead'
  <2>1. /\ bill[o].status = "resolved"
        /\ \A p \in Orders :
             /\ bill'[p].kind = bill[p].kind
             /\ bill'[p].status = "pending_payment" =>
                  \/ p = o
                  \/ bill[p].status = "pending_payment" /\ bill[p].kind # bill[o].kind
             /\ p # o => bill'[p].status \in {bill[p].status, "cancelled"}
    BY <1>1, <1>6 DEF Place, TypeOK, Bill
  <2>2. \A w \in Workers : http[w] # Nobody =>
          http[w].order \in Orders /\ http[w].order # o
    BY <1>1, <2>1 DEF LifecycleInv, ExpiredStaysRead, TypeOK, Session
  <2>3. RunsHaveBegun' /\ http' = http /\ sub' = sub
    BY <1>6 DEF Place, LifecycleInv, RunsHaveBegun
  <2>4. OnePendingPerKind'
    BY <2>1 DEF LifecycleInv, OnePendingPerKind
  <2>5. ExpiredStaysRead'
    BY <2>1, <2>2, <2>3 DEF LifecycleInv, ExpiredStaysRead
  <2> QED
    BY <2>3, <2>4, <2>5
<1>7. ASSUME NEW w \in Workers, NEW o \in Orders, NotifyBegin(w, o)
      PROVE  RunsHaveBegun' /\ OnePendingPerKind' /\ ExpiredStaysRead'
  <2>1. RunsHaveBegun' /\ OnePendingPerKind' /\ bill' = bill /\ sub' = sub
    BY <1>7 DEF NotifyBegin, LifecycleInv, RunsHaveBegun, OnePendingPerKind
  <2>2. /\ bill[o].status = "pending_payment"
        /\ \A v \in Workers : v # w => http'[v] = http[v]
        /\ http'[w].order = o /\ http'[w].sub = sub
    BY <1>1, <1>7 DEF NotifyBegin, TypeOK
  <2> QED
    BY <2>1, <2>2 DEF LifecycleInv, ExpiredStaysRead
<1>8. ASSUME NEW w \in Workers, Renew(w) \/ Upgrade(w) \/ AddQuota(w)
      PROVE  RunsHaveBegun' /\ OnePendingPerKind' /\ ExpiredStaysRead'
  <2>1. RunsHaveBegun'
    BY <1>8 DEF Renew, Upgrade, AddQuota, LifecycleInv, RunsHaveBegun
  <2> QED
    BY <1>1, <1>8, <2>1, NotifyInv
<1>9. ASSUME NEW w \in Workers, NotifyRefused(w) \/ NotifyFails(w)
      PROVE  RunsHaveBegun' /\ OnePendingPerKind' /\ ExpiredStaysRead'
  <2>1. RunsHaveBegun' /\ OnePendingPerKind' /\ bill' = bill /\ sub' = sub
    BY <1>9 DEF NotifyRefused, NotifyFails, LifecycleInv, RunsHaveBegun,
                OnePendingPerKind
  <2>2. \A v \in Workers : http'[v] # Nobody => http'[v] = http[v]
    BY <1>1, <1>9 DEF NotifyRefused, NotifyFails, TypeOK
  <2> QED
    BY <2>1, <2>2 DEF LifecycleInv, ExpiredStaysRead
<1>10. ASSUME NEW j \in Jobs, AutoRenew(j) \/ PeriodReset(j) \/ Expire(j)
       PROVE  RunsHaveBegun' /\ OnePendingPerKind' /\ ExpiredStaysRead'
  <2>1. /\ bill' = bill /\ http' = http /\ day' = day
        /\ \E phase : NextPhase(j, phase)
    BY <1>10 DEF AutoRenew, PeriodReset, Expire
  <2>2. \A i \in Jobs : job'[i].now = job[i].now
    BY <1>1, <2>1 DEF NextPhase, TypeOK
  <2>3. sub.status = "expired" => sub'.status = "expired"
    <3>1. CASE AutoRenew(j)
      BY <3>1 DEF AutoRenew, RenewalDue
    <3>2. CASE PeriodReset(j)
      BY <3>2 DEF PeriodReset, PeriodOver
    <3>3. CASE Expire(j)
      BY <3>3 DEF Expire, ServiceOver
    <3> QED
      BY <1>10, <3>1, <3>2, <3>3
  <2> QED
    BY <2>1, <2>2, <2>3 DEF LifecycleInv, RunsHaveBegun, OnePendingPerKind,
                            ExpiredStaysRead
<1>11. ASSUME NEW j \in Jobs, RunBegins(j) \/ RunFails(j)
       PROVE  RunsHaveBegun' /\ OnePendingPerKind' /\ ExpiredStaysRead'
  <2>1. /\ bill' = bill /\ http' = http /\ sub' = sub /\ day' = day
        /\ \A i \in Jobs : job'[i].now = job[i].now \/ job'[i].now = day
    BY <1>1, <1>11 DEF RunBegins, RunFails, NextPhase, TypeOK
  <2> QED
    BY <1>4, <2>1 DEF LifecycleInv, RunsHaveBegun, OnePendingPerKind, ExpiredStaysRead
<1>12. CASE Tick
  BY <1>4, <1>12 DEF Tick, LifecycleInv, RunsHaveBegun, OnePendingPerKind,
                     ExpiredStaysRead
<1>13. CASE UNCHANGED vars
  BY <1>13 DEF vars, LifecycleInv, RunsHaveBegun, OnePendingPerKind, ExpiredStaysRead
<1> QED
  BY <1>5, <1>6, <1>7, <1>8, <1>9, <1>10, <1>11, <1>12, <1>13
     DEF Next, Notify, Run

-----------------------------------------------------------------------------
(* Theorems. *)

\* The invariant holds in every reachable state.
THEOREM LifecycleInvariant == Spec => []LifecycleInv
<1>1. Init => LifecycleInv
  BY InitInv
<1>2. LifecycleInv /\ [Next]_vars => LifecycleInv'
  BY NextInv
<1> QED
  BY <1>1, <1>2, PTL DEF Spec

\* Every variable keeps its type: periods, limits and clocks are never negative, and
\* the bot never spends what the wallet does not hold.
THEOREM LifecycleTyped == Spec => []TypeOK
<1>1. LifecycleInv => TypeOK
  BY DEF LifecycleInv
<1> QED
  BY <1>1, LifecycleInvariant, PTL

\* The main key's limit is the subscription's after every one of the writers.
THEOREM KeysFollow == Spec => []KeyFollowsLimit
<1>1. LifecycleInv => KeyFollowsLimit
  BY DEF LifecycleInv
<1> QED
  BY <1>1, LifecycleInvariant, PTL

\* A subscription expires only when its service is over by the clock, and its key
\* with it.
THEOREM ExpiryIsDue == Spec => ExpiresOnlyWhenOver
<1>1. ASSUME LifecycleInv, [Next]_vars, sub.status = "active", sub'.status = "expired"
      PROVE  day > sub.expires /\ key'.status = "expired"
  <2>0. TypeOK /\ sub \in Sub /\ day \in Nat
    BY <1>1, BoundAssumption DEF LifecycleInv, TypeOK
  <2>1. ASSUME NEW w \in Workers, Renew(w) \/ Upgrade(w) \/ AddQuota(w)
        PROVE  sub'.status # "expired"
    <3>1. CASE Renew(w)
      BY <1>1, <2>0, <3>1 DEF Renew, Sub
    <3>2. CASE Upgrade(w)
      BY <1>1, <2>0, <3>2, UpgradeEffect
    <3>3. CASE AddQuota(w)
      BY <1>1, <2>0, <3>3 DEF AddQuota, Sub
    <3> QED
      BY <2>1, <3>1, <3>2, <3>3
  <2>2. ASSUME NEW j \in Jobs, AutoRenew(j) \/ PeriodReset(j)
        PROVE  sub'.status # "expired"
    BY <1>1, <2>0, <2>2 DEF AutoRenew, PeriodReset, RolledOver, Sub
  <2>3. ASSUME NEW j \in Jobs, Expire(j)
        PROVE  day > sub.expires /\ key'.status = "expired"
    <3>1. ServiceOver(job[j].now)
      BY <1>1, <2>3 DEF Expire
    <3>2. job[j].now > sub.expires /\ job[j].now <= day /\ job[j].now \in Nat
      BY <1>1, <2>0, <3>1, BoundAssumption
         DEF ServiceOver, LifecycleInv, RunsHaveBegun, TypeOK
    <3>3. key'.status = "expired"
      BY <2>0, <2>3, <3>1 DEF Expire, TypeOK
    <3> QED
      BY <2>0, <3>2, <3>3 DEF Sub
  <2>4. sub' # sub
    BY <1>1
  <2> QED
    BY <1>1, <2>1, <2>2, <2>3, <2>4, SubWriters
<1>2. LifecycleInv /\ [Next]_vars
        => [sub.status = "active" /\ sub'.status = "expired"
              => day > sub.expires /\ key'.status = "expired"]_vars
  BY <1>1
<1> QED
  BY <1>2, LifecycleInvariant, PTL DEF Spec, ExpiresOnlyWhenOver

\* Token periods follow one another: the dates move on only when the period is over,
\* from where it ended, or anew when an expired subscription is upgraded; no stale
\* handler moves the dates of an active one.
THEOREM PeriodsFollow == Spec => PeriodsContiguous
<1>1. ASSUME LifecycleInv, [Next]_vars,
             sub'.start # sub.start \/ sub'.end # sub.end
      PROVE  \/ sub'.start = sub.end /\ day > sub.end /\ sub'.status = "active"
             \/ sub.status = "expired" /\ sub'.status = "active"
  <2>0. TypeOK /\ sub \in Sub /\ day \in Nat
    BY <1>1, BoundAssumption DEF LifecycleInv, TypeOK
  <2>1. ASSUME NEW w \in Workers, Renew(w) \/ AddQuota(w)
        PROVE  FALSE
    <3>1. CASE Renew(w)
      BY <1>1, <2>0, <3>1 DEF Renew, Sub
    <3>2. CASE AddQuota(w)
      BY <1>1, <2>0, <3>2 DEF AddQuota, Sub
    <3> QED
      BY <2>1, <3>1, <3>2
  <2>2. ASSUME NEW w \in Workers, Upgrade(w)
        PROVE  sub.status = "expired" /\ sub'.status = "active"
    <3>1. /\ bill[http[w].order].status = "pending_payment"
          /\ bill[http[w].order].kind = "upgrade"
      BY <2>0, <2>2, SettlesType DEF Upgrade
    <3>2. http[w].sub.status = "expired" /\ sub'.status = "active"
      BY <1>1, <2>0, <2>2, UpgradeEffect
    <3>3. sub.status = "expired"
      BY <1>1, <2>2, <3>1, <3>2 DEF LifecycleInv, ExpiredStaysRead, Upgrade, Settles
    <3> QED
      BY <3>2, <3>3
  <2>3. ASSUME NEW j \in Jobs, AutoRenew(j) \/ Expire(j)
        PROVE  FALSE
    BY <1>1, <2>0, <2>3 DEF AutoRenew, Expire, Sub
  <2>4. ASSUME NEW j \in Jobs, PeriodReset(j)
        PROVE  sub'.start = sub.end /\ day > sub.end /\ sub'.status = "active"
    <3>1. PeriodOver(job[j].now)
      BY <1>1, <2>4 DEF PeriodReset
    <3>2. job[j].now > sub.end /\ job[j].now <= day /\ job[j].now \in Nat
      BY <1>1, <2>0, <3>1, BoundAssumption
         DEF PeriodOver, LifecycleInv, RunsHaveBegun, TypeOK
    <3>3. sub.status = "active" /\ sub' = RolledOver(job[j].now)
      BY <2>4, <3>1 DEF PeriodReset, PeriodOver
    <3>4. sub'.start = sub.end /\ sub'.status = "active"
      BY <2>0, <3>3 DEF RolledOver, Sub
    <3> QED
      BY <2>0, <3>2, <3>4 DEF Sub
  <2>5. sub' # sub
    BY <1>1
  <2> QED
    BY <1>1, <2>1, <2>2, <2>3, <2>4, <2>5, SubWriters
<1>2. LifecycleInv /\ [Next]_vars
        => [sub'.start # sub.start \/ sub'.end # sub.end
              => \/ sub'.start = sub.end /\ day > sub.end /\ sub'.status = "active"
                 \/ sub.status = "expired" /\ sub'.status = "active"]_vars
  BY <1>1
<1> QED
  BY <1>2, LifecycleInvariant, PTL DEF Spec, PeriodsContiguous

\* The bot takes at most one renewal from the wallet in a period, whatever runs overlap
\* or are repeated and whatever stale handlers write meanwhile: once a period has been
\* charged for the service goes on beyond its end, and stays so.
THEOREM PeriodsChargedOnce == Spec => ChargedOncePerPeriod
<1>1. ASSUME LifecycleInv, [Next]_vars, purse' < purse
      PROVE  sub.start \notin charged
  <2>0. TypeOK /\ sub \in Sub /\ purse \in Nat
    BY <1>1, BoundAssumption DEF LifecycleInv, TypeOK
  <2>1. purse' # purse
    BY <1>1, <2>0
  <2>2. PICK j \in Jobs : AutoRenew(j)
    BY <1>1, <2>1 DEF Next, Resolve, Place, NotifyBegin, Notify, Renew, Upgrade,
                      AddQuota, NotifyRefused, NotifyFails, Run, RunBegins,
                      PeriodReset, Expire, RunFails, Tick, vars
  <2>3. sub.end = sub.expires
    BY <2>1, <2>2 DEF AutoRenew, RenewalDue
  <2> QED
    BY <1>1, <2>0, <2>3 DEF LifecycleInv, ChargesBehind, Sub
<1>2. LifecycleInv /\ [Next]_vars => [purse' < purse => sub.start \notin charged]_vars
  BY <1>1
<1> QED
  BY <1>2, LifecycleInvariant, PTL DEF Spec, ChargedOncePerPeriod
=============================================================================
