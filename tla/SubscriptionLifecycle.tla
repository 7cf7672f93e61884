----------------------- MODULE SubscriptionLifecycle -----------------------
(***************************************************************************)
(* The life of one subscription and its main API key: paid orders extend,  *)
(* upgrade and enlarge it while the lifecycle bot renews it from the       *)
(* wallet, rolls its token period over and expires it.                     *)
(*                                                                         *)
(* A paid order is fulfilled from the subscription as it was in the        *)
(* transaction's snapshot; the bot reads it under a row lock.  Both write  *)
(* it under that lock and commit at once, so each write is one step; the   *)
(* snapshot is the step before.  Time is counted in days.                  *)
(***************************************************************************)
EXTENDS Billing

CONSTANTS
  Plans,         \* ids of products rows
  Days,          \* products.period_days
  Quota,         \* products.limit_tokens
  FirstPlan,     \* the product first bought
  FirstQuantity, \* and how many periods of it
  Orders,        \* ids of user_orders rows for this subscription
  Quantities,    \* quantities asked for at checkout
  Workers,       \* HTTP handlers of payment notifications
  Jobs,          \* server processes, each running the bot
  Nobody,        \* "no transaction"
  Lead,          \* autoRenewLeadDays: the bot renews so many days ahead
  Fortune,       \* bound: how many renewals the wallet pays for
  Daily,         \* whether a run of the bot finishes every day
  LastDay,       \* bound: the day the clock stops
  MaxFailures    \* bound: how many transactions and runs fail

ASSUME PlanAssumption == /\ Days \in [Plans -> Nat \ {0}]
                         /\ Quota \in [Plans -> Nat]
                         /\ FirstPlan \in Plans /\ FirstQuantity \in 1 .. MaxQuantity

\* A period is longer than the days the bot renews ahead, and one more. The program does
\* not see to it; the products do: 30 or 365 days against 7.
ASSUME LeadAssumption == \A p \in Plans : Days[p] > Lead + 1

ASSUME QuantityAssumption == Quantities \subseteq 1 .. MaxQuantity

ASSUME BoundAssumption == /\ Lead \in Nat /\ Fortune \in Nat /\ LastDay \in Nat
                          /\ MaxFailures \in Nat /\ Daily \in BOOLEAN

VARIABLES
  day,      \* the clock
  sub,      \* the user_subscriptions row
  key,      \* the main user_api_keys row
  bill,     \* user_orders for the subscription
  purse,    \* how many renewals the wallet still pays for
  charged,  \* history: starts of the periods in which the bot took a renewal
  http,     \* per handler: the order it settles and the subscription it has read
  job,      \* per process: the phase of its run, and the time of its start
  ran,      \* the day the last finished run had started
  failures  \* how many transactions and runs have failed

vars == <<day, sub, key, bill, purse, charged, http, job, ran, failures>>

Sub == [status  : {"active", "expired"},
        plan    : Plans,
        base    : Nat,   \* base_limit_tokens
        limit   : Nat,   \* limit_tokens
        start   : Nat,   \* period_start
        end     : Nat,   \* period_end
        expires : Nat]   \* expires_at

\* A bill is "resolved" while its checkout has read the subscription and not yet
\* written the order.
Bill == [status   : {"none", "resolved", "pending_payment", "completed", "cancelled"},
         kind     : {"renewal", "upgrade", "quota_addon"},
         plan     : Plans,
         quantity : 1 .. MaxQuantity]

NoBill == [status |-> "none", kind |-> "renewal", plan |-> FirstPlan,
           quantity |-> 1]

Session == [order : Orders, sub : Sub, since : 0 .. LastDay]

Phases == {"idle", "auto_renew", "period_reset", "expire"}

TypeOK ==
  /\ day \in 0 .. LastDay
  /\ sub \in Sub
  /\ key \in [status : {"active", "expired"}, limit : Nat]
  /\ bill \in [Orders -> Bill]
  /\ purse \in 0 .. Fortune
  /\ charged \subseteq Nat
  /\ http \in [Workers -> Session \cup {Nobody}]
  /\ job \in [Jobs -> [phase : Phases, now : 0 .. LastDay]]
  /\ ran \in 0 .. LastDay
  /\ failures \in 0 .. MaxFailures

\* The first purchase has just been settled.
Init ==
  LET end   == AddPeriods(0, Days[FirstPlan], FirstQuantity)
      grant == Quota[FirstPlan] * FirstQuantity
  IN  /\ day = 0
      /\ sub = [status |-> "active", plan |-> FirstPlan, base |-> grant,
                limit |-> grant, start |-> 0, end |-> end, expires |-> end]
      /\ key = [status |-> "active", limit |-> grant]
      /\ bill = [o \in Orders |-> NoBill]
      /\ purse = Fortune
      /\ charged = {}
      /\ http = [w \in Workers |-> Nobody]
      /\ job = [j \in Jobs |-> [phase |-> "idle", now |-> 0]]
      /\ ran = 0
      /\ failures = 0

-----------------------------------------------------------------------------
(* Checkout. *)

\* What can be ordered for an active subscription.
Orderable(kind, plan) ==
  /\ sub.status = "active"
  /\ IF kind = "upgrade" THEN plan # sub.plan /\ Quota[plan] > sub.limit
                         ELSE plan = sub.plan

\* An upgrade is charged for every period up to the end of the service.
OrderQuantity(kind, plan, asked) ==
  IF kind = "upgrade"
  THEN CountUpgradeBillingCycles(sub.end, sub.expires, Days[plan])
  ELSE asked

\* The checkout reads the subscription outside any transaction.
Resolve(o, kind, plan, asked) ==
  /\ bill[o].status = "none"
  /\ Orderable(kind, plan)
  /\ bill' = [bill EXCEPT ![o] =
                [status |-> "resolved", kind |-> kind, plan |-> plan,
                 quantity |-> OrderQuantity(kind, plan, asked)]]
  /\ UNCHANGED <<day, sub, key, purse, charged, http, job, ran, failures>>

\* FAULT: the older order stays payable.
Place_KeepsOld(o) ==
  /\ bill[o].status = "resolved"
  /\ bill' = [bill EXCEPT ![o].status = "pending_payment"]
  /\ UNCHANGED <<day, sub, key, purse, charged, http, job, ran, failures>>

\* The new order cancels the unpaid one of its kind.
Place(o) ==
  /\ bill[o].status = "resolved"
  /\ bill' = [p \in Orders |->
       IF p = o THEN [bill[o] EXCEPT !.status = "pending_payment"]
       ELSE IF bill[p].status = "pending_payment" /\ bill[p].kind = bill[o].kind
       THEN [bill[p] EXCEPT !.status = "cancelled"]
       ELSE bill[p]]
  /\ UNCHANGED <<day, sub, key, purse, charged, http, job, ran, failures>>

-----------------------------------------------------------------------------
(* The notification of a paid order. *)

\* The transaction's first read fixes the subscription it will see.
NotifyBegin(w, o) ==
  /\ http[w] = Nobody
  /\ bill[o].status = "pending_payment"
  /\ http' = [http EXCEPT ![w] = [order |-> o, sub |-> sub, since |-> day]]
  /\ UNCHANGED <<day, sub, key, bill, purse, charged, job, ran, failures>>

\* The order, locked, can be settled from what the handler has read.
Settles(w, kind) ==
  /\ http[w] # Nobody
  /\ bill[http[w].order].status = "pending_payment"
  /\ bill[http[w].order].kind = kind

\* A renewal and an add-on want an active subscription, a renewal its product.
Admits(b, s) == /\ b.kind = "renewal" => s.plan = b.plan
                /\ b.kind # "upgrade" => s.status = "active"

\* The order is completed and the session over.
Complete(w) ==
  /\ bill' = [bill EXCEPT ![http[w].order].status = "completed"]
  /\ http' = [http EXCEPT ![w] = Nobody]

\* The later of two days.
Later(a, b) == IF a > b THEN a ELSE b

\* The service is extended from the end the handler has read; keys come alive.
\* now is taken inside the transaction.
Renew(w) ==
  /\ Settles(w, "renewal")
  /\ LET b == bill[http[w].order]
         s == http[w].sub
     IN  /\ Admits(b, s)
         /\ \E now \in http[w].since .. day :
              sub' = [sub EXCEPT !.expires =
                        AddPeriods(Later(s.expires, now), Days[b.plan], b.quantity)]
  /\ key' = [key EXCEPT !.status = "active"]
  /\ Complete(w)
  /\ UNCHANGED <<day, purse, charged, job, ran, failures>>

\* The columns an upgrade writes: product and quota; and, if the handler has read
\* an expired subscription, new dates and the status.
Upgraded(b, s, now) ==
  LET end == AddPeriods(now, Days[b.plan], b.quantity)
  IN  IF s.status = "active"
      THEN [sub EXCEPT !.plan = b.plan, !.base = Quota[b.plan],
                       !.limit = Quota[b.plan]]
      ELSE [status |-> "active", plan |-> b.plan, base |-> Quota[b.plan],
            limit |-> Quota[b.plan], start |-> now, end |-> end, expires |-> end]

Upgrade(w) ==
  /\ Settles(w, "upgrade")
  /\ \E now \in http[w].since .. day :
       sub' = Upgraded(bill[http[w].order], http[w].sub, now)
  /\ key' = [status |-> "active", limit |-> sub'.limit]
  /\ Complete(w)
  /\ UNCHANGED <<day, purse, charged, job, ran, failures>>

\* The limit is raised in the statement itself, whatever the handler has read; the
\* quantity ordered plays no part.
AddQuota(w) ==
  /\ Settles(w, "quota_addon")
  /\ LET b == bill[http[w].order]
     IN  /\ Admits(b, http[w].sub)
         /\ sub' = [sub EXCEPT !.limit = @ + Quota[b.plan]]
         /\ key' = [key EXCEPT !.limit = @ + Quota[b.plan]]
  /\ Complete(w)
  /\ UNCHANGED <<day, purse, charged, job, ran, failures>>

\* The order is no longer pending, or not admitted: rolled back.
NotifyRefused(w) ==
  /\ http[w] # Nobody
  /\ \/ bill[http[w].order].status # "pending_payment"
     \/ ~Admits(bill[http[w].order], http[w].sub)
  /\ http' = [http EXCEPT ![w] = Nobody]
  /\ UNCHANGED <<day, sub, key, bill, purse, charged, job, ran, failures>>

\* A crash or an error; the order stays pending and will be notified again.
NotifyFails(w) ==
  /\ http[w] # Nobody
  /\ failures < MaxFailures
  /\ failures' = failures + 1
  /\ http' = [http EXCEPT ![w] = Nobody]
  /\ UNCHANGED <<day, sub, key, bill, purse, charged, job, ran>>

-----------------------------------------------------------------------------
(* The bot: three phases, all with the time the run began.  A phase reads the  *)
(* subscription under its lock, and leaves it alone unless it is active.       *)

RunBegins(j) ==
  /\ job[j].phase = "idle"
  /\ job' = [job EXCEPT ![j] = [phase |-> "auto_renew", now |-> day]]
  /\ UNCHANGED <<day, sub, key, bill, purse, charged, http, ran, failures>>

\* The run goes on to its next phase.
NextPhase(j, phase) == job' = [job EXCEPT ![j].phase = phase]

\* FAULT: renewed again although it has been extended beyond its period.
RenewalDue_Again(now) ==
  sub.status = "active" /\ now < sub.expires /\ now >= sub.expires - Lead

\* The service ends within Lead days, and has not been extended yet.
RenewalDue(now) ==
  /\ sub.status = "active"
  /\ now < sub.expires /\ now >= sub.expires - Lead
  /\ sub.end = sub.expires

\* The wallet balance covers the price of one period.
PurseCovers == purse > 0

AutoRenew(j) ==
  /\ job[j].phase = "auto_renew"
  /\ IF RenewalDue(job[j].now) /\ PurseCovers
     THEN /\ sub' = [sub EXCEPT !.expires = AddPeriods(@, Days[sub.plan], 1)]
          /\ key' = [key EXCEPT !.status = "active"]
          /\ purse' = purse - 1
          /\ charged' = charged \cup {sub.start}
     ELSE UNCHANGED <<sub, key, purse, charged>>
  /\ NextPhase(j, "period_reset")
  /\ UNCHANGED <<day, bill, http, ran, failures>>

\* FAULT: a whole further period must have been paid.
PeriodOver_WholePeriod(now) ==
  /\ sub.status = "active" /\ now > sub.end
  /\ sub.expires > AddPeriods(sub.end, Days[sub.plan], 1)

\* The token period is over and the service goes on.
PeriodOver(now) ==
  sub.status = "active" /\ now > sub.end /\ sub.expires > sub.end

\* FAULT: the new period begins with the run.
RolledOver_FromNow(now) ==
  [sub EXCEPT !.start = now, !.end = AddPeriods(now, Days[sub.plan], 1),
              !.limit = sub.base]

\* The next period, which begins where the last one ended.
RolledOver(now) ==
  [sub EXCEPT !.start = sub.end, !.end = AddPeriods(sub.end, Days[sub.plan], 1),
              !.limit = sub.base]

PeriodReset(j) ==
  /\ job[j].phase = "period_reset"
  /\ IF PeriodOver(job[j].now)
     THEN /\ sub' = RolledOver(job[j].now)
          /\ key' = [key EXCEPT !.limit = sub.base]
     ELSE UNCHANGED <<sub, key>>
  /\ NextPhase(j, "expire")
  /\ UNCHANGED <<day, bill, purse, charged, http, ran, failures>>

\* FAULT: the end of the token period is taken for the end of the service.
ServiceOver_Period(now) == sub.status = "active" /\ now > sub.end

ServiceOver(now) == sub.status = "active" /\ now > sub.expires

\* Subscription and key expire together; the run is finished.
Expire(j) ==
  /\ job[j].phase = "expire"
  /\ IF ServiceOver(job[j].now)
     THEN /\ sub' = [sub EXCEPT !.status = "expired"]
          /\ key' = [key EXCEPT !.status = "expired"]
     ELSE UNCHANGED <<sub, key>>
  /\ NextPhase(j, "idle")
  /\ ran' = Later(ran, job[j].now)
  /\ UNCHANGED <<day, bill, purse, charged, http, failures>>

\* The handler of a phase returns an error, which is logged, or the subscription was
\* not yet active when the phase listed them: the next phase follows.  Or the list
\* cannot be read, or the process dies: the run ends.
RunFails(j) ==
  /\ job[j].phase # "idle"
  /\ failures < MaxFailures
  /\ failures' = failures + 1
  /\ \/ NextPhase(j, "idle")
     \/ job[j].phase = "auto_renew" /\ NextPhase(j, "period_reset")
     \/ job[j].phase = "period_reset" /\ NextPhase(j, "expire")
  /\ UNCHANGED <<day, sub, key, bill, purse, charged, http, ran>>

\* A day passes.  No transaction stays open for more than one midnight: lock waits
\* are cut off after less than a minute.
Tick ==
  /\ day < LastDay
  /\ \A w \in Workers : http[w] # Nobody => http[w].since = day
  /\ Daily => ran = day
  /\ day' = day + 1
  /\ UNCHANGED <<sub, key, bill, purse, charged, http, job, ran, failures>>

-----------------------------------------------------------------------------
Notify(w) == Renew(w) \/ Upgrade(w) \/ AddQuota(w) \/ NotifyRefused(w)

Run(j) == RunBegins(j) \/ AutoRenew(j) \/ PeriodReset(j) \/ Expire(j)

Next ==
  \/ \E o \in Orders, kind \in {"renewal", "upgrade", "quota_addon"},
        plan \in Plans, asked \in Quantities : Resolve(o, kind, plan, asked)
  \/ \E o \in Orders : Place(o)
  \/ \E w \in Workers, o \in Orders : NotifyBegin(w, o)
  \/ \E w \in Workers : Notify(w) \/ NotifyFails(w)
  \/ \E j \in Jobs : Run(j) \/ RunFails(j)
  \/ Tick

Spec == Init /\ [][Next]_vars

\* The scheduler starts the bot again and again, and a run goes on.
FairSpec == Spec /\ \A j \in Jobs : WF_vars(Run(j))

-----------------------------------------------------------------------------
(* Properties. *)

\* The key's limit is the subscription's, whichever of the five writers came last,
\* and never below the quota of the plan itself.
KeyFollowsLimit == key.limit = sub.limit /\ sub.limit >= sub.base

\* A run of the bot goes by a time that has passed.
RunsHaveBegun == \A j \in Jobs : job[j].now <= day

\* At most one order of a kind can be paid at a time.
OnePendingPerKind ==
  \A o, p \in Orders :
    bill[o].status = "pending_payment" /\ bill[p].status = "pending_payment"
      /\ bill[o].kind = bill[p].kind => o = p

\* A handler has an order that has been placed; and one that has read an expired
\* subscription and can still upgrade it finds it expired.
ExpiredStaysRead ==
  \A w \in Workers : http[w] # Nobody =>
    /\ bill[http[w].order].status \notin {"none", "resolved"}
    /\ bill[http[w].order].status = "pending_payment"
         /\ bill[http[w].order].kind = "upgrade"
         /\ http[w].sub.status = "expired"
       => sub.status = "expired"

\* A transaction is open over one midnight at most.
SessionsShort ==
  \A w \in Workers : http[w] # Nobody =>
    http[w].since <= day /\ day <= http[w].since + 1

\* The period began in the past, before it ends and before the service does; an
\* expired subscription, and one that a handler is about to restart, began earlier
\* than any day that can still be taken for a new beginning.
PeriodBegun ==
  /\ sub.start < sub.end /\ sub.start <= sub.expires /\ sub.start <= day
  /\ sub.status = "expired" => sub.start < day
  /\ \A w \in Workers :
       /\ http[w] # Nobody
       /\ bill[http[w].order].status = "pending_payment"
       /\ bill[http[w].order].kind = "upgrade"
       /\ http[w].sub.status = "expired"
       => sub.start < http[w].since

\* No period to come has been charged for; once the present one has, the service goes
\* on after it, and its end is near.
ChargesBehind ==
  /\ \A c \in charged : c <= sub.start
  /\ sub.start \in charged => sub.end < sub.expires /\ sub.end <= day + Lead

\* The inductive invariant: what a stale handler may still believe, that no second
\* order can prove it wrong, and that what has been charged for stays behind.
LifecycleInv == /\ TypeOK /\ KeyFollowsLimit
                /\ RunsHaveBegun /\ OnePendingPerKind /\ ExpiredStaysRead
                /\ SessionsShort /\ PeriodBegun /\ ChargesBehind

\* A subscription expires, and its key with it, only when its service is over by the
\* clock: an order settled in the middle of a run, or between two phases, saves it.
ExpiresOnlyWhenOver ==
  [][sub.status = "active" /\ sub'.status = "expired"
       => day > sub.expires /\ key'.status = "expired"]_vars

\* Token periods follow one another without gap or overlap, one starts only when
\* the last one is over, and only a restart of an expired service leaves a gap.
PeriodsContiguous ==
  [][sub'.start # sub.start \/ sub'.end # sub.end
       => \/ sub'.start = sub.end /\ day > sub.end /\ sub'.status = "active"
          \/ sub.status = "expired" /\ sub'.status = "active"]_vars

\* The bot charges the wallet at most once in a period, however many processes
\* run it and however often runs are broken off and repeated.
ChargedOncePerPeriod == [][purse' < purse => sub.start \notin charged]_vars

\* A period or a service that is over is noticed: runs that were broken off or
\* left out are made good.
CatchesUp ==
  (sub.status = "active" /\ (day > sub.end \/ day > sub.expires))
    ~> (sub.status = "expired" \/ (day <= sub.end /\ day <= sub.expires))

\* docs/ai-platform-schema.sql:264: a renewal extends expires_at.
RenewalExtends ==
  [][\A o \in Orders :
       bill[o].kind = "renewal" /\ bill[o].status = "pending_payment"
         /\ bill'[o].status = "completed"
       => sub'.expires > sub.expires]_vars

\* api_keys_lifecycle.go:15: when the subscription expires so do its keys.
ExpiredKeysOff == sub.status = "expired" => key.status = "expired"

\* MemberCenterView.vue:1450 says of every active subscription that it is being
\* renewed from the balance: it does not expire while the wallet pays for it.
FundedStaysActive == purse > 0 => sub.status = "active"
=============================================================================
