------------------------------ MODULE TeamKeys ------------------------------
(***************************************************************************)
(* A team: the members an owner adds, and the sub keys of one subscription *)
(* that he hands out to them.                                              *)
(*                                                                         *)
(* A request reads, decides and writes without a lock.  Creating a sub key *)
(* and changing its limit are transactions that hold one connection and    *)
(* make all checks but one on a second connection from the pool.  The      *)
(* subscription is meanwhile changed by paid orders and by the bot, each   *)
(* in one locked transaction.                                              *)
(***************************************************************************)
EXTENDS Integers, FiniteSets, Functions

CONSTANTS
  Users,      \* ids of users rows
  Nobody,     \* parent_user_id = 0
  Parent,     \* users.parent_user_id, written once, at registration
  Owner,      \* user_id of the subscription
  MaxKeys,    \* bound: how many sub keys are created
  NoKey,      \* no row has been inserted for an id
  Workers,    \* HTTP handlers
  Pool,       \* max_open_conn
  Quota,      \* limit_tokens of the products the subscription may be upgraded to
  Addon,      \* limit_tokens of the product added
  Limits,     \* the limits owners ask for
  MaxOrders   \* bound: how many orders are settled

ASSUME UserAssumption == /\ Owner \in Users /\ Nobody \notin Users
                         /\ Parent \in [Users -> Users \cup {Nobody}]

ASSUME KeyAssumption == NoKey \notin Nat /\ NoKey \notin [user : Users, owner : Users,
                                        limit : Nat, status : {"active", "expired"}]

ASSUME LimitAssumption == /\ Quota \subseteq Nat /\ Quota # {}
                          /\ Limits \subseteq Nat /\ Addon \in Nat

\* database/sql takes a max_open_conn of 0 for no bound at all.
ASSUME PoolAssumption == Pool \in Nat \ {0}

ASSUME BoundAssumption == MaxOrders \in Nat /\ MaxKeys \in Nat

\* Ids of user_api_keys rows of type sub, given in order.
Keys == 1 .. MaxKeys

VARIABLES
  sub,       \* the user_subscriptions row
  keys,      \* user_api_keys: the sub keys of the subscription
  teams,     \* enterprise_users: pairs of owner and member
  http,      \* per handler: the request it serves
  orders     \* how many orders have been settled

vars == <<sub, keys, teams, http, orders>>

Key == [user : Users, owner : Users, limit : Nat, status : {"active", "expired"}]

Phases == {"idle",
           "find_member", "find_duplicate", "sum_create", "insert_key",
           "find_key", "find_sub", "sum_update", "update_key",
           "insert_member"}

\* fresh is history: no other step has written since the request began.
Idle == [phase |-> "idle", user |-> Owner, key |-> NoKey, limit |-> 0,
         room |-> 0, head |-> Owner, fresh |-> TRUE]

Session == [phase : Phases,
            user  : Users,           \* whom the request is about
            key   : Keys \cup {NoKey},
            limit : Nat,             \* the limit asked for
            room  : Nat,             \* limit_tokens of the subscription, as read
            head  : Users,           \* owner_user_id of the new key
            fresh : BOOLEAN]

TypeOK ==
  /\ sub \in [status : {"active", "expired"}, base : Nat, limit : Nat]
  /\ keys \in [Keys -> Key \cup {NoKey}]
  /\ teams \subseteq Users \X Users
  /\ http \in [Workers -> Session]
  /\ orders \in 0 .. MaxOrders

Init ==
  /\ \E q \in Quota : sub = [status |-> "active", base |-> q, limit |-> q]
  /\ keys = [k \in Keys |-> NoKey]
  /\ teams = {}
  /\ http = [w \in Workers |-> Idle]
  /\ orders = 0

-----------------------------------------------------------------------------
(* Connections and sessions. *)

Transactional == {"find_member", "find_duplicate", "sum_create", "insert_key",
                  "find_key", "find_sub", "sum_update", "update_key"}

\* The steps on a connection from the pool, a transaction's second one.
Wanting == {"find_member", "find_duplicate", "sum_create", "find_key", "sum_update",
            "insert_member"}

Holders == {w \in Workers : http[w].phase \in Transactional}

\* A transaction keeps its connection; the pool lends another one.
Spare == Cardinality(Holders) < Pool

\* The handler goes on.
Goto(w, phase) == http' = [http EXCEPT ![w].phase = phase]

\* The request is answered with an error, a transaction rolled back.
Refuse(w) == http' = [http EXCEPT ![w] = Idle]

\* The request is answered after its write; what others have read is old now.
Done(w) == http' = [v \in Workers |->
                      IF v = w \/ http[v].phase = "idle" THEN Idle
                      ELSE [http[v] EXCEPT !.fresh = FALSE]]

\* An order or the bot has written.
Outdate == http' = [v \in Workers |-> IF http[v].phase = "idle" THEN Idle
                                      ELSE [http[v] EXCEPT !.fresh = FALSE]]

At(w, phase) == http[w].phase = phase

Begin(w, session) == /\ At(w, "idle") /\ Spare
                     /\ http' = [http EXCEPT ![w] = session]

-----------------------------------------------------------------------------
(* CreateSubKey. *)

\* FAULT: owner and member are taken for each other.
Heads_Swapped == LET below == {t[2] : t \in {t \in teams : t[1] = Owner}}
                 IN  IF below = {} THEN {Owner} ELSE below

\* Whom a new key of the owner belongs to: the head of the team the owner is
\* himself a member of, or the owner.
Heads == LET above == {t[1] : t \in {t \in teams : t[2] = Owner}}
         IN  IF above = {} THEN {Owner} ELSE above

\* Bound: there is an id for every key being created.
IdLeft == Cardinality({v \in Workers : http[v].phase \in
                         {"find_member", "find_duplicate", "sum_create", "insert_key"}})
            < Cardinality({k \in Keys : keys[k] = NoKey})

\* The first read fixes the snapshot, from which the head is read later.
CreateBegin(w, u, n) ==
  /\ IdLeft
  /\ sub.status = "active"
  /\ \E h \in Heads :
       Begin(w, [Idle EXCEPT !.phase = "find_member", !.user = u, !.limit = n,
                             !.room = sub.limit, !.head = h])
  /\ UNCHANGED <<sub, keys, teams, orders>>

\* FAULT: any user will do.
FindMember_Anyone(w) ==
  /\ At(w, "find_member") /\ Spare
  /\ Goto(w, "find_duplicate")
  /\ UNCHANGED <<sub, keys, teams, orders>>

FindMember(w) ==
  /\ At(w, "find_member") /\ Spare
  /\ IF <<Owner, http[w].user>> \in teams THEN Goto(w, "find_duplicate")
                                          ELSE Refuse(w)
  /\ UNCHANGED <<sub, keys, teams, orders>>

Held(u) == {k \in Keys : /\ keys[k] # NoKey
                         /\ keys[k].user = u /\ keys[k].status = "active"}

FindDuplicate(w) ==
  /\ At(w, "find_duplicate") /\ Spare
  /\ IF Held(http[w].user) = {} THEN Goto(w, "sum_create") ELSE Refuse(w)
  /\ UNCHANGED <<sub, keys, teams, orders>>

\* The limits of the rows there are.
LimitTokens == [k \in Keys |-> IF keys[k] = NoKey THEN 0 ELSE keys[k].limit]

\* FAULT: expired keys are not counted.
SubLimits_ActiveOnly(except) ==
  SumFunctionOnSet(LimitTokens,
    {k \in Keys \ {except} : keys[k] # NoKey /\ keys[k].status = "active"})

\* The limits of all sub keys but one; an expired key counts.
SubLimits(except) == SumFunctionOnSet(LimitTokens, Keys \ {except})

\* What the other keys have and what is asked for fit in the subscription.
Sum(w, here, next) ==
  /\ At(w, here) /\ Spare
  /\ IF SubLimits(http[w].key) + http[w].limit <= http[w].room
     THEN Goto(w, next) ELSE Refuse(w)
  /\ UNCHANGED <<sub, keys, teams, orders>>

\* FAULT: the row is inserted on a connection of the pool, not of the transaction.
InsertKey_OnPool(w) ==
  /\ At(w, "insert_key") /\ Spare
  /\ \E k \in Keys :
       /\ keys[k] = NoKey /\ \A j \in 1 .. k - 1 : keys[j] # NoKey
       /\ keys' = [keys EXCEPT ![k] =
                     [user |-> http[w].user, owner |-> http[w].head,
                      limit |-> http[w].limit, status |-> "active"]]
  /\ Done(w)
  /\ UNCHANGED <<sub, teams, orders>>

InsertKey(w) ==
  /\ At(w, "insert_key")
  /\ \E k \in Keys :
       /\ keys[k] = NoKey /\ \A j \in 1 .. k - 1 : keys[j] # NoKey
       /\ keys' = [keys EXCEPT ![k] =
                     [user |-> http[w].user, owner |-> http[w].head,
                      limit |-> http[w].limit, status |-> "active"]]
  /\ Done(w)
  /\ UNCHANGED <<sub, teams, orders>>

-----------------------------------------------------------------------------
(* UpdateSubKeyLimit. *)

\* A request that names no key is refused and changes nothing.
UpdateBegin(w, k, n) ==
  /\ keys[k] # NoKey
  /\ Begin(w, [Idle EXCEPT !.phase = "find_key", !.key = k, !.limit = n])
  /\ UNCHANGED <<sub, keys, teams, orders>>

\* Nothing in the server counts used tokens up: no limit is below them.
FindKey(w, caller) ==
  /\ At(w, "find_key") /\ Spare
  /\ LET k == http[w].key
     IN  IF keys[k].owner = caller THEN Goto(w, "find_sub") ELSE Refuse(w)
  /\ UNCHANGED <<sub, keys, teams, orders>>

\* The first read in the transaction; the status is not looked at.
FindSub(w) ==
  /\ At(w, "find_sub")
  /\ http' = [http EXCEPT ![w].phase = "sum_update", ![w].room = sub.limit]
  /\ UNCHANGED <<sub, keys, teams, orders>>

UpdateKey(w) ==
  /\ At(w, "update_key")
  /\ keys' = [keys EXCEPT ![http[w].key].limit = http[w].limit]
  /\ Done(w)
  /\ UNCHANGED <<sub, teams, orders>>

-----------------------------------------------------------------------------
(* AddTeamMember, without a transaction. *)

InATeam(u) == \E t \in teams : t[2] = u

\* FAULT: any user may be added, not only one the owner has invited.
Addable_Anyone(owner, u) == ~InATeam(u)

\* Only users the owner has invited, who are in no team yet.
Addable(owner, u) == Parent[u] = owner /\ ~InATeam(u)

FindInvitee(w, owner, u) ==
  /\ Addable(owner, u)
  /\ Begin(w, [Idle EXCEPT !.phase = "insert_member", !.user = u,
                           !.head = owner])
  /\ UNCHANGED <<sub, keys, teams, orders>>

\* The unique key (owner_user_id, user_id) refuses a second row.
InsertMember(w) ==
  /\ At(w, "insert_member") /\ Spare
  /\ LET row == <<http[w].head, http[w].user>>
     IN  IF row \in teams THEN Refuse(w) /\ UNCHANGED teams
                          ELSE Done(w) /\ teams' = teams \cup {row}
  /\ UNCHANGED <<sub, keys, orders>>

\* A crash, a closed connection or a database error.
Fails(w) ==
  /\ ~At(w, "idle")
  /\ Refuse(w)
  /\ UNCHANGED <<sub, keys, teams, orders>>

-----------------------------------------------------------------------------
(* Orders and the bot.  A handler of a paid order may have read the          *)
(* subscription before it expired, so renewal and add-on do not ask.         *)

\* All sub keys change alike.
Rewritten(Change(_)) ==
  keys' = [k \in Keys |-> IF keys[k] = NoKey THEN NoKey ELSE Change(keys[k])]

Settled == /\ orders < MaxOrders
           /\ orders' = orders + 1
           /\ Outdate
           /\ UNCHANGED teams

Upgrade(q) ==
  /\ Settled
  /\ sub' = [status |-> "active", base |-> q, limit |-> q]
  /\ Rewritten(LAMBDA r : [r EXCEPT !.status = "active", !.limit = q])

AddQuota ==
  /\ Settled
  /\ sub' = [sub EXCEPT !.limit = @ + Addon]
  /\ Rewritten(LAMBDA r : [r EXCEPT !.limit = @ + Addon])

Renew ==
  /\ Settled
  /\ Rewritten(LAMBDA r : [r EXCEPT !.status = "active"])
  /\ UNCHANGED sub

\* The sub keys keep their limits.
PeriodReset ==
  /\ sub.status = "active" /\ sub.limit # sub.base
  /\ sub' = [sub EXCEPT !.limit = sub.base]
  /\ Outdate
  /\ UNCHANGED <<keys, teams, orders>>

Expire ==
  /\ sub.status = "active"
  /\ sub' = [sub EXCEPT !.status = "expired"]
  /\ Rewritten(LAMBDA r : [r EXCEPT !.status = "expired"])
  /\ Outdate
  /\ UNCHANGED <<teams, orders>>

-----------------------------------------------------------------------------
Request(w) ==
  \/ \E u \in Users, n \in Limits : CreateBegin(w, u, n)
  \/ \E k \in Keys, n \in Limits : UpdateBegin(w, k, n)
  \/ \E owner, u \in Users : FindInvitee(w, owner, u)

\* What a handler does of itself.
Step(w) ==
  \/ FindMember(w) \/ FindDuplicate(w)
  \/ Sum(w, "sum_create", "insert_key") \/ InsertKey(w)
  \/ \E caller \in Users : FindKey(w, caller)
  \/ FindSub(w) \/ Sum(w, "sum_update", "update_key") \/ UpdateKey(w)
  \/ InsertMember(w)

Settlement == \/ \E q \in Quota : Upgrade(q)
              \/ AddQuota
              \/ Renew

Bot == PeriodReset \/ Expire

Next == \/ \E w \in Workers : Request(w) \/ Step(w) \/ Fails(w)
        \/ Settlement
        \/ Bot

Spec == Init /\ [][Next]_vars

\* A handler that has begun goes on, and of those that wait for a connection each gets one
\* in turn.
FairSpec == Spec /\ \A w \in Workers : SF_vars(Step(w))

-----------------------------------------------------------------------------
(* Properties. *)

\* Nobody is in two teams, though AddTeamMember looks and inserts without a lock
\* and the unique key allows one row per owner.
OneTeam == \A s, t \in teams : s[2] = t[2] => s = t

\* A sub key is used by somebody its subscription's owner has invited, and its
\* limit can be changed only by that owner or by the one who invited him, whatever
\* order teams are formed and keys created in.
KeysInFamily ==
  \A k \in Keys : keys[k] # NoKey =>
    /\ Parent[keys[k].user] = Owner
    /\ keys[k].owner \in {Owner, Parent[Owner]}

\* Members were invited by the head of their team.
MembersInvited == \A t \in teams : Parent[t[2]] = t[1]

\* What a session has found out stays true: rows of a team are never removed.
SessionsCareful ==
  \A w \in Workers :
    /\ At(w, "insert_member") => Parent[http[w].user] = http[w].head
    /\ http[w].phase \in {"find_member", "find_duplicate", "sum_create", "insert_key"}
         => http[w].head \in {Owner, Parent[Owner]}
    /\ http[w].phase \in {"find_duplicate", "sum_create", "insert_key"}
         => Parent[http[w].user] = Owner
    /\ http[w].phase \in {"find_key", "find_sub", "sum_update", "update_key"}
         => http[w].key \in Keys /\ keys[http[w].key] # NoKey

\* Together they are inductive: OneTeam rests on nothing but the inviter being
\* the only one who may add a user, and KeysInFamily on MembersInvited.
TeamInv == TypeOK /\ OneTeam /\ KeysInFamily /\ MembersInvited /\ SessionsCareful

\* The limits of all sub keys.
Allotted == SumFunctionOnSet(LimitTokens, Keys)

\* The checks are as good as their reads: a request during which nobody else has
\* written leaves the limits of all sub keys within the subscription's, gives no
\* member a second active key, and no key to an expired subscription.  What overlapping
\* requests may do is said in README.
UndisturbedRequestsKeepLimits ==
  [][\A w \in Workers :
       http[w].fresh /\ ~At(w, "idle") /\ http'[w].phase = "idle" =>
         /\ keys' # keys => Allotted' <= sub.limit
         /\ At(w, "insert_key") /\ keys' # keys =>
              /\ Held(http[w].user) = {}
              /\ sub.status = "active"]_vars

\* All connections are held by transactions, and each of them waits for one more.
Exhausted == ~Spare /\ \A w \in Holders : http[w].phase \in Wanting

\* Every request is answered, however many compete for the connections and hold one while
\* they wait for another, unless the pool comes to be exhausted.
RequestsAnswered ==
  \A w \in Workers : ~At(w, "idle") ~> At(w, "idle") \/ Exhausted
=============================================================================
