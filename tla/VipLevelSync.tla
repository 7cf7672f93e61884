---------------------------- MODULE VipLevelSync ----------------------------
(***************************************************************************)
(* The bot job vip_level_sync: it reads the tiers, the number of invitees  *)
(* and what they have paid, then the users' levels, and last raises those  *)
(* who qualify for more and tells them.  Every bot process runs it, and    *)
(* none of its statements takes a lock.  ListAllUsersForSync is one read   *)
(* here (up to listPageSize users), and all users are in one batch.        *)
(***************************************************************************)
EXTENDS Registration, Inbox, FiniteSetsExt

CONSTANTS
  Rank,          \* sort_order of a tier
  MinInvites,    \* min_valid_invites
  MinPaid,       \* min_invitee_paid_amount
  Replicas       \* bot processes

ASSUME TierAssumption ==
  /\ Tiers \subseteq Nat /\ IsFiniteSet(Tiers) /\ None \notin Tiers
  /\ Rank \in [Tiers -> Nat] /\ MinInvites \in [Tiers -> Nat] /\ MinPaid \in [Tiers -> Nat]

VARIABLES
  enabled,  \* vip_config.enabled
  paid,     \* per user the total of his completed orders
  sync,     \* the runs
  silent    \* history: who was raised by a run that failed before it told him

syncVars == <<enabled, paid, sync, silent>>

\* A run: the plan it has read so far, per user the tier it will give him, who has
\* it already and is to be told, and whether another run was under way with it.
Run == [at : {"idle", "count", "sum", "list", "users"},
        tiers : SUBSET Tiers, invites : [Ids -> Nat], goal : [Ids -> Tiers \cup {None}],
        told : SUBSET Ids, shared : BOOLEAN]

SyncTypeOK ==
  /\ enabled \subseteq Tiers
  /\ paid \in [Ids -> Nat]
  /\ sync \in [Replicas -> Run]

NoRun == [at |-> "idle", tiers |-> {}, invites |-> [u \in Ids |-> 0],
          goal |-> [u \in Ids |-> None], told |-> {}, shared |-> FALSE]

SyncInit(tiers) ==
  /\ enabled = tiers
  /\ paid = [u \in Ids |-> 0]
  /\ sync = [r \in Replicas |-> NoRun]
  /\ silent = {}

Invitees(u) == {v \in Registered : users[v].parent = u}

InviteesPaid(u) == MapThenSumSet(LAMBDA v : paid[v], Invitees(u))

\* FAULT: the thresholds are exclusive.
Qualifies_Exclusive(t, invites, amount) == invites > MinInvites[t] /\ amount > MinPaid[t]

Qualifies(t, invites, amount) == invites >= MinInvites[t] /\ amount >= MinPaid[t]

\* The highest rank, and of equals the later row.
BestTier(tiers, invites, amount) ==
  LET fit == {t \in tiers : Qualifies(t, invites, amount)} IN
  IF fit = {} THEN None
  ELSE CHOOSE t \in fit : \A s \in fit \ {t} :
         Rank[t] > Rank[s] \/ (Rank[t] = Rank[s] /\ t > s)

\* ListEnabled; without a tier the run is over.
SyncBegin(r) ==
  /\ sync[r].at = "idle" /\ enabled # {}
  /\ LET others == {q \in Replicas \ {r} : sync[q].at # "idle"} IN
       sync' = [q \in Replicas |->
         IF q = r THEN [NoRun EXCEPT !.at = "count", !.tiers = enabled,
                                     !.shared = others # {}]
         ELSE IF q \in others THEN [sync[q] EXCEPT !.shared = TRUE] ELSE sync[q]]
  /\ UNCHANGED <<enabled, paid, silent, users, inbox>> /\ NoFault

\* CountInviteesGroupByInviter.
CountInvitees(r) ==
  /\ sync[r].at = "count"
  /\ sync' = [sync EXCEPT ![r].at = "sum",
                          ![r].invites = [u \in Ids |-> Cardinality(Invitees(u))]]
  /\ UNCHANGED <<enabled, paid, silent, users, inbox>> /\ NoFault

\* SumInviteeCompletedOrderAmountGroupByInviter; the plan says who qualifies for what.
SumPaid(r) ==
  /\ sync[r].at = "sum"
  /\ sync' = [sync EXCEPT
       ![r].at = "list", ![r].tiers = {}, ![r].invites = NoRun.invites,
       ![r].goal = [u \in Ids |->
          BestTier(sync[r].tiers, sync[r].invites[u], InviteesPaid(u))]]
  /\ UNCHANGED <<enabled, paid, silent, users, inbox>> /\ NoFault

\* ListIDAndVipConfigID.
LevelOf(u) == users[u].tier

\* FAULT: whoever has another tier than the plan's gets the plan's.
Above_Other(t, u) == t # users[u].tier

Above(t, u) == Rank[t] > Rank[LevelOf(u)]

\* The plan is compared with the levels, page by page.
ListUsers(r) ==
  /\ sync[r].at = "list"
  /\ sync' = [sync EXCEPT
       ![r].at = "users",
       ![r].goal = [u \in Ids |->
          IF u \in Registered /\ @[u] # None /\ Above(@[u], u) THEN @[u] ELSE None]]
  /\ UNCHANGED <<enabled, paid, silent, users, inbox>> /\ NoFault

UpdateVipConfigID(u, t) == users' = [users EXCEPT ![u].tier = t]

\* The level is written whatever it is now.
Raise(r, u) ==
  /\ sync[r].at = "users" /\ sync[r].goal[u] # None /\ u \notin sync[r].told
  /\ UpdateVipConfigID(u, sync[r].goal[u])
  /\ sync' = [sync EXCEPT ![r].told = @ \cup {u}]
  /\ UNCHANGED <<enabled, paid, silent, inbox>> /\ NoFault

\* insertVipUpgradeNotification, then the user is done.
Notify(r, u) ==
  /\ u \in sync[r].told
  /\ Deliver(u)
  /\ sync' = [sync EXCEPT ![r].told = @ \ {u}, ![r].goal[u] = None]
  /\ UNCHANGED <<enabled, paid, silent, users>> /\ NoFault

\* Either statement fails: the user is done, the others go on.
UserFails(r, u) ==
  /\ sync[r].at = "users" /\ sync[r].goal[u] # None
  /\ sync' = [sync EXCEPT ![r].told = @ \ {u}, ![r].goal[u] = None]
  /\ silent' = silent \cup (sync[r].told \cap {u})
  /\ UNCHANGED <<enabled, paid, users, inbox>> /\ Fault

\* FAULT: the run does not wait for the users of its batch, and its context ends with it.
SyncEnds_NotAwaited(r) ==
  /\ sync[r].at = "users"
  /\ sync' = [sync EXCEPT ![r] = NoRun]
  /\ UNCHANGED <<enabled, paid, silent, users, inbox>> /\ NoFault

\* Every user of the batch is done.
SyncEnds(r) ==
  /\ sync[r].at = "users" /\ \A u \in Ids : sync[r].goal[u] = None
  /\ sync' = [sync EXCEPT ![r] = NoRun]
  /\ UNCHANGED <<enabled, paid, silent, users, inbox>> /\ NoFault

\* A query of the plan fails, or the process dies.
SyncFails(r) ==
  /\ sync[r].at # "idle"
  /\ sync' = [sync EXCEPT ![r] = NoRun]
  /\ silent' = silent \cup sync[r].told
  /\ UNCHANGED <<enabled, paid, users, inbox>> /\ Fault

\* An order is completed; module PaymentNotify says how.
CompleteOrder(u) ==
  /\ u \in Registered
  /\ paid' = [paid EXCEPT ![u] = @ + 1]
  /\ UNCHANGED <<enabled, sync, silent, users, inbox>> /\ NoFault

\* An operator enables or disables tiers.
EditTiers(tiers) ==
  /\ tiers # enabled
  /\ enabled' = tiers
  /\ UNCHANGED <<paid, sync, silent, users, inbox>> /\ NoFault

SyncStep(r) ==
  \/ SyncBegin(r) \/ CountInvitees(r) \/ SumPaid(r) \/ ListUsers(r) \/ SyncEnds(r)
  \/ \E u \in Ids : Raise(r, u) \/ Notify(r, u)

SyncFault(r) == SyncFails(r) \/ \E u \in Ids : UserFails(r, u)

-----------------------------------------------------------------------------
(* Properties. *)

\* A run that had no other beside it only raises levels, whatever has been disabled
\* since its user was raised: levels fall only where runs overlap.
AloneOnlyRaises ==
  [][\A r \in Replicas, u \in Ids :
       u \in sync'[r].told \ sync[r].told /\ ~sync[r].shared =>
         Rank[users'[u].tier] > Rank[users[u].tier]]_sync

\* Above every tier that is given at registration.
Raised(user) == \A t \in {DefaultTier, FirstTier} : Rank[user.tier] > Rank[t]

\* Who has been raised finds a message or is about to get it, unless the very statement that
\* was to tell him failed: no other failure, run or edit keeps a rise from him.
RisesAnnounced ==
  \A u \in Registered : Raised(users[u]) =>
    inbox[u] # <<>> \/ u \in silent \/ \E r \in Replicas : u \in sync[r].told

\* A user who qualifies for a higher tier than he has.
Owed(u) ==
  /\ u \in Registered
  /\ \E t \in enabled :
       /\ Rank[t] > Rank[users[u].tier]
       /\ Cardinality(Invitees(u)) >= MinInvites[t] /\ InviteesPaid(u) >= MinPaid[t]

\* Nobody is owed a level for good: runs that overlap, stale plans and runs that broke
\* off notwithstanding.
LevelsCatchUp == []<>(\A u \in Ids : ~Owed(u))
=============================================================================
