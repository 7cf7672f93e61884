---------------------------- MODULE Registration ----------------------------
(***************************************************************************)
(* Registration: the look-up of the identity, the inviter found by the     *)
(* host the visitor registers on, a promotion domain of his own, the row,  *)
(* and the welcome coupons, each a statement of its own; no transaction    *)
(* holds them together.                                                    *)
(*                                                                         *)
(* Users are named by identity; nr is users.id.  The tables the operators  *)
(* keep (vip_domain_config, the default tier, the campaigns) are constants *)
(* here, and the invite columns exist.                                     *)
(***************************************************************************)
EXTENDS Faults

CONSTANTS
  Domains,      \* hosts under non-official roots: what vip_domain can be
  Campaigns,    \* how many campaigns grant a coupon on registration
  DefaultTier,  \* vip_config.is_default
  FirstTier,    \* the tier of who registers without a profile (id 1)
  Tiers,        \* rows of vip_config
  Handlers      \* requests to register at a time

ASSUME RegistrationAssumption ==
  /\ Campaigns \in Nat
  /\ DefaultTier \in Tiers /\ FirstTier \in Tiers
  /\ None \notin Domains \cup {"official", "other"}
  /\ Domains \cap {"official", "other"} = {}

\* Where a visitor registers: an official root, a root that is not configured, or a
\* host below another root, somebody's domain or nobody's.
Hosts == {"official", "other"} \cup Domains

User == [nr : Nat, parent : Ids \cup {None}, tier : Tiers, domain : Domains \cup {None}]

ASSUME UserAssumption == None \notin User

Joined(rows) == {i \in Ids : rows[i] # None}

\* Rows there can be: numbered in the order they came, ...
Numbered(rows) ==
  /\ IsFiniteSet(Joined(rows))
  /\ \A u \in Joined(rows) : rows[u].nr \in 1 .. Cardinality(Joined(rows))

\* ... each domain and number once, and each inviter before who was invited.
Forest(rows) ==
  /\ \A u, v \in Joined(rows) :
       rows[u].domain = rows[v].domain /\ rows[u].domain # None => u = v
  /\ \A u, v \in Joined(rows) : rows[u].nr = rows[v].nr => u = v
  /\ \A u \in Joined(rows) : rows[u].parent # None =>
       rows[u].parent \in Joined(rows) /\ rows[rows[u].parent].nr < rows[u].nr

VARIABLES
  users,    \* the rows, by identity
  coupons,  \* of how many campaigns each has his coupon
  register  \* the requests under way

registrationVars == <<users, coupons, register>>

\* A request: parent and domain once they are found, the users there were when it
\* began, and the last answer.
Visit == [at : {"idle", "invite", "domain", "create", "grant"},
          id : Ids, host : Hosts, before : SUBSET Ids,
          parent : Ids \cup {None}, domain : Domains \cup {None},
          said : {"nothing", "ok", "exists", "error"}]

RegistrationTypeOK ==
  /\ users \in [Ids -> User \cup {None}]
  /\ coupons \in [Ids -> 0 .. Campaigns]
  /\ register \in [Handlers -> Visit]
  /\ failures \in 0 .. MaxFailures

Registered == Joined(users)

Idle == [at |-> "idle", id |-> CHOOSE i \in Ids : TRUE, host |-> "other", before |-> {},
         parent |-> None, domain |-> None, said |-> "nothing"]

\* Those who are members at first have all their coupons.
RegistrationInit(members) ==
  /\ users = members
  /\ coupons = [i \in Ids |-> IF users[i] = None THEN 0 ELSE Campaigns]
  /\ register = [h \in Handlers |-> Idle]
  /\ failures = 0

Taken(d) == \E u \in Registered : users[u].domain = d

\* FindByEmail, FindByPhone.
Exists(id) == users[id] # None

RegisterBegin(h, id, host) ==
  /\ register[h].at = "idle"
  /\ register' = [register EXCEPT ![h] =
       [Idle EXCEPT !.at = IF Exists(id) THEN "idle" ELSE "invite",
                    !.id = id, !.host = host, !.before = Registered,
                    !.said = IF Exists(id) THEN "exists" ELSE "nothing"]]
  /\ UNCHANGED <<users, coupons>> /\ NoFault

\* FindByVipDomain: who invites on this host.
InviterOf(host) ==
  IF host \in Domains /\ Taken(host)
  THEN CHOOSE u \in Registered : users[u].domain = host
  ELSE None

\* FindByDomain: the host is a root of the pool or below one.
Configured(host) == host # "other"

\* A host that is not configured gives no profile, and no domain.
ResolveInvite(h) ==
  /\ register[h].at = "invite"
  /\ register' = [register EXCEPT
       ![h].at = IF Configured(register[h].host) THEN "domain" ELSE "create",
       ![h].parent = InviterOf(register[h].host)]
  /\ UNCHANGED <<users, coupons>> /\ NoFault

\* One of the tries is a name nobody has.
AssignDomain(h, d) ==
  /\ register[h].at = "domain"
  /\ ~Taken(d)
  /\ register' = [register EXCEPT ![h].at = "create", ![h].domain = d]
  /\ UNCHANGED <<users, coupons>> /\ NoFault

\* All tries are taken, or there is no root to try.
NoDomain(h) ==
  /\ register[h].at = "domain"
  /\ Domains = {} \/ \E d \in Domains : Taken(d)
  /\ register' = [register EXCEPT ![h].at = "idle", ![h].said = "error"]
  /\ UNCHANGED <<users, coupons>> /\ NoFault

\* FAULT: the unique key on vip_domain is missing.
Clashes_IdentityOnly(v) == users[v.id] # None

\* The row violates a unique key: of the identity, or of the domain.
Clashes(v) == users[v.id] # None \/ (v.domain # None /\ Taken(v.domain))

\* The tier of a new user: on a host of the pool the default one, else the first.
VipConfigOf(host) == IF Configured(host) THEN DefaultTier ELSE FirstTier

NewUser(v) ==
  [nr |-> Cardinality(Registered) + 1, parent |-> v.parent,
   tier |-> VipConfigOf(v.host), domain |-> v.domain]

\* CreateRegister; of either key the answer is that the user exists.
CreateRefused(h) ==
  /\ register[h].at = "create" /\ Clashes(register[h])
  /\ register' = [register EXCEPT ![h].at = "idle", ![h].said = "exists"]
  /\ UNCHANGED <<users, coupons>> /\ NoFault

Create(h) ==
  /\ register[h].at = "create" /\ ~Clashes(register[h])
  /\ users' = [users EXCEPT ![register[h].id] = NewUser(register[h])]
  /\ \/ register' = [register EXCEPT ![h].at = "grant"] /\ NoFault
     \/ \* The row is there, but the answer of the database is lost.
        register' = [register EXCEPT ![h].at = "idle", ![h].said = "error"] /\ Fault
  /\ UNCHANGED coupons

\* FAULT: goes on past the last campaign.
Granted_OneMore(id) == coupons[id] > Campaigns

\* GrantRegisterCoupons has been through the campaigns.
Granted(id) == coupons[id] = Campaigns

GrantCoupon(h) ==
  /\ register[h].at = "grant" /\ ~Granted(register[h].id)
  /\ coupons' = [coupons EXCEPT ![register[h].id] = @ + 1]
  /\ UNCHANGED <<users, register>> /\ NoFault

RegisterEnds(h) ==
  /\ register[h].at = "grant" /\ Granted(register[h].id)
  /\ register' = [register EXCEPT ![h].at = "idle", ![h].said = "ok"]
  /\ UNCHANGED <<users, coupons>> /\ NoFault

\* FAULT: every error of the insert is taken for a duplicate.
Failure_Exists(v) == IF v.at = "grant" THEN "ok" ELSE "exists"

\* What is answered when a statement fails: of the coupons nothing.
Failure(v) == IF v.at = "grant" THEN "ok" ELSE "error"

\* A statement fails, or the process dies and nothing is answered.
RegisterFails(h) ==
  /\ register[h].at # "idle"
  /\ \E said \in {Failure(register[h]), "nothing"} :
       register' = [register EXCEPT ![h].at = "idle", ![h].said = said]
  /\ UNCHANGED <<users, coupons>> /\ Fault

RegisterStep(h) ==
  \/ ResolveInvite(h) \/ NoDomain(h) \/ \E d \in Domains : AssignDomain(h, d)
  \/ CreateRefused(h) \/ Create(h)
  \/ GrantCoupon(h) \/ RegisterEnds(h) \/ RegisterFails(h)

-----------------------------------------------------------------------------
(* Properties. *)

\* A domain leads to one user, and who was invited came after who invited him: the
\* invitations are a forest, which orders may follow upwards without going round.
InvitationForest == Forest(users)

\* Whoever a request under way has found to be the inviter owns the host the visitor
\* came by, and nobody is found only if it had no owner when he began.
InviterFound ==
  \A h \in Handlers :
    LET v == register[h] IN
      v.at \in {"domain", "create", "grant"} =>
        /\ v.parent # None => v.parent \in Registered /\ users[v.parent].domain = v.host
        /\ v.parent = None => \A u \in v.before : users[u].domain # v.host

\* The invariant of registration, whatever requests for one identity, one host and one
\* promotion domain overlap and wherever they break off.
RegistrationInv == RegistrationTypeOK /\ InvitationForest /\ InviterFound

\* "User exists" is said to who exists, or to whom another beat to his new domain.
ExistsIsTrue ==
  \A h \in Handlers :
    LET v == register[h] IN
      v.said = "exists" => users[v.id] # None \/ (v.domain # None /\ Taken(v.domain))

\* Who lacks a welcome coupon is about to get it, or something failed.
CouponsComplete ==
  \A u \in Registered : coupons[u] < Campaigns =>
    failures > 0 \/ \E h \in Handlers : register[h].at = "grant" /\ register[h].id = u

\* A registration is answered truly: who is sent away exists, who is let in is there
\* with his welcome coupons.
AnswersTrue ==
  /\ ExistsIsTrue /\ CouponsComplete
  /\ \A h \in Handlers : register[h].said = "ok" => users[register[h].id] # None
=============================================================================
