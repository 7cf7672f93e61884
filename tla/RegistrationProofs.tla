------------------------- MODULE RegistrationProofs -------------------------
(* Theorems about registration and the levels in Members, for any identities, *)
(* domains, tiers, requests, replicas, failures and traffic.                  *)
EXTENDS Members, FiniteSetTheorems, TLAPS

-----------------------------------------------------------------------------
(* The best tier. *)

LEMMA Fewer ==
  ASSUME NEW S, IsFiniteSet(S), NEW T \in SUBSET S, NEW x \in S, x \notin T
  PROVE  Cardinality(T) < Cardinality(S)
<1>1. IsFiniteSet(T) /\ Cardinality(T) <= Cardinality(S) /\ Cardinality(T) # Cardinality(S)
  BY FS_Subset
<1> QED
  BY <1>1, FS_CardinalityType

\* A finite non-empty set of tiers has one that no other outranks: how many tiers
\* outrank a tier tells them apart, so one of these numbers is zero.
LEMMA BestExists ==
  ASSUME NEW fit \in SUBSET Tiers, fit # {}
  PROVE  \E t \in fit : \A s \in fit \ {t} :
           Rank[t] > Rank[s] \/ (Rank[t] = Rank[s] /\ t > s)
<1> DEFINE Better(s, t) == Rank[s] > Rank[t] \/ (Rank[s] = Rank[t] /\ s > t)
           Ahead(t) == {s \in fit : Better(s, t)}
           n == Cardinality(fit)
           count == [t \in fit |-> Cardinality(Ahead(t))]
<1>1. IsFiniteSet(fit) /\ n \in Nat /\ fit \subseteq Nat /\ \A t \in fit : Rank[t] \in Nat
  BY TierAssumption, FS_Subset, FS_CardinalityType
<1>2. ASSUME NEW t \in fit
      PROVE  IsFiniteSet(Ahead(t)) /\ Cardinality(Ahead(t)) \in 0 .. n - 1
  <2>1. Ahead(t) \in SUBSET fit /\ t \notin Ahead(t)
    <3>1. ~Better(t, t)
      BY <1>1
    <3> QED
      BY <3>1
  <2>2. IsFiniteSet(Ahead(t)) /\ Cardinality(Ahead(t)) \in Nat
    BY <1>1, <2>1, FS_Subset, FS_CardinalityType
  <2> QED
    BY <1>1, <2>1, <2>2, Fewer
<1>3. ASSUME NEW s \in fit, NEW t \in fit, Better(s, t)
      PROVE  count[s] < count[t]
  <2>1. \A q \in fit : Better(q, s) => Better(q, t)
    BY <1>1, <1>3
  <2>2. s \in Ahead(t) /\ ~Better(s, s)
    BY <1>1, <1>3
  <2>3. Ahead(s) \in SUBSET Ahead(t) /\ s \notin Ahead(s)
    BY <2>1, <2>2
  <2> QED
    BY <1>2, <2>2, <2>3, Fewer
<1>4. \A s, t \in fit : s = t \/ Better(s, t) \/ Better(t, s)
  BY <1>1
<1>5. count \in [fit -> 0 .. n - 1] /\ \A t \in fit : count[t] = Cardinality(Ahead(t))
  BY <1>2
<1>6. count \in Injection(fit, 0 .. n - 1)
  <2> HIDE DEF count, n, Better
  <2>1. ASSUME NEW s \in fit, NEW t \in fit, count[s] = count[t]
        PROVE  s = t
    <3>1. count[s] \in Int /\ count[t] \in Int
      BY <1>5
    <3> QED
      BY <1>3, <1>4, <2>1, <3>1
  <2> QED
    BY <1>5, <2>1 DEF Injection, IsInjective
<1>7. IsFiniteSet(0 .. n - 1) /\ Cardinality(0 .. n - 1) = n
  <2> HIDE DEF n
  <2>1. n - 1 \in Int /\ (0 > n - 1 => n = 0)
    BY <1>1
  <2>2. /\ IsFiniteSet(0 .. n - 1)
        /\ Cardinality(0 .. n - 1) = IF 0 > n - 1 THEN 0 ELSE n - 1 - 0 + 1
    BY <2>1, FS_Interval
  <2> QED
    BY <1>1, <2>1, <2>2
<1>8. count \in Surjection(fit, 0 .. n - 1)
  BY <1>6, <1>7, FS_Injection
<1>9. n > 0
  BY <1>1, FS_EmptySet
<1>10. PICK t \in fit : count[t] = 0
  <2> HIDE DEF count, n
  <2>1. 0 \in 0 .. n - 1
    BY <1>1, <1>9
  <2> QED
    BY <1>8, <2>1 DEF Surjection
<1>11. Ahead(t) = {}
  BY <1>2, <1>5, <1>10, FS_EmptySet
<1> QED
  BY <1>4, <1>11

LEMMA BestTierType ==
  ASSUME NEW tiers \in SUBSET Tiers, NEW invites, NEW amount
  PROVE  BestTier(tiers, invites, amount) \in Tiers \cup {None}
<1> DEFINE fit == {t \in tiers : Qualifies(t, invites, amount)}
<1>1. CASE fit = {}
  BY <1>1 DEF BestTier
<1>2. CASE fit # {}
  <2>1. \E t \in fit : \A s \in fit \ {t} :
           Rank[t] > Rank[s] \/ (Rank[t] = Rank[s] /\ t > s)
    BY <1>2, BestExists
  <2>2. BestTier(tiers, invites, amount) =
          CHOOSE t \in fit : \A s \in fit \ {t} :
            Rank[t] > Rank[s] \/ (Rank[t] = Rank[s] /\ t > s)
    BY <1>2 DEF BestTier
  <2> QED
    BY <2>1, <2>2
<1> QED
  BY <1>1, <1>2

-----------------------------------------------------------------------------
(* Registration. *)

\* Beside what is checked: nobody leaves, numbers go up to the number of users, who is
\* being granted coupons is there, and an answer is the end.
RegInv ==
  /\ RegistrationInv
  /\ AnswersTrue
  /\ Numbered(users)
  /\ \A h \in Handlers :
       /\ register[h].before \subseteq Registered
       /\ register[h].at = "grant" => users[register[h].id] # None
       /\ register[h].at # "idle" => register[h].said = "nothing"

\* What of a row never changes.
Same(rows, u) == /\ rows[u] # None
                 /\ rows[u].nr = users[u].nr /\ rows[u].parent = users[u].parent
                 /\ rows[u].domain = users[u].domain

LEMMA InviterType ==
  ASSUME NEW host \in Hosts
  PROVE  /\ InviterOf(host) \in Ids \cup {None}
         /\ InviterOf(host) # None =>
              InviterOf(host) \in Registered /\ users[InviterOf(host)].domain = host
         /\ InviterOf(host) = None => \A u \in Registered : users[u].domain # host \/ host \notin Domains
BY FaultAssumption DEF InviterOf, Taken, Registered, Joined

\* A row that changes in other fields than these leaves registration as it is.
LEMMA RowsKept ==
  ASSUME RegInv, users' \in [Ids -> User \cup {None}], Registered' = Registered,
         \A u \in Registered : Same(users', u),
         UNCHANGED <<register, coupons>>, failures' \in 0 .. MaxFailures, failures' >= failures
  PROVE  RegInv'
<1> USE DEF RegInv, RegistrationInv, AnswersTrue
<1>1. RegistrationTypeOK'
  BY DEF RegistrationTypeOK
<1>2. InvitationForest' /\ Numbered(users)'
  BY DEF InvitationForest, Forest, Numbered, Same, Registered
<1>3. InviterFound'
  BY DEF InviterFound, Same, RegistrationTypeOK, Visit
<1>4. ExistsIsTrue'
  BY DEF ExistsIsTrue, Taken, Same, RegistrationTypeOK, Visit, Registered, Joined
<1>5. CouponsComplete'
  BY DEF CouponsComplete, RegistrationTypeOK
<1>6. /\ \A h \in Handlers : register'[h].said = "ok" => users'[register'[h].id] # None
      /\ \A h \in Handlers :
           /\ register'[h].before \subseteq Registered'
           /\ register'[h].at = "grant" => users'[register'[h].id] # None
           /\ register'[h].at # "idle" => register'[h].said = "nothing"
  BY DEF Same, RegistrationTypeOK, Visit, Registered, Joined
<1> QED
  BY <1>1, <1>2, <1>3, <1>4, <1>5, <1>6

\* What a request may say of itself: as far as it has found its inviter, of who was there
\* before, of the row it is granting coupons for, and in its answer.
Honest(v) ==
  /\ v.at \in {"domain", "create", "grant"} =>
       /\ v.parent # None => v.parent \in Registered /\ users[v.parent].domain = v.host
       /\ v.parent = None => \A u \in v.before : users[u].domain # v.host
  /\ v.before \subseteq Registered
  /\ v.at = "grant" => users[v.id] # None
  /\ v.at # "idle" => v.said = "nothing"
  /\ v.said = "exists" => users[v.id] # None \/ (v.domain # None /\ Taken(v.domain))
  /\ v.said = "ok" => users[v.id] # None

LEMMA AllHonest == ASSUME RegInv, NEW h \in Handlers PROVE Honest(register[h])
BY DEF RegInv, RegistrationInv, AnswersTrue, InviterFound, ExistsIsTrue, Honest

\* A request goes on without a write, and leaves no member without his coupons unless
\* something failed.
LEMMA RequestKept ==
  ASSUME RegInv, NEW h \in Handlers, NEW v \in Visit,
         register' = [register EXCEPT ![h] = v], UNCHANGED <<users, coupons>>,
         failures' \in 0 .. MaxFailures, failures' >= failures,
         Honest(v),
         register[h].at = "grant" => \/ v.at = "grant" /\ v.id = register[h].id
                                     \/ coupons[register[h].id] = Campaigns
                                     \/ failures' > 0
  PROVE  RegInv'
<1> USE DEF RegInv, RegistrationInv, AnswersTrue
<1>1. \A g \in Handlers : register'[g] = IF g = h THEN v ELSE register[g]
  BY DEF RegistrationTypeOK
<1>2. \A g \in Handlers : Honest(register'[g])
  BY <1>1, AllHonest
<1>3. RegistrationTypeOK' /\ InvitationForest' /\ Numbered(users)'
  BY DEF RegistrationTypeOK, InvitationForest, Forest, Numbered
<1>4. InviterFound' /\ ExistsIsTrue'
  BY <1>2 DEF Honest, InviterFound, ExistsIsTrue, Registered, Taken
<1>5. CouponsComplete'
  <2>1. Registered' = Registered
    BY DEF Registered
  <2>2. failures \in Nat /\ failures' \in Nat /\ Campaigns \in Nat /\ coupons \in [Ids -> 0 .. Campaigns]
    BY RegistrationAssumption, FaultAssumption DEF RegistrationTypeOK
  <2>3. ASSUME NEW u \in Registered, coupons[u] < Campaigns, failures' = 0
        PROVE  \E g \in Handlers : register'[g].at = "grant" /\ register'[g].id = u
    <3>1. failures = 0
      BY <2>2, <2>3
    <3>2. PICK g \in Handlers : register[g].at = "grant" /\ register[g].id = u
      BY <2>2, <2>3, <3>1 DEF CouponsComplete
    <3>3. CASE g # h
      BY <1>1, <3>2, <3>3
    <3>4. CASE g = h
      BY <1>1, <2>2, <2>3, <3>2, <3>4
    <3> QED
      BY <3>3, <3>4
  <2> QED
    BY <2>1, <2>2, <2>3 DEF CouponsComplete
<1>6. /\ \A g \in Handlers : register'[g].said = "ok" => users'[register'[g].id] # None
      /\ \A g \in Handlers :
           /\ register'[g].before \subseteq Registered'
           /\ register'[g].at = "grant" => users'[register'[g].id] # None
           /\ register'[g].at # "idle" => register'[g].said = "nothing"
  BY <1>2 DEF Honest, Registered
<1> QED
  BY <1>3, <1>4, <1>5, <1>6

LEMMA FaultCounts ==
  ASSUME RegInv
  PROVE  /\ failures \in Nat /\ MaxFailures \in Nat
         /\ NoFault => failures' \in 0 .. MaxFailures /\ failures' >= failures
         /\ Fault => failures' \in 0 .. MaxFailures /\ failures' >= failures /\ failures' > 0
BY FaultAssumption DEF RegInv, RegistrationInv, RegistrationTypeOK, NoFault, Fault

LEMMA AnyVisit ==
  ASSUME RegInv, NEW h \in Handlers
  PROVE  register[h] \in Visit
BY DEF RegInv, RegistrationInv, RegistrationTypeOK

LEMMA RegisterBeginKeeps ==
  ASSUME RegInv, NEW h \in Handlers, NEW id \in Ids, NEW host \in Hosts, RegisterBegin(h, id, host)
  PROVE  RegInv'
<1> DEFINE v == [Idle EXCEPT !.at = IF Exists(id) THEN "idle" ELSE "invite",
                    !.id = id, !.host = host, !.before = Registered,
                    !.said = IF Exists(id) THEN "exists" ELSE "nothing"]
<1>1. v \in Visit
  BY DEF Idle, Visit, Hosts, Registered, Joined
<1>2. Honest(v)
  BY DEF Honest, Idle, Exists, Hosts, Registered, Joined
<1>3. register' = [register EXCEPT ![h] = v] /\ register[h].at = "idle"
      /\ UNCHANGED <<users, coupons>> /\ NoFault
  BY DEF RegisterBegin
<1> HIDE DEF v
<1> QED
  BY <1>1, <1>2, <1>3, FaultCounts, RequestKept

LEMMA ResolveInviteKeeps ==
  ASSUME RegInv, NEW h \in Handlers, ResolveInvite(h)
  PROVE  RegInv'
<1> DEFINE w == register[h]
           v == [w EXCEPT !.at = IF Configured(w.host) THEN "domain" ELSE "create",
                          !.parent = InviterOf(w.host)]
<1>1. w \in Visit /\ w.host \in Hosts /\ Honest(w)
  BY AnyVisit, AllHonest DEF Visit
<1>2. v \in Visit
  BY <1>1, InviterType DEF Visit
<1>3. /\ v.before = w.before /\ v.host = w.host /\ v.said = w.said
      /\ v.parent = InviterOf(w.host) /\ v.at \in {"domain", "create"}
  BY <1>1 DEF Visit
<1>4. w.said = "nothing"
  BY <1>1 DEF Honest, ResolveInvite
<1>5. InviterOf(w.host) = None => \A u \in w.before : users[u].domain # w.host
  <2>1. \A u \in Registered : users[u].domain \in Domains \cup {None}
    BY DEF RegInv, RegistrationInv, RegistrationTypeOK, Registered, Joined, User
  <2>2. w.host \notin Domains => w.host # None /\ w.host \notin Domains
    BY <1>1, RegistrationAssumption DEF Hosts
  <2>3. w.before \subseteq Registered
    BY <1>1 DEF Honest
  <2> QED
    BY <1>1, <2>1, <2>2, <2>3, InviterType
<1>6. Honest(v)
  <2> HIDE DEF v
  <2> QED
    BY <1>1, <1>3, <1>4, <1>5, InviterType DEF Honest
<1>7. register' = [register EXCEPT ![h] = v] /\ register[h].at = "invite"
      /\ UNCHANGED <<users, coupons>> /\ NoFault
  BY DEF ResolveInvite
<1> HIDE DEF v, w
<1> QED
  BY <1>2, <1>6, <1>7, FaultCounts, RequestKept

LEMMA AssignDomainKeeps ==
  ASSUME RegInv, NEW h \in Handlers, NEW d \in Domains, AssignDomain(h, d)
  PROVE  RegInv'
<1> DEFINE w == register[h]
           v == [w EXCEPT !.at = "create", !.domain = d]
<1>1. w \in Visit /\ Honest(w) /\ w.at = "domain" /\ w.said = "nothing"
  BY AnyVisit, AllHonest DEF Honest, AssignDomain
<1>2. v \in Visit
  BY <1>1 DEF Visit
<1>3. /\ v.before = w.before /\ v.host = w.host /\ v.said = w.said
      /\ v.parent = w.parent /\ v.at = "create"
  BY <1>1 DEF Visit
<1>4. register' = [register EXCEPT ![h] = v] /\ UNCHANGED <<users, coupons>> /\ NoFault
  BY DEF AssignDomain
<1> HIDE DEF v, w
<1>5. Honest(v)
  BY <1>1, <1>3 DEF Honest
<1> QED
  BY <1>1, <1>2, <1>4, <1>5, FaultCounts, RequestKept DEF w

\* A request that ends with a true answer, its coupons granted or something failed.
LEMMA EndKeeps ==
  ASSUME RegInv, NEW h \in Handlers, NEW said \in {"nothing", "ok", "exists", "error"},
         register[h].at # "idle",
         register' = [register EXCEPT ![h].at = "idle", ![h].said = said],
         UNCHANGED <<users, coupons>>,
         NoFault \/ Fault,
         said = "exists" => Clashes(register[h]),
         said = "ok" => users[register[h].id] # None,
         register[h].at = "grant" => coupons[register[h].id] = Campaigns \/ Fault
  PROVE  RegInv'
<1> DEFINE w == register[h]
           v == [w EXCEPT !.at = "idle", !.said = said]
<1>1. w \in Visit /\ Honest(w)
  BY AnyVisit, AllHonest
<1>2. v \in Visit
  BY <1>1 DEF Visit
<1>3. /\ v.before = w.before /\ v.said = said /\ v.id = w.id
      /\ v.domain = w.domain /\ v.at = "idle"
  BY <1>1 DEF Visit
<1>4. register' = [register EXCEPT ![h] = v]
  OBVIOUS
<1> HIDE DEF v
<1>5. Honest(v)
  BY <1>1, <1>3 DEF Honest, Clashes
<1> QED
  BY <1>2, <1>4, <1>5, FaultCounts, RequestKept

LEMMA EndingsKeep ==
  ASSUME RegInv, NEW h \in Handlers,
         NoDomain(h) \/ CreateRefused(h) \/ RegisterEnds(h) \/ RegisterFails(h)
  PROVE  RegInv'
<1>1. CASE NoDomain(h)
  BY <1>1, EndKeeps DEF NoDomain
<1>2. CASE CreateRefused(h)
  BY <1>2, EndKeeps DEF CreateRefused
<1>3. CASE RegisterEnds(h)
  BY <1>3, EndKeeps, AllHonest DEF RegisterEnds, Granted, Honest
<1>4. CASE RegisterFails(h)
  <2>1. PICK said \in {Failure(register[h]), "nothing"} :
          register' = [register EXCEPT ![h].at = "idle", ![h].said = said]
    BY <1>4 DEF RegisterFails
  <2>2. said \in {"nothing", "ok", "error"} /\ (said = "ok" => register[h].at = "grant")
    BY <2>1 DEF Failure
  <2> QED
    BY <1>4, <2>1, <2>2, EndKeeps, AllHonest DEF RegisterFails, Honest
<1> QED
  BY <1>1, <1>2, <1>3, <1>4

LEMMA GrantCouponKeeps ==
  ASSUME RegInv, NEW h \in Handlers, GrantCoupon(h)
  PROVE  RegInv'
<1> USE DEF RegInv, RegistrationInv, AnswersTrue
<1>1. /\ register[h].id \in Ids /\ Campaigns \in Nat /\ coupons \in [Ids -> 0 .. Campaigns]
  BY RegistrationAssumption, AnyVisit DEF RegistrationTypeOK, Visit
<1>2. coupons' = [coupons EXCEPT ![register[h].id] = coupons[register[h].id] + 1]
      /\ coupons[register[h].id] # Campaigns /\ UNCHANGED <<users, register>> /\ NoFault
      /\ register[h].at = "grant"
  BY DEF GrantCoupon, Granted
<1>3. RegistrationTypeOK'
  BY <1>1, <1>2, FaultCounts DEF RegistrationTypeOK
<1>4. InvitationForest' /\ Numbered(users)' /\ InviterFound' /\ ExistsIsTrue'
  BY <1>2 DEF InvitationForest, Forest, Numbered, InviterFound, ExistsIsTrue, Registered, Taken
<1>5. CouponsComplete'
  <2>1. \A u \in Ids : u # register[h].id => coupons'[u] = coupons[u]
    BY <1>1, <1>2
  <2>2. Registered' = Registered /\ Registered \subseteq Ids /\ failures' = failures
    BY <1>2 DEF Registered, Joined, NoFault
  <2>3. ASSUME NEW u \in Registered, coupons'[u] < Campaigns
        PROVE  \/ failures' > 0
               \/ \E g \in Handlers : register'[g].at = "grant" /\ register'[g].id = u
    <3>1. CASE u = register[h].id
      BY <1>2, <3>1
    <3>2. CASE u # register[h].id
      BY <1>2, <2>1, <2>2, <2>3, <3>2 DEF CouponsComplete
    <3> QED
      BY <3>1, <3>2
  <2> QED
    BY <2>2, <2>3 DEF CouponsComplete
<1>6. /\ \A g \in Handlers : register'[g].said = "ok" => users'[register'[g].id] # None
      /\ \A g \in Handlers :
           /\ register'[g].before \subseteq Registered'
           /\ register'[g].at = "grant" => users'[register'[g].id] # None
           /\ register'[g].at # "idle" => register'[g].said = "nothing"
  BY <1>2 DEF Registered
<1> QED
  BY <1>3, <1>4, <1>5, <1>6

\* The new row has the next number, nobody else's domain, and an inviter who is there.
LEMMA CreateKeeps ==
  ASSUME RegInv, NEW h \in Handlers, Create(h)
  PROVE  RegInv'
<1> DEFINE w == register[h]
           x == w.id
           new == NewUser(w)
           n == Cardinality(Registered)
<1>1. /\ w \in Visit /\ Honest(w) /\ w.at = "create" /\ w.said = "nothing"
      /\ x \in Ids /\ users[x] = None /\ (w.domain # None => ~Taken(w.domain))
  BY AnyVisit, AllHonest DEF Visit, Honest, Create, Clashes
<1>2. n \in Nat /\ IsFiniteSet(Registered) /\ x \notin Registered /\ Registered \subseteq Ids
  <2>1. IsFiniteSet(Registered)
    BY DEF RegInv, Numbered, Registered
  <2>2. x \notin Registered /\ Registered \subseteq Ids
    BY <1>1 DEF Registered, Joined
  <2> QED
    BY <2>1, <2>2, FS_CardinalityType
<1>3. /\ new \in User /\ new # None
      /\ new.nr = n + 1 /\ new.parent = w.parent /\ new.domain = w.domain
  <2>1. /\ w.parent \in Ids \cup {None} /\ w.domain \in Domains \cup {None}
        /\ VipConfigOf(w.host) \in Tiers /\ n + 1 \in Nat
    BY <1>1, <1>2, RegistrationAssumption DEF Visit, VipConfigOf
  <2>2. new = [nr |-> n + 1, parent |-> w.parent, tier |-> VipConfigOf(w.host),
               domain |-> w.domain]
    BY DEF NewUser
  <2> HIDE DEF new, n
  <2> QED
    BY <2>1, <2>2, UserAssumption DEF User
<1>4. users \in [Ids -> User \cup {None}] /\ users' = [users EXCEPT ![x] = new]
      /\ coupons' = coupons
  BY DEF RegInv, RegistrationInv, RegistrationTypeOK, Create
<1> HIDE DEF new, n
<1>5. Registered' = Registered \cup {x} /\ Cardinality(Registered') = n + 1
      /\ IsFiniteSet(Registered')
  <2>1. Registered' = Registered \cup {x}
    BY <1>1, <1>3, <1>4 DEF Registered, Joined
  <2>2. IsFiniteSet(Registered \cup {x}) /\ Cardinality(Registered \cup {x}) = n + 1
    BY <1>2, FS_AddElement DEF n
  <2> QED
    BY <2>1, <2>2
<1>6. users'[x] = new /\ \A u \in Registered : users'[u] = users[u] /\ u # x
  BY <1>1, <1>2, <1>4
<1>7. \A u \in Registered : users[u].nr \in 1 .. n
  BY DEF RegInv, Numbered, Registered, n
<1>8. Numbered(users)'
  <2>1. \A u \in Registered' : users'[u].nr \in 1 .. n + 1
    BY <1>2, <1>3, <1>5, <1>6, <1>7
  <2> QED
    BY <1>2, <1>5, <2>1 DEF Numbered, Registered
<1>9. InvitationForest'
  <2> USE DEF Registered
  <2>1. /\ \A u, v \in Registered :
             users[u].domain = users[v].domain /\ users[u].domain # None => u = v
        /\ \A u, v \in Registered : users[u].nr = users[v].nr => u = v
        /\ \A u \in Registered : users[u].parent # None =>
             users[u].parent \in Registered /\ users[users[u].parent].nr < users[u].nr
    BY DEF RegInv, RegistrationInv, InvitationForest, Forest
  <2> HIDE DEF Registered
  <2>2. \A u, v \in Registered' :
          users'[u].domain = users'[v].domain /\ users'[u].domain # None => u = v
    BY <1>1, <1>3, <1>5, <1>6, <2>1 DEF Taken
  <2>3. \A u, v \in Registered' : users'[u].nr = users'[v].nr => u = v
    <3>1. \A u \in Registered : users[u].nr # n + 1
      BY <1>2, <1>7
    <3> QED
      BY <1>3, <1>5, <1>6, <2>1, <3>1
  <2>4. ASSUME NEW u \in Registered', users'[u].parent # None
        PROVE  users'[u].parent \in Registered' /\ users'[users'[u].parent].nr < users'[u].nr
    <3>1. CASE u = x
      <4>1. w.parent \in Registered
        BY <1>1, <1>3, <1>6, <2>4, <3>1 DEF Honest
      <4> QED
        BY <1>2, <1>3, <1>5, <1>6, <1>7, <3>1, <4>1
    <3>2. CASE u # x
      BY <1>5, <1>6, <2>1, <2>4, <3>2
    <3> QED
      BY <3>1, <3>2
  <2> QED
    BY <2>2, <2>3, <2>4 DEF InvitationForest, Forest, Registered
<1>10. PICK v \in Visit :
         /\ register' = [register EXCEPT ![h] = v]
         /\ v.id = x /\ v.domain = w.domain /\ v.parent = w.parent /\ v.host = w.host
         /\ v.before = w.before
         /\ \/ v.at = "grant" /\ v.said = "nothing" /\ failures' = failures
            \/ v.at = "idle" /\ v.said = "error" /\ failures' > 0
         /\ failures' \in 0 .. MaxFailures /\ failures' >= failures
  <2>1. CASE NoFault /\ register' = [register EXCEPT ![h].at = "grant"]
    <3>1. [w EXCEPT !.at = "grant"] \in Visit
      BY <1>1 DEF Visit
    <3> QED
      BY <1>1, <2>1, <3>1, FaultCounts DEF Visit, NoFault
  <2>2. CASE Fault /\ register' = [register EXCEPT ![h].at = "idle", ![h].said = "error"]
    <3>1. [w EXCEPT !.at = "idle", !.said = "error"] \in Visit
      BY <1>1 DEF Visit
    <3>2. LET v == [w EXCEPT !.at = "idle", !.said = "error"] IN
            /\ v.id = x /\ v.domain = w.domain /\ v.parent = w.parent /\ v.host = w.host
            /\ v.before = w.before /\ v.at = "idle" /\ v.said = "error"
      BY <1>1 DEF Visit
    <3> QED
      BY <2>2, <3>1, <3>2, FaultCounts
  <2> QED
    BY <2>1, <2>2 DEF Create
<1>11. \A g \in Handlers : register'[g] = IF g = h THEN v ELSE register[g]
  BY <1>10 DEF RegInv, RegistrationInv, RegistrationTypeOK
<1>12. \A g \in Handlers : Honest(register[g]) /\ register[g] \in Visit
  BY AllHonest, AnyVisit
<1>13. /\ \A u \in Registered : users'[u] = users[u] /\ u \in Registered'
       /\ \A i \in Ids : users[i] # None => users'[i] # None
       /\ \A d : Taken(d) => \E u \in Registered' : users'[u].domain = d
  BY <1>2, <1>5, <1>6 DEF Taken, Registered, Joined
<1>14. RegistrationTypeOK'
  <2>1. users' \in [Ids -> User \cup {None}]
    BY <1>3, <1>4
  <2> QED
    BY <1>4, <1>10, <2>1 DEF RegInv, RegistrationInv, RegistrationTypeOK
<1>15. ASSUME NEW g \in Handlers
       PROVE  LET r == register'[g] IN
              /\ r.at \in {"domain", "create", "grant"} =>
                   /\ r.parent # None => r.parent \in Registered' /\ users'[r.parent].domain = r.host
                   /\ r.parent = None => \A u \in r.before : users'[u].domain # r.host
              /\ r.before \subseteq Registered'
              /\ r.at = "grant" => users'[r.id] # None
              /\ r.at # "idle" => r.said = "nothing"
              /\ r.said = "exists" =>
                   \/ users'[r.id] # None
                   \/ r.domain # None /\ \E u \in Registered' : users'[u].domain = r.domain
              /\ r.said = "ok" => users'[r.id] # None
  <2>1. CASE g # h
    <3>1. register'[g] = register[g] /\ register[g].id \in Ids
      BY <1>11, <1>12, <2>1 DEF Visit
    <3>2. Honest(register[g])
      BY <1>12
    <3> QED
      BY <1>13, <3>1, <3>2 DEF Honest
  <2>2. CASE g = h
    <3>1. register'[g] = v
      BY <1>11, <2>2
    <3> QED
      BY <1>1, <1>3, <1>6, <1>10, <1>13, <3>1 DEF Honest
  <2> QED
    BY <2>1, <2>2
<1>16. InviterFound' /\ ExistsIsTrue'
  BY <1>15 DEF InviterFound, ExistsIsTrue, Taken, Registered
<1>17. CouponsComplete'
  <2>1. failures \in Nat /\ failures' \in Nat
    BY <1>10, FaultCounts
  <2>2. ASSUME NEW u \in Registered', coupons'[u] < Campaigns, failures' = 0
        PROVE  \E g \in Handlers : register'[g].at = "grant" /\ register'[g].id = u
    <3>1. v.at = "grant" /\ failures = 0
      BY <1>10, <2>1, <2>2
    <3>2. CASE u = x
      BY <1>10, <1>11, <3>1, <3>2
    <3>3. CASE u # x
      <4>1. PICK g \in Handlers : register[g].at = "grant" /\ register[g].id = u
        BY <1>4, <1>5, <2>2, <3>1, <3>3 DEF RegInv, AnswersTrue, CouponsComplete
      <4>2. g # h
        BY <1>1, <4>1
      <4> QED
        BY <1>11, <4>1, <4>2
    <3> QED
      BY <3>2, <3>3
  <2> QED
    BY <2>1, <2>2, <1>10 DEF CouponsComplete
<1> QED
  BY <1>8, <1>9, <1>14, <1>15, <1>16, <1>17 DEF RegInv, RegistrationInv, AnswersTrue

RegisterAny == \E h \in Handlers : \/ \E id \in Ids, host \in Hosts : RegisterBegin(h, id, host)
                                   \/ RegisterStep(h)

LEMMA RegistrationKeeps ==
  ASSUME RegInv, RegisterAny
  PROVE  RegInv' /\ \A u \in Registered : u \in Registered' /\ users'[u] = users[u]
<1>1. RegInv'
  <2>1. PICK h \in Handlers : \/ \E id \in Ids, host \in Hosts : RegisterBegin(h, id, host)
                              \/ RegisterStep(h)
    BY DEF RegisterAny
  <2>2. CASE \E id \in Ids, host \in Hosts : RegisterBegin(h, id, host)
    BY <2>2, RegisterBeginKeeps
  <2>3. CASE RegisterStep(h)
    <3>1. ResolveInvite(h) \/ (\E d \in Domains : AssignDomain(h, d)) => RegInv'
      BY ResolveInviteKeeps, AssignDomainKeeps
    <3>2. NoDomain(h) \/ CreateRefused(h) \/ RegisterEnds(h) \/ RegisterFails(h) => RegInv'
      BY EndingsKeep
    <3>3. Create(h) \/ GrantCoupon(h) => RegInv'
      BY CreateKeeps, GrantCouponKeeps
    <3> QED
      BY <2>3, <3>1, <3>2, <3>3, Zenon DEF RegisterStep
  <2> QED
    BY <2>1, <2>2, <2>3
<1>2. UNCHANGED users \/ \E h \in Handlers : Create(h)
  BY DEF RegisterAny, RegisterStep, RegisterBegin, ResolveInvite, AssignDomain, NoDomain,
         CreateRefused, GrantCoupon, RegisterEnds, RegisterFails
<1>3. ASSUME NEW h \in Handlers, Create(h)
      PROVE  \A u \in Registered : u \in Registered' /\ users'[u] = users[u]
  <2>1. /\ users' = [users EXCEPT ![register[h].id] = NewUser(register[h])]
        /\ register[h].id \notin Registered
    BY <1>3 DEF Create, Clashes, Registered, Joined
  <2> QED
    BY <2>1 DEF RegInv, RegistrationInv, RegistrationTypeOK, Registered, Joined
<1>4. UNCHANGED users => \A u \in Registered : u \in Registered' /\ users'[u] = users[u]
  BY DEF Registered, Joined
<1> QED
  BY <1>1, <1>2, <1>3, <1>4

\* A step of another component.
LEMMA RowsUnchanged ==
  ASSUME RegInv, UNCHANGED users, UNCHANGED register, UNCHANGED coupons, NoFault \/ Fault
  PROVE  RegInv'
<1>1. Registered' = Registered /\ \A u \in Registered : Same(users', u)
  BY DEF Registered, Joined, Same
<1>2. users' \in [Ids -> User \cup {None}]
  BY DEF RegInv, RegistrationInv, RegistrationTypeOK
<1>3. failures' \in 0 .. MaxFailures /\ failures' >= failures
  BY FaultCounts
<1> QED
  BY <1>1, <1>2, <1>3, RowsKept

-----------------------------------------------------------------------------
(* Levels. *)

\* A run has told nobody before it raises; it is going to raise members, and as long as it
\* is alone above what they have; and of two runs each knows of the other.
LevelInv ==
  /\ SyncTypeOK
  /\ \A r \in Replicas : sync[r].at # "users" => sync[r].told = {}
  /\ \A r \in Replicas, u \in Ids : sync[r].at = "users" /\ sync[r].goal[u] # None =>
       /\ u \in Registered
       /\ u \notin sync[r].told /\ ~sync[r].shared => Above(sync[r].goal[u], u)
  /\ \A r, q \in Replicas : r # q /\ sync[r].at # "idle" /\ sync[q].at # "idle" => sync[r].shared

LEMMA RowTypes ==
  ASSUME RegInv
  PROVE  users \in [Ids -> User \cup {None}]
BY DEF RegInv, RegistrationInv, RegistrationTypeOK

LEMMA TierTypes ==
  ASSUME RegInv
  PROVE  \A u \in Registered : users[u] \in User /\ users[u].tier \in Tiers /\ users[u] # None
BY DEF RegInv, RegistrationInv, RegistrationTypeOK, Registered, Joined, User

\* As long as no member's level changes, the runs do not notice who else registers.
LEMMA LevelsKept ==
  ASSUME LevelInv, UNCHANGED sync, enabled' \in SUBSET Tiers, paid' \in [Ids -> Nat],
         \A u \in Registered : u \in Registered' /\ users'[u] = users[u]
  PROVE  LevelInv'
BY DEF LevelInv, SyncTypeOK, Above, LevelOf

\* A step of a run that writes no row.
LEMMA RunKept ==
  ASSUME LevelInv, NEW r \in Replicas, NEW run \in Run, sync' = [sync EXCEPT ![r] = run],
         UNCHANGED <<enabled, paid, users>>,
         run.at # "users" => run.told = {},
         \A u \in Ids : run.at = "users" /\ run.goal[u] # None =>
           u \in Registered /\ (u \notin run.told /\ ~run.shared => Above(run.goal[u], u)),
         run.at # "idle" => sync[r].at # "idle" /\ run.shared = sync[r].shared
  PROVE  LevelInv'
<1>1. \A q \in Replicas : sync'[q] = IF q = r THEN run ELSE sync[q]
  BY DEF LevelInv, SyncTypeOK
<1>2. SyncTypeOK'
  BY DEF LevelInv, SyncTypeOK
<1>3. Registered' = Registered /\ \A t, u : Above(t, u)' <=> Above(t, u)
  BY DEF Registered, Above, LevelOf
<1> QED
  BY <1>1, <1>2, <1>3 DEF LevelInv

LEMMA AnyRun ==
  ASSUME LevelInv, NEW r \in Replicas
  PROVE  sync[r] \in Run
BY DEF LevelInv, SyncTypeOK

LEMMA NoRunType == NoRun \in Run /\ NoRun.at = "idle" /\ NoRun.told = {}
BY DEF NoRun, Run

LEMMA SyncBeginKeeps ==
  ASSUME LevelInv, NEW r \in Replicas, SyncBegin(r)
  PROVE  LevelInv'
<1> DEFINE others == {q \in Replicas \ {r} : sync[q].at # "idle"}
           mine == [NoRun EXCEPT !.at = "count", !.tiers = enabled, !.shared = others # {}]
<1>1. /\ \A q \in Replicas : sync'[q] =
           IF q = r THEN mine
           ELSE IF q \in others THEN [sync[q] EXCEPT !.shared = TRUE] ELSE sync[q]
      /\ sync' = [q \in Replicas |-> sync'[q]]
  BY DEF SyncBegin
<1>2. /\ mine \in Run /\ mine.at = "count" /\ mine.told = {}
      /\ mine.shared = (others # {})
  BY DEF Run, NoRun, LevelInv, SyncTypeOK
<1>3. \A q \in Replicas : LET s == [sync[q] EXCEPT !.shared = TRUE] IN
        /\ s \in Run /\ s.shared /\ s.at = sync[q].at
        /\ s.told = sync[q].told /\ s.goal = sync[q].goal
  BY AnyRun DEF Run
<1>4. UNCHANGED <<enabled, paid, users>> /\ sync[r].at = "idle"
  BY DEF SyncBegin
<1> HIDE DEF mine
<1>5. SyncTypeOK'
  <2>1. \A q \in Replicas : sync'[q] \in Run
    BY <1>1, <1>2, <1>3, AnyRun
  <2> QED
    BY <1>1, <1>4, <2>1 DEF LevelInv, SyncTypeOK
<1>6. \A q \in Replicas \ {r} :
        /\ sync'[q].at = sync[q].at /\ sync'[q].told = sync[q].told
        /\ sync'[q].goal = sync[q].goal /\ (sync[q].shared => sync'[q].shared)
        /\ sync[q].at # "idle" => sync'[q].shared
  BY <1>1, <1>3
<1>7. sync'[r].at = "count" /\ sync'[r].told = {} /\ sync'[r].shared = (others # {})
  BY <1>1, <1>2
<1>8. Registered' = Registered /\ users' = users
  BY <1>4 DEF Registered
<1>9. \A q \in Replicas : sync'[q].at # "users" => sync'[q].told = {}
  BY <1>6, <1>7 DEF LevelInv
<1>10. \A q \in Replicas, u \in Ids : sync'[q].at = "users" /\ sync'[q].goal[u] # None =>
         /\ u \in Registered'
         /\ u \notin sync'[q].told /\ ~sync'[q].shared =>
              Rank[sync'[q].goal[u]] > Rank[users'[u].tier]
  BY <1>6, <1>7, <1>8 DEF LevelInv, Above, LevelOf
<1>11. \A p, q \in Replicas : p # q /\ sync'[p].at # "idle" /\ sync'[q].at # "idle" =>
         sync'[p].shared
  <2> TAKE p, q \in Replicas
  <2> HAVE p # q /\ sync'[p].at # "idle" /\ sync'[q].at # "idle"
  <2>1. CASE p = r
    <3>1. q \in others
      BY <1>6, <2>1
    <3> QED
      BY <1>7, <2>1, <3>1
  <2>2. CASE p # r
    BY <1>6, <2>2
  <2> QED
    BY <2>1, <2>2
<1> QED
  BY <1>5, <1>9, <1>10, <1>11 DEF LevelInv, Above, LevelOf

\* A run that has read no users yet, or ends.
LEMMA EarlyKeeps ==
  ASSUME LevelInv, NEW r \in Replicas, NEW run \in Run, sync' = [sync EXCEPT ![r] = run],
         UNCHANGED <<enabled, paid, users>>,
         run.at # "users", run.told = {},
         run.at # "idle" => sync[r].at # "idle" /\ run.shared = sync[r].shared
  PROVE  LevelInv'
BY RunKept

LEMMA CountInviteesKeeps ==
  ASSUME RegInv, LevelInv, NEW r \in Replicas, CountInvitees(r)
  PROVE  LevelInv'
<1> DEFINE run == [sync[r] EXCEPT !.at = "sum",
                                  !.invites = [u \in Ids |-> Cardinality(Invitees(u))]]
<1>1. \A u \in Ids : Cardinality(Invitees(u)) \in Nat
  BY FS_Subset, FS_CardinalityType DEF RegInv, Numbered, Registered, Invitees
<1>2. run \in Run
  BY <1>1, AnyRun DEF Run
<1>3. run.at = "sum" /\ run.told = {} /\ run.shared = sync[r].shared
  BY AnyRun DEF Run, LevelInv, CountInvitees
<1>4. /\ sync' = [sync EXCEPT ![r] = run] /\ sync[r].at = "count"
      /\ UNCHANGED <<enabled, paid, users>>
  BY DEF CountInvitees
<1> HIDE DEF run
<1> QED
  BY <1>2, <1>3, <1>4, EarlyKeeps

LEMMA SumPaidKeeps ==
  ASSUME LevelInv, NEW r \in Replicas, SumPaid(r)
  PROVE  LevelInv'
<1> DEFINE goal == [u \in Ids |-> BestTier(sync[r].tiers, sync[r].invites[u], InviteesPaid(u))]
           run == [sync[r] EXCEPT !.at = "list", !.tiers = {}, !.invites = NoRun.invites,
                                  !.goal = goal]
<1>1. goal \in [Ids -> Tiers \cup {None}]
  BY AnyRun, BestTierType DEF Run
<1>2. sync' = [sync EXCEPT ![r] = run] /\ sync[r].at = "sum" /\ UNCHANGED <<enabled, paid, users>>
  BY DEF SumPaid
<1> HIDE DEF goal
<1>3. run \in Run
  BY <1>1, AnyRun, NoRunType DEF Run
<1>4. run.at = "list" /\ run.told = {} /\ run.shared = sync[r].shared
  BY <1>2, AnyRun DEF Run, LevelInv
<1> HIDE DEF run
<1> QED
  BY <1>2, <1>3, <1>4, EarlyKeeps

LEMMA ListUsersKeeps ==
  ASSUME LevelInv, NEW r \in Replicas, ListUsers(r)
  PROVE  LevelInv'
<1> DEFINE goal == [u \in Ids |->
             IF u \in Registered /\ sync[r].goal[u] # None /\ Above(sync[r].goal[u], u)
             THEN sync[r].goal[u] ELSE None]
           run == [sync[r] EXCEPT !.at = "users", !.goal = goal]
<1>1. goal \in [Ids -> Tiers \cup {None}]
  BY AnyRun DEF Run
<1>2. sync' = [sync EXCEPT ![r] = run] /\ sync[r].at = "list" /\ UNCHANGED <<enabled, paid, users>>
  BY DEF ListUsers
<1>3. \A u \in Ids : goal[u] # None => u \in Registered /\ Above(goal[u], u)
  OBVIOUS
<1> HIDE DEF goal
<1>4. run \in Run /\ run.at = "users" /\ run.shared = sync[r].shared /\ run.goal = goal
  BY <1>1, AnyRun DEF Run
<1> HIDE DEF run
<1> QED
  BY <1>2, <1>3, <1>4, RunKept

LEMMA RaiseKeeps ==
  ASSUME RegInv, LevelInv, NEW r \in Replicas, NEW u \in Ids, Raise(r, u),
         UNCHANGED register, UNCHANGED coupons
  PROVE  RegInv' /\ LevelInv'
<1> DEFINE t == sync[r].goal[u]
           row == [users[u] EXCEPT !.tier = t]
           run == [sync[r] EXCEPT !.told = @ \cup {u}]
<1>1. /\ sync[r].at = "users" /\ t # None /\ users' = [users EXCEPT ![u] = row]
      /\ sync' = [sync EXCEPT ![r] = run] /\ UNCHANGED <<enabled, paid, inbox>> /\ NoFault
  BY DEF Raise, UpdateVipConfigID
<1>2. u \in Registered /\ t \in Tiers
  BY <1>1, AnyRun DEF LevelInv, Run
<1>3. /\ row \in User /\ row # None /\ row.tier = t
      /\ row.nr = users[u].nr /\ row.parent = users[u].parent /\ row.domain = users[u].domain
  <2>1. row \in User /\ row.tier = t
        /\ row.nr = users[u].nr /\ row.parent = users[u].parent /\ row.domain = users[u].domain
    BY <1>2, TierTypes DEF User
  <2> QED
    BY <2>1, UserAssumption
<1> HIDE DEF row
<1>4. /\ users' \in [Ids -> User \cup {None}] /\ users'[u] = row
      /\ \A v \in Ids \ {u} : users'[v] = users[v]
  BY <1>1, <1>3 DEF RegInv, RegistrationInv, RegistrationTypeOK
<1>5. Registered' = Registered
  BY <1>2, <1>3, <1>4 DEF Registered, Joined
<1>6. run \in Run /\ run.at = "users" /\ run.goal = sync[r].goal
      /\ run.told = sync[r].told \cup {u} /\ run.shared = sync[r].shared
  BY <1>1, AnyRun DEF Run
<1> HIDE DEF run
<1>7. \A q \in Replicas : sync'[q] = IF q = r THEN run ELSE sync[q]
  BY <1>1 DEF LevelInv, SyncTypeOK
<1>8. SyncTypeOK'
  BY <1>1, <1>6 DEF LevelInv, SyncTypeOK
<1>9. ASSUME NEW q \in Replicas, NEW v \in Ids, sync'[q].at = "users", sync'[q].goal[v] # None
      PROVE  /\ v \in Registered'
             /\ v \notin sync'[q].told /\ ~sync'[q].shared =>
                  Rank[sync'[q].goal[v]] > Rank[users'[v].tier]
  <2>1. CASE q = r
    <3>1. CASE v = u
      BY <1>2, <1>5, <1>6, <1>7, <2>1, <3>1
    <3>2. CASE v # u
      <4>1. sync'[q] = run
        BY <1>7, <2>1
      <4>2. sync[r].goal[v] # None /\ users'[v] = users[v]
        BY <1>4, <1>6, <1>9, <3>2, <4>1
      <4>3. /\ v \in Registered
            /\ v \notin sync[r].told /\ ~sync[r].shared =>
                 Rank[sync[r].goal[v]] > Rank[users[v].tier]
        BY <1>1, <4>2 DEF LevelInv, Above, LevelOf
      <4> QED
        BY <1>5, <1>6, <4>1, <4>2, <4>3
    <3> QED
      BY <3>1, <3>2
  <2>2. CASE q # r
    <3>1. sync'[q] = sync[q] /\ sync[q].shared
      BY <1>1, <1>7, <1>9, <2>2 DEF LevelInv
    <3> QED
      BY <1>5, <1>9, <3>1 DEF LevelInv
  <2> QED
    BY <2>1, <2>2
<1>10. \A q \in Replicas : sync'[q].at = sync[q].at /\ sync'[q].shared = sync[q].shared
                           /\ (sync'[q].at # "users" => sync'[q].told = sync[q].told)
  BY <1>1, <1>6, <1>7
<1>11. LevelInv'
  BY <1>8, <1>9, <1>10 DEF LevelInv, Above, LevelOf
<1>12. RegInv'
  <2>1. \A v \in Registered : Same(users', v)
    BY <1>2, <1>3, <1>4, TierTypes DEF Same, Registered, Joined
  <2> QED
    BY <1>1, <1>4, <1>5, <2>1, FaultCounts, RowsKept
<1> QED
  BY <1>11, <1>12

\* The user is done: nothing more is given to him.
LEMMA DoneKeeps ==
  ASSUME LevelInv, NEW r \in Replicas, NEW u \in Ids, sync[r].at = "users",
         sync' = [sync EXCEPT ![r].told = @ \ {u}, ![r].goal[u] = None],
         UNCHANGED <<enabled, paid, users>>
  PROVE  LevelInv'
<1> DEFINE goal == [sync[r].goal EXCEPT ![u] = None]
           run == [sync[r] EXCEPT !.told = @ \ {u}, !.goal = goal]
<1>1. sync' = [sync EXCEPT ![r] = run]
  BY AnyRun DEF Run
<1>2. goal \in [Ids -> Tiers \cup {None}] /\ goal[u] = None
      /\ \A v \in Ids \ {u} : goal[v] = sync[r].goal[v]
  BY AnyRun DEF Run
<1> HIDE DEF goal
<1>3. /\ run \in Run /\ run.at = "users" /\ run.goal = goal
      /\ run.told = sync[r].told \ {u} /\ run.shared = sync[r].shared
  BY <1>2, AnyRun DEF Run
<1> HIDE DEF run
<1>4. ASSUME NEW v \in Ids, run.goal[v] # None
      PROVE  v \in Registered /\ (v \notin run.told /\ ~run.shared => Above(run.goal[v], v))
  <2>1. v # u /\ goal[v] = sync[r].goal[v]
    BY <1>2, <1>3, <1>4
  <2> QED
    BY <1>3, <1>4, <2>1 DEF LevelInv
<1> QED
  BY <1>1, <1>3, <1>4, RunKept

LEMMA EndsKeep ==
  ASSUME LevelInv, NEW r \in Replicas, SyncEnds(r) \/ SyncFails(r)
  PROVE  LevelInv'
<1>1. sync' = [sync EXCEPT ![r] = NoRun] /\ UNCHANGED <<enabled, paid, users>>
  BY DEF SyncEnds, SyncFails
<1> QED
  BY <1>1, NoRunType, EarlyKeeps

\* What a step of a run leaves alone, and what it does to the levels.
LEMMA JobKeeps ==
  ASSUME RegInv, LevelInv, NEW r \in Replicas, UNCHANGED register, UNCHANGED coupons
  PROVE  SyncStep(r) \/ SyncFault(r) => RegInv' /\ LevelInv'
<1>1. ASSUME UNCHANGED users, NoFault \/ Fault
      PROVE  RegInv'
  BY <1>1, RowsUnchanged
<1>2. CASE SyncBegin(r)
  <2>1. UNCHANGED users /\ (NoFault \/ Fault)
    BY <1>2 DEF SyncBegin
  <2> QED
    BY <1>1, <1>2, <2>1, SyncBeginKeeps
<1>3. CASE CountInvitees(r)
  <2>1. UNCHANGED users /\ (NoFault \/ Fault)
    BY <1>3 DEF CountInvitees
  <2> QED
    BY <1>1, <1>3, <2>1, CountInviteesKeeps
<1>4. CASE SumPaid(r)
  <2>1. UNCHANGED users /\ (NoFault \/ Fault)
    BY <1>4 DEF SumPaid
  <2> QED
    BY <1>1, <1>4, <2>1, SumPaidKeeps
<1>5. CASE ListUsers(r)
  <2>1. UNCHANGED users /\ (NoFault \/ Fault)
    BY <1>5 DEF ListUsers
  <2> QED
    BY <1>1, <1>5, <2>1, ListUsersKeeps
<1>6. CASE SyncEnds(r) \/ SyncFails(r)
  <2>1. UNCHANGED users /\ (NoFault \/ Fault)
    BY <1>6 DEF SyncEnds, SyncFails
  <2> QED
    BY <1>1, <1>6, <2>1, EndsKeep
<1>7. ASSUME NEW u \in Ids, Raise(r, u)
      PROVE  RegInv' /\ LevelInv'
  BY <1>7, RaiseKeeps
<1>8. ASSUME NEW u \in Ids, Notify(r, u) \/ UserFails(r, u)
      PROVE  RegInv' /\ LevelInv'
  <2>1. sync[r].at = "users"
    BY <1>8 DEF Notify, UserFails, LevelInv
  <2>2. /\ sync' = [sync EXCEPT ![r].told = @ \ {u}, ![r].goal[u] = None]
        /\ UNCHANGED <<enabled, paid, users>> /\ (NoFault \/ Fault)
    BY <1>8 DEF Notify, UserFails
  <2> QED
    BY <1>1, <2>1, <2>2, DoneKeeps
<1> QED
  BY <1>2, <1>3, <1>4, <1>5, <1>6, <1>7, <1>8 DEF SyncStep, SyncFault

-----------------------------------------------------------------------------
(* The composition. *)

MembersInv == RegInv /\ LevelInv /\ coming \in Traffic

LEMMA InitHolds == Init => MembersInv
<1> SUFFICES ASSUME Init PROVE MembersInv
  OBVIOUS
<1>1. PICK day \in Days :
        /\ RegistrationInit(day.members) /\ SyncInit(day.tiers) /\ coming = day.traffic
  BY DEF Init
<1>2. /\ day.members \in [Ids -> User \cup {None}] /\ Numbered(day.members) /\ Forest(day.members)
      /\ day.tiers \subseteq Tiers /\ day.traffic \in Traffic
  BY DaysAssumption
<1>3. Idle \in Visit /\ Idle.at = "idle" /\ Idle.said = "nothing" /\ Idle.before = {}
  BY FaultAssumption DEF Idle, Visit, Hosts
<1>4. /\ users = day.members /\ \A h \in Handlers : register[h] = Idle
      /\ coupons = [i \in Ids |-> IF users[i] = None THEN 0 ELSE Campaigns]
      /\ register = [h \in Handlers |-> Idle] /\ failures = 0
  BY <1>1 DEF RegistrationInit
<1>5. RegistrationTypeOK
  BY <1>2, <1>3, <1>4, RegistrationAssumption, FaultAssumption DEF RegistrationTypeOK
<1>6. InvitationForest /\ Numbered(users) /\ InviterFound /\ ExistsIsTrue
  BY <1>2, <1>3, <1>4 DEF InvitationForest, InviterFound, ExistsIsTrue
<1>7. CouponsComplete
  BY <1>4, RegistrationAssumption DEF CouponsComplete, Registered, Joined
<1>8. RegInv
  BY <1>3, <1>4, <1>5, <1>6, <1>7 DEF RegInv, RegistrationInv, AnswersTrue
<1>9. /\ enabled = day.tiers /\ paid = [u \in Ids |-> 0] /\ sync = [r \in Replicas |-> NoRun]
  BY <1>1 DEF SyncInit
<1>10. LevelInv
  BY <1>2, <1>9, NoRunType DEF LevelInv, SyncTypeOK
<1> QED
  BY <1>1, <1>2, <1>8, <1>10 DEF MembersInv

\* Who and what comes stays what it may be.
LEMMA TrafficType ==
  ASSUME coming \in Traffic,
         NEW kind \in {"registrations", "readings", "changes", "requests", "orders", "edits",
                       "views", "shelving"},
         Comes(kind)
  PROVE  coming' \in Traffic
BY DEF Comes, Traffic

\* A step that concerns neither the users nor the levels.
LEMMA ElseKeeps ==
  ASSUME MembersInv, UNCHANGED <<registrationVars, syncVars>>, NoFault \/ Fault,
         coming' \in Traffic
  PROVE  MembersInv'
<1>1. /\ UNCHANGED <<users, register, coupons>> /\ UNCHANGED <<enabled, paid, sync>>
      /\ RegInv /\ LevelInv
  BY DEF registrationVars, syncVars, MembersInv
<1>2. RegInv'
  BY <1>1, RowsUnchanged
<1>3. /\ enabled' \in SUBSET Tiers /\ paid' \in [Ids -> Nat]
      /\ \A u \in Registered : u \in Registered' /\ users'[u] = users[u]
  BY <1>1 DEF LevelInv, SyncTypeOK, Registered, Joined
<1>4. LevelInv'
  BY <1>1, <1>3, LevelsKept
<1> QED
  BY <1>2, <1>4 DEF MembersInv

LEMMA ProfilesFault ==
  ASSUME NEW d \in Desks, NEW u
  PROVE  DeskBegin(d, u) \/ PageInquiry(u) \/ DeskStep(d) => NoFault \/ Fault
<1>1. DeskBegin(d, u) => NoFault
  BY DEF DeskBegin, SaveInvoice, SetDefault, SubmitInquiry, ChangePassword, Login
<1>2. PageInquiry(u) => NoFault
  BY DEF PageInquiry
<1>3. DeskStep(d) => NoFault \/ Fault
  <2>1. Clear(d) \/ ClearFails(d) \/ RequestFails(d) => NoFault \/ Fault
    BY DEF Clear, ClearFails, RequestFails
  <2>2. WriteInvoice(d) \/ WriteInquiry(d) \/ WritePassword(d) \/ LoginAnswers(d) => NoFault
    BY DEF WriteInvoice, WriteInquiry, WritePassword, LoginAnswers
  <2> QED
    BY <2>1, <2>2, Zenon DEF DeskStep
<1> QED
  BY <1>1, <1>2, <1>3, Zenon

LEMMA NextKeeps == MembersInv /\ [Next]_vars => MembersInv'
<1> SUFFICES ASSUME MembersInv, [Next]_vars PROVE MembersInv'
  OBVIOUS
<1> USE DEF registrationVars, syncVars
<1>1. CASE Registrations
  <2>1. /\ coming' \in Traffic /\ RegisterAny
    <3>1. CASE Comes("registrations") /\ \E h \in Handlers, visit \in coming.visits :
                                           RegisterBegin(h, visit[1], visit[2])
      <4>1. coming.visits \subseteq Ids \X Hosts
        BY DEF MembersInv, Traffic
      <4>2. coming' \in Traffic
        BY <3>1, TrafficType DEF MembersInv
      <4> QED
        BY <3>1, <4>1, <4>2 DEF RegisterAny
    <3>2. CASE coming' = coming /\ \E h \in Handlers : RegisterStep(h)
      BY <3>2 DEF MembersInv, RegisterAny
    <3> QED
      BY <1>1, <3>1, <3>2 DEF Registrations
  <2>2. /\ sync' = sync /\ enabled' = enabled /\ paid' = paid
    BY <1>1 DEF Registrations
  <2>3. RegInv' /\ \A u \in Registered : u \in Registered' /\ users'[u] = users[u]
    BY <2>1, RegistrationKeeps DEF MembersInv
  <2>4. enabled' \in SUBSET Tiers /\ paid' \in [Ids -> Nat]
    BY <2>2 DEF MembersInv, LevelInv, SyncTypeOK
  <2>5. LevelInv'
    BY <2>2, <2>3, <2>4, LevelsKept DEF MembersInv
  <2> QED
    BY <2>1, <2>3, <2>5 DEF MembersInv
<1>2. CASE Market
  <2>1. /\ coming' \in Traffic
        /\ users' = users /\ sync' = sync /\ NoFault
        /\ enabled' \in SUBSET Tiers /\ paid' \in [Ids -> Nat]
    <3>1. CASE Comes("orders") /\ \E u \in Ids : CompleteOrder(u)
      <4>1. coming' \in Traffic
        BY <3>1, TrafficType DEF MembersInv
      <4> QED
        BY <3>1, <4>1 DEF CompleteOrder, MembersInv, LevelInv, SyncTypeOK
    <3>2. CASE Comes("edits") /\ \E tiers \in coming.offers : EditTiers(tiers)
      <4>1. coming' \in Traffic /\ coming.offers \subseteq SUBSET Tiers
        BY <3>2, TrafficType DEF MembersInv, Traffic
      <4> QED
        BY <3>2, <4>1 DEF EditTiers, MembersInv, LevelInv, SyncTypeOK
    <3> QED
      BY <1>2, <3>1, <3>2 DEF Market
  <2>2. register' = register /\ coupons' = coupons
    BY <1>2 DEF Market
  <2>3. \A u \in Registered : u \in Registered' /\ users'[u] = users[u]
    BY <2>1 DEF Registered, Joined
  <2>4. RegInv'
    BY <2>1, <2>2, RowsUnchanged DEF MembersInv
  <2>5. LevelInv'
    BY <2>1, <2>3, LevelsKept DEF MembersInv
  <2> QED
    BY <2>1, <2>4, <2>5 DEF MembersInv
<1>3. CASE Reads
  <2>1. UNCHANGED <<registrationVars, syncVars>> /\ NoFault
    BY <1>3 DEF Reads, NoFault
  <2>2. coming' \in Traffic
    BY <1>3, TrafficType DEF Reads, ReadLists, ListChanges, MembersInv
  <2> QED
    BY <2>1, <2>2, ElseKeeps
<1>4. CASE Profiles
  <2>1. UNCHANGED <<registrationVars, syncVars>>
    BY <1>4 DEF Profiles
  <2>2. NoFault \/ Fault
    BY <1>4, ProfilesFault DEF Profiles
  <2>3. coming' \in Traffic
    BY <1>4, TrafficType DEF Profiles, MembersInv
  <2> QED
    BY <2>1, <2>2, <2>3, ElseKeeps
<1>5. CASE Shop \/ Learn \/ LookUp \/ SearchLiterature
  <2>1. UNCHANGED <<registrationVars, syncVars>> /\ NoFault
    BY <1>5 DEF Shop, Learn, LookUp, SearchLiterature, memberVars, NoFault
  <2>2. coming' \in Traffic
    BY <1>5, TrafficType DEF Shop, Learn, LookUp, SearchLiterature, MembersInv
  <2> QED
    BY <2>1, <2>2, ElseKeeps
<1>6. CASE Usage \/ Flushes \/ Reports
  <2>1. UNCHANGED <<registrationVars, syncVars>> /\ NoFault /\ coming' = coming
    BY <1>6 DEF Usage, Flushes, Reports, memberVars, NoFault
  <2> QED
    BY <2>1, ElseKeeps DEF MembersInv
<1>7. ASSUME NEW r \in Replicas, JobStep(r) \/ JobFault(r)
      PROVE  MembersInv'
  <2>1. /\ SyncStep(r) \/ SyncFault(r)
        /\ register' = register /\ coupons' = coupons /\ coming' = coming
    BY <1>7 DEF JobStep, JobFault
  <2> QED
    BY <2>1, JobKeeps DEF MembersInv
<1>8. CASE UNCHANGED vars
  <2>1. UNCHANGED <<registrationVars, syncVars>> /\ NoFault /\ coming' = coming
    BY <1>8 DEF vars, NoFault
  <2> QED
    BY <2>1, ElseKeeps DEF MembersInv
<1> QED
  BY <1>1, <1>2, <1>3, <1>4, <1>5, <1>6, <1>7, <1>8 DEF Next

LEMMA MembersInvariant == Spec => []MembersInv
BY InitHolds, NextKeeps, PTL DEF Spec

\* Whatever requests for one identity, one host and one domain overlap and wherever they
\* break off: a domain leads to one member, invitations are a forest, and who is found to
\* have invited owns the host the visitor came by.
THEOREM RegistrationHolds == Spec => []RegistrationInv
<1>1. MembersInv => RegistrationInv
  BY DEF MembersInv, RegInv
<1> QED
  BY <1>1, MembersInvariant, PTL

\* Who is sent away exists, who is let in is there, and no member lacks a welcome coupon
\* unless it is on its way or something failed.
THEOREM AnswersHold == Spec => []AnswersTrue
<1>1. MembersInv => AnswersTrue
  BY DEF MembersInv, RegInv
<1> QED
  BY <1>1, MembersInvariant, PTL

\* Nobody more is to be told.
LEMMA NoneTold ==
  ASSUME LevelInv, NEW r \in Replicas, NEW run, run.told \subseteq sync[r].told,
         sync' = [sync EXCEPT ![r] = run]
  PROVE  \A q \in Replicas : sync'[q].told \subseteq sync[q].told
BY DEF LevelInv, SyncTypeOK

\* A user is told only by the step that raises him.
LEMMA OnlyRaiseTells ==
  ASSUME MembersInv, Next, NEW r \in Replicas, NEW u \in Ids,
         u \in sync'[r].told \ sync[r].told
  PROVE  Raise(r, u)
<1>1. sync' # sync
  OBVIOUS
<1>2. PICK q \in Replicas : SyncStep(q) \/ SyncFault(q)
  <2>1. Registrations \/ Market \/ Profiles \/ Reads => sync' = sync
    BY DEF Registrations, Market, Reads, Profiles, syncVars, CompleteOrder, EditTiers
  <2>2. Shop \/ Learn \/ LookUp \/ SearchLiterature \/ Usage \/ Flushes \/ Reports => sync' = sync
    BY DEF Shop, Learn, LookUp, SearchLiterature, Usage, Flushes, Reports, memberVars, syncVars
  <2> QED
    BY <1>1, <2>1, <2>2 DEF Next, JobStep, JobFault
<1>3. sync \in [Replicas -> Run]
  BY DEF MembersInv, LevelInv, SyncTypeOK
<1>4. sync[q] \in Run /\ LevelInv
  BY <1>3 DEF MembersInv
<1>5. ~SyncBegin(q)
  <2> SUFFICES ASSUME SyncBegin(q) PROVE FALSE
    OBVIOUS
  <2>1. \A p \in Replicas : [sync[p] EXCEPT !.shared = TRUE].told = sync[p].told
    BY <1>3 DEF Run
  <2>2. \A e, s : [NoRun EXCEPT !.at = "count", !.tiers = e, !.shared = s].told = {}
    BY DEF NoRun
  <2>3. sync'[r].told \in {{}, sync[r].told}
    BY <2>1, <2>2 DEF SyncBegin
  <2> QED
    BY <2>3
<1>6. ~CountInvitees(q) /\ ~SumPaid(q) /\ ~ListUsers(q)
  <2>1. ASSUME NEW run, run.told = sync[q].told, sync' = [sync EXCEPT ![q] = run]
        PROVE  FALSE
    BY <1>4, <2>1, NoneTold
  <2>2. ASSUME CountInvitees(q)
        PROVE  FALSE
    <3> DEFINE invites == [u1 \in Ids |-> Cardinality(Invitees(u1))]
               run == [sync[q] EXCEPT !.at = "sum", !.invites = invites]
    <3>1. sync' = [sync EXCEPT ![q] = run]
      BY <2>2 DEF CountInvitees
    <3> HIDE DEF invites
    <3>2. run.told = sync[q].told
      BY <1>4 DEF Run
    <3> HIDE DEF run
    <3> QED
      BY <2>1, <3>1, <3>2
  <2>3. ASSUME SumPaid(q)
        PROVE  FALSE
    <3> DEFINE goal == [u1 \in Ids |->
                 BestTier(sync[q].tiers, sync[q].invites[u1], InviteesPaid(u1))]
               run == [sync[q] EXCEPT !.at = "list", !.tiers = {}, !.invites = NoRun.invites,
                                      !.goal = goal]
    <3>1. sync' = [sync EXCEPT ![q] = run]
      BY <2>3 DEF SumPaid
    <3> HIDE DEF goal
    <3>2. run.told = sync[q].told
      BY <1>4 DEF Run
    <3> HIDE DEF run
    <3> QED
      BY <2>1, <3>1, <3>2
  <2>4. ASSUME ListUsers(q)
        PROVE  FALSE
    <3> DEFINE goal == [u1 \in Ids |->
                 IF u1 \in Registered /\ sync[q].goal[u1] # None /\ Above(sync[q].goal[u1], u1)
                 THEN sync[q].goal[u1] ELSE None]
               run == [sync[q] EXCEPT !.at = "users", !.goal = goal]
    <3>1. sync' = [sync EXCEPT ![q] = run]
      BY <2>4 DEF ListUsers
    <3> HIDE DEF goal
    <3>2. run.told = sync[q].told
      BY <1>4 DEF Run
    <3> HIDE DEF run
    <3> QED
      BY <2>1, <3>1, <3>2
  <2> QED
    BY <2>2, <2>3, <2>4
<1>7. ~SyncEnds(q) /\ ~SyncFails(q)
  BY <1>4, NoRunType, NoneTold DEF SyncEnds, SyncFails
<1>8. ASSUME NEW v \in Ids, Notify(q, v) \/ UserFails(q, v)
      PROVE  FALSE
  <2> DEFINE run == [sync[q] EXCEPT !.told = @ \ {v}, !.goal = [@ EXCEPT ![v] = None]]
  <2>1. run.told = sync[q].told \ {v}
    BY <1>4 DEF Run
  <2>2. sync' = [sync EXCEPT ![q] = run]
    BY <1>4, <1>8 DEF Notify, UserFails, Run
  <2> HIDE DEF run
  <2> QED
    BY <1>4, <2>1, <2>2, NoneTold
<1>9. PICK v \in Ids : Raise(q, v)
  BY <1>2, <1>5, <1>6, <1>7, <1>8 DEF SyncStep, SyncFault
<1>10. q = r /\ v = u
  BY <1>3, <1>9 DEF Raise, Run
<1> QED
  BY <1>9, <1>10

\* However long ago the plan was made, whatever has been paid, enabled or disabled since: a
\* run with no other beside it never lowers a level.
THEOREM LevelsOnlyRise == Spec => AloneOnlyRaises
<1>1. ASSUME MembersInv, Next, NEW r \in Replicas, NEW u \in Ids,
             u \in sync'[r].told \ sync[r].told, ~sync[r].shared
      PROVE  Rank[users'[u].tier] > Rank[users[u].tier]
  <2>1. Raise(r, u)
    BY <1>1, OnlyRaiseTells
  <2>2. sync[r].goal[u] # None /\ u \in Registered
        /\ Rank[sync[r].goal[u]] > Rank[users[u].tier]
    BY <1>1, <2>1 DEF Raise, MembersInv, LevelInv, Above, LevelOf
  <2>3. users'[u].tier = sync[r].goal[u]
    BY <1>1, <2>1, <2>2, RowTypes, TierTypes DEF Raise, UpdateVipConfigID, MembersInv, User
  <2> QED
    BY <2>2, <2>3
<1>2. MembersInv /\ [Next]_vars =>
        [\A r \in Replicas, u \in Ids :
           u \in sync'[r].told \ sync[r].told /\ ~sync[r].shared =>
             Rank[users'[u].tier] > Rank[users[u].tier]]_sync
  BY <1>1 DEF vars, syncVars
<1> QED
  BY <1>2, MembersInvariant, PTL DEF Spec, AloneOnlyRaises
=============================================================================
