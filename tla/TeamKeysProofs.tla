--------------------------- MODULE TeamKeysProofs ---------------------------
(* Theorems about TeamKeys, for every family of users and any number of keys, *)
(* handlers, products and orders.                                             *)
EXTENDS TeamKeys, SumTheorems

USE DEF At

\* The values of the fields that a new session starts from.
LEMMA IdleType == Idle \in Session
BY UserAssumption DEF Idle, Session, Phases

\* A key exists or does not: no key is NoKey.
LEMMA KeyNotNoKey == NoKey \notin Key
BY KeyAssumption DEF Key

\* The invariant holds at first.
LEMMA InitTeam == Init => TeamInv
<1> SUFFICES ASSUME Init PROVE TeamInv
  OBVIOUS
<1>1. TypeOK
  BY IdleType, LimitAssumption, BoundAssumption DEF Init, TypeOK
<1>2. OneTeam /\ KeysInFamily /\ MembersInvited
  BY DEF Init, OneTeam, KeysInFamily, MembersInvited
<1>3. SessionsCareful
  BY DEF Init, SessionsCareful, Idle
<1> QED
  BY <1>1, <1>2, <1>3 DEF TeamInv

-----------------------------------------------------------------------------
(* Steps that change only a session. *)

\* Only teams and keys that stay, and sessions of the right type, matter.
LEMMA SessionStep ==
  ASSUME TeamInv, NEW w \in Workers, NEW s \in Session,
         http' = [http EXCEPT ![w] = s],
         UNCHANGED <<sub, keys, teams, orders>>,
         s.phase = "insert_member" => Parent[s.user] = s.head,
         s.phase \in {"find_member", "find_duplicate", "sum_create", "insert_key"}
           => s.head \in {Owner, Parent[Owner]},
         s.phase \in {"find_duplicate", "sum_create", "insert_key"}
           => Parent[s.user] = Owner,
         s.phase \in {"find_key", "find_sub", "sum_update", "update_key"}
           => s.key \in Keys /\ keys[s.key] # NoKey
  PROVE  TeamInv'
<1>1. TypeOK'
  BY DEF TeamInv, TypeOK
<1>2. OneTeam' /\ KeysInFamily' /\ MembersInvited'
  BY DEF TeamInv, OneTeam, KeysInFamily, MembersInvited
<1>3. SessionsCareful'
  <2> SUFFICES ASSUME NEW v \in Workers PROVE SessionsCareful!(v)'
    BY DEF SessionsCareful
  <2>1. CASE v = w
    <3>1. http'[v] = s
      BY <2>1 DEF TeamInv, TypeOK
    <3> QED
      BY <3>1
  <2>2. CASE v # w
    <3>1. http'[v] = http[v]
      BY <2>2 DEF TeamInv, TypeOK
    <3> QED
      BY <3>1 DEF TeamInv, SessionsCareful
  <2> QED
    BY <2>1, <2>2
<1> QED
  BY <1>1, <1>2, <1>3 DEF TeamInv

\* A refused request leaves nothing behind.
LEMMA RefuseStep ==
  ASSUME TeamInv, NEW w \in Workers, Refuse(w),
         UNCHANGED <<sub, keys, teams, orders>>
  PROVE  TeamInv'
<1>1. Idle.phase = "idle"
  BY DEF Idle
<1> QED
  BY <1>1, IdleType, SessionStep DEF Refuse

\* A session that goes on keeps its fields.
LEMMA GotoSession ==
  ASSUME TeamInv, NEW w \in Workers, NEW phase \in Phases, Goto(w, phase)
  PROVE  \E s \in Session :
           /\ http' = [http EXCEPT ![w] = s]
           /\ s.phase = phase
           /\ s.user = http[w].user /\ s.key = http[w].key /\ s.head = http[w].head
<1>1. http[w] \in Session
  BY DEF TeamInv, TypeOK
<1> DEFINE s == [http[w] EXCEPT !.phase = phase]
<1>2. s \in Session
  BY <1>1 DEF Session
<1>3. http' = [http EXCEPT ![w] = s]
  BY DEF Goto
<1> QED
  BY <1>1, <1>2, <1>3 DEF Session

\* The sessions of the others stay careful while keys and teams only grow.
LEMMA OthersCareful ==
  ASSUME TeamInv,
         \A v \in Workers : \/ http'[v] = Idle
                            \/ http'[v] = [http[v] EXCEPT !.fresh = FALSE],
         http' \in [Workers -> Session],
         \A k \in Keys : keys[k] # NoKey => keys'[k] # NoKey
  PROVE  SessionsCareful'
<1> SUFFICES ASSUME NEW v \in Workers PROVE SessionsCareful!(v)'
  BY DEF SessionsCareful
<1>1. CASE http'[v] = Idle
  BY <1>1 DEF Idle
<1>2. CASE http'[v] = [http[v] EXCEPT !.fresh = FALSE]
  <2>1. http[v] \in Session
    BY DEF TeamInv, TypeOK
  <2>2. /\ http'[v].phase = http[v].phase /\ http'[v].user = http[v].user
        /\ http'[v].key = http[v].key     /\ http'[v].head = http[v].head
    BY <1>2, <2>1 DEF Session
  <2> QED
    BY <2>2 DEF TeamInv, SessionsCareful
<1> QED
  BY <1>1, <1>2

\* What a write does to the sessions.
LEMMA DoneSessions ==
  ASSUME TeamInv, NEW w \in Workers, Done(w)
  PROVE  /\ http' \in [Workers -> Session]
         /\ \A v \in Workers : \/ http'[v] = Idle
                               \/ http'[v] = [http[v] EXCEPT !.fresh = FALSE]
<1>1. \A v \in Workers : [http[v] EXCEPT !.fresh = FALSE] \in Session
  BY DEF TeamInv, TypeOK, Session
<1> QED
  BY <1>1, IdleType DEF Done

\* A write of another one's leaves a session as it was, but for its history.
LEMMA OutdateSessions ==
  ASSUME TeamInv, Outdate
  PROVE  /\ http' \in [Workers -> Session]
         /\ \A v \in Workers : \/ http'[v] = Idle
                               \/ http'[v] = [http[v] EXCEPT !.fresh = FALSE]
<1>1. \A v \in Workers : [http[v] EXCEPT !.fresh = FALSE] \in Session
  BY DEF TeamInv, TypeOK, Session
<1> QED
  BY <1>1, IdleType DEF Outdate

-----------------------------------------------------------------------------
(* Requests. *)

\* The head of a new key is the owner, or his inviter.
LEMMA HeadsInFamily ==
  ASSUME TeamInv, NEW h \in Heads
  PROVE  h \in Users /\ h \in {Owner, Parent[Owner]}
<1>1. \A t \in teams : t[2] = Owner => t[1] \in Users /\ t[1] = Parent[Owner]
  BY DEF TeamInv, TypeOK, MembersInvited
<1> QED
  BY <1>1, UserAssumption DEF Heads

\* The steps of requests keep the invariant: a request begins;
LEMMA RequestStep ==
  ASSUME TeamInv, NEW w \in Workers, Request(w)
  PROVE  TeamInv'
<1>1. ASSUME NEW u \in Users, NEW n \in Limits, CreateBegin(w, u, n)
      PROVE  TeamInv'
  <2>1. PICK h \in Heads :
          http' = [http EXCEPT ![w] =
            [Idle EXCEPT !.phase = "find_member", !.user = u, !.limit = n,
                         !.room = sub.limit, !.head = h]]
    BY <1>1 DEF CreateBegin, Begin
  <2> DEFINE s == [Idle EXCEPT !.phase = "find_member", !.user = u, !.limit = n,
                               !.room = sub.limit, !.head = h]
  <2>2. h \in Users /\ h \in {Owner, Parent[Owner]}
    BY HeadsInFamily
  <2>3. s \in Session /\ s.phase = "find_member" /\ s.head = h
    BY <2>2, LimitAssumption DEF TeamInv, TypeOK, Idle, Session, Phases
  <2>4. UNCHANGED <<sub, keys, teams, orders>>
    BY <1>1 DEF CreateBegin
  <2> QED
    BY <2>1, <2>2, <2>3, <2>4, SessionStep
<1>2. ASSUME NEW k \in Keys, NEW n \in Limits, UpdateBegin(w, k, n)
      PROVE  TeamInv'
  <2> DEFINE s == [Idle EXCEPT !.phase = "find_key", !.key = k, !.limit = n]
  <2>1. s \in Session /\ s.phase = "find_key" /\ s.key = k
    BY LimitAssumption, UserAssumption DEF Idle, Session, Phases
  <2>2. http' = [http EXCEPT ![w] = s] /\ keys[k] # NoKey
    BY <1>2 DEF UpdateBegin, Begin
  <2>3. UNCHANGED <<sub, keys, teams, orders>>
    BY <1>2 DEF UpdateBegin
  <2> QED
    BY <2>1, <2>2, <2>3, SessionStep
<1>3. ASSUME NEW owner \in Users, NEW u \in Users, FindInvitee(w, owner, u)
      PROVE  TeamInv'
  <2> DEFINE s == [Idle EXCEPT !.phase = "insert_member", !.user = u,
                               !.head = owner]
  <2>1. s \in Session /\ s.phase = "insert_member" /\ s.user = u /\ s.head = owner
    BY DEF Idle, Session, Phases
  <2>2. http' = [http EXCEPT ![w] = s] /\ Parent[u] = owner
    BY <1>3 DEF FindInvitee, Begin, Addable
  <2>3. UNCHANGED <<sub, keys, teams, orders>>
    BY <1>3 DEF FindInvitee
  <2> QED
    BY <2>1, <2>2, <2>3, SessionStep
<1> QED
  BY <1>1, <1>2, <1>3 DEF Request

-----------------------------------------------------------------------------
(* Reads of a session. *)

\* Going on to a phase of the same request with what the phase wants known.
LEMMA GotoStep ==
  ASSUME TeamInv, NEW w \in Workers, NEW phase \in Phases, Goto(w, phase),
         UNCHANGED <<sub, keys, teams, orders>>,
         phase # "insert_member",
         phase \in {"find_member", "find_duplicate", "sum_create", "insert_key"}
           => http[w].head \in {Owner, Parent[Owner]},
         phase \in {"find_duplicate", "sum_create", "insert_key"}
           => Parent[http[w].user] = Owner,
         phase \in {"find_key", "find_sub", "sum_update", "update_key"}
           => http[w].key \in Keys /\ keys[http[w].key] # NoKey
  PROVE  TeamInv'
<1>1. PICK s \in Session :
        /\ http' = [http EXCEPT ![w] = s]
        /\ s.phase = phase
        /\ s.user = http[w].user /\ s.key = http[w].key /\ s.head = http[w].head
  BY GotoSession
<1> QED
  BY <1>1, SessionStep

\* it finds the member,
LEMMA FindMemberStep ==
  ASSUME TeamInv, NEW w \in Workers, FindMember(w)
  PROVE  TeamInv'
<1>1. UNCHANGED <<sub, keys, teams, orders>>
  BY DEF FindMember
<1>2. CASE <<Owner, http[w].user>> \in teams
  <2>1. Goto(w, "find_duplicate")
    BY <1>2 DEF FindMember
  <2>2. Parent[http[w].user] = Owner
    BY <1>2 DEF TeamInv, MembersInvited
  <2>3. http[w].head \in {Owner, Parent[Owner]}
    BY DEF FindMember, TeamInv, SessionsCareful
  <2> QED
    BY <1>1, <2>1, <2>2, <2>3, GotoStep DEF Phases
<1>3. CASE <<Owner, http[w].user>> \notin teams
  BY <1>1, <1>3, RefuseStep DEF FindMember
<1> QED
  BY <1>2, <1>3

\* finds no key of his,
LEMMA FindDuplicateStep ==
  ASSUME TeamInv, NEW w \in Workers, FindDuplicate(w)
  PROVE  TeamInv'
<1>1. UNCHANGED <<sub, keys, teams, orders>>
  BY DEF FindDuplicate
<1>2. /\ http[w].head \in {Owner, Parent[Owner]}
      /\ Parent[http[w].user] = Owner
  BY DEF FindDuplicate, TeamInv, SessionsCareful
<1>3. CASE Goto(w, "sum_create")
  BY <1>1, <1>2, <1>3, GotoStep DEF Phases
<1>4. CASE Refuse(w)
  BY <1>1, <1>4, RefuseStep
<1> QED
  BY <1>3, <1>4 DEF FindDuplicate

\* adds the limits up, for a new key
LEMMA SumCreateStep ==
  ASSUME TeamInv, NEW w \in Workers, Sum(w, "sum_create", "insert_key")
  PROVE  TeamInv'
<1>1. UNCHANGED <<sub, keys, teams, orders>>
  BY DEF Sum
<1>2. /\ http[w].head \in {Owner, Parent[Owner]}
      /\ Parent[http[w].user] = Owner
  BY DEF Sum, TeamInv, SessionsCareful
<1>3. CASE Goto(w, "insert_key")
  BY <1>1, <1>2, <1>3, GotoStep DEF Phases
<1>4. CASE Refuse(w)
  BY <1>1, <1>4, RefuseStep
<1> QED
  BY <1>3, <1>4 DEF Sum

\* or a new limit;
LEMMA SumUpdateStep ==
  ASSUME TeamInv, NEW w \in Workers, Sum(w, "sum_update", "update_key")
  PROVE  TeamInv'
<1>1. UNCHANGED <<sub, keys, teams, orders>>
  BY DEF Sum
<1>2. http[w].key \in Keys /\ keys[http[w].key] # NoKey
  BY DEF Sum, TeamInv, SessionsCareful
<1>3. CASE Goto(w, "update_key")
  BY <1>1, <1>2, <1>3, GotoStep DEF Phases
<1>4. CASE Refuse(w)
  BY <1>1, <1>4, RefuseStep
<1> QED
  BY <1>3, <1>4 DEF Sum

\* it finds the key,
LEMMA FindKeyStep ==
  ASSUME TeamInv, NEW w \in Workers, NEW caller \in Users, FindKey(w, caller)
  PROVE  TeamInv'
<1>1. UNCHANGED <<sub, keys, teams, orders>>
  BY DEF FindKey
<1>2. http[w].key \in Keys /\ keys[http[w].key] # NoKey
  BY DEF FindKey, TeamInv, SessionsCareful
<1>3. CASE Goto(w, "find_sub")
  BY <1>1, <1>2, <1>3, GotoStep DEF Phases
<1>4. CASE Refuse(w)
  BY <1>1, <1>4, RefuseStep
<1> QED
  BY <1>3, <1>4 DEF FindKey

\* and the subscription;
LEMMA FindSubStep ==
  ASSUME TeamInv, NEW w \in Workers, FindSub(w)
  PROVE  TeamInv'
<1> DEFINE s == [http[w] EXCEPT !.phase = "sum_update", !.room = sub.limit]
<1>1. http[w] \in Session /\ sub.limit \in Nat
  BY DEF TeamInv, TypeOK
<1>2. s \in Session /\ s.phase = "sum_update" /\ s.key = http[w].key
  BY <1>1 DEF Session, Phases
<1>3. http' = [http EXCEPT ![w] = s]
  BY DEF FindSub
<1>4. http[w].key \in Keys /\ keys[http[w].key] # NoKey
  BY DEF FindSub, TeamInv, SessionsCareful
<1>5. UNCHANGED <<sub, keys, teams, orders>>
  BY DEF FindSub
<1> QED
  BY <1>2, <1>3, <1>4, <1>5, SessionStep

-----------------------------------------------------------------------------
(* Writes of a session. *)

\* the key is inserted,
LEMMA InsertKeyStep ==
  ASSUME TeamInv, NEW w \in Workers, InsertKey(w)
  PROVE  TeamInv'
<1> DEFINE row == [user |-> http[w].user, owner |-> http[w].head,
                   limit |-> http[w].limit, status |-> "active"]
<1>1. PICK k \in Keys : keys[k] = NoKey /\ keys' = [keys EXCEPT ![k] = row]
  BY DEF InsertKey
<1>2. http[w] \in Session
  BY DEF TeamInv, TypeOK
<1>3. row \in Key
  BY <1>2 DEF Session, Key
<1>4. /\ http[w].head \in {Owner, Parent[Owner]}
      /\ Parent[http[w].user] = Owner
  BY DEF InsertKey, TeamInv, SessionsCareful
<1>5. UNCHANGED <<sub, teams, orders>> /\ Done(w)
  BY DEF InsertKey
<1>6. TypeOK'
  <2>1. keys' \in [Keys -> Key \cup {NoKey}]
    BY <1>1, <1>3 DEF TeamInv, TypeOK
  <2> QED
    BY <2>1, <1>5, DoneSessions DEF TeamInv, TypeOK
<1>7. KeysInFamily'
  <2> SUFFICES ASSUME NEW j \in Keys, keys'[j] # NoKey
               PROVE  /\ Parent[keys'[j].user] = Owner
                      /\ keys'[j].owner \in {Owner, Parent[Owner]}
    BY DEF KeysInFamily
  <2>1. CASE j = k
    <3>1. keys'[j] = row
      BY <2>1, <1>1 DEF TeamInv, TypeOK
    <3> QED
      BY <3>1, <1>4
  <2>2. CASE j # k
    <3>1. keys'[j] = keys[j]
      BY <2>2, <1>1 DEF TeamInv, TypeOK
    <3> QED
      BY <3>1 DEF TeamInv, KeysInFamily
  <2> QED
    BY <2>1, <2>2
<1>8. OneTeam' /\ MembersInvited'
  BY <1>5 DEF TeamInv, OneTeam, MembersInvited
<1>9. \A j \in Keys : keys[j] # NoKey => keys'[j] # NoKey
  BY <1>1 DEF TeamInv, TypeOK
<1>10. SessionsCareful'
  BY <1>5, <1>9, DoneSessions, OthersCareful
<1> QED
  BY <1>6, <1>7, <1>8, <1>10 DEF TeamInv

\* Rows whose users and owners stay keep the family.
LEMMA KeysRewritten ==
  ASSUME TeamInv, keys' \in [Keys -> Key \cup {NoKey}],
         http' \in [Workers -> Session],
         \A v \in Workers : \/ http'[v] = Idle
                            \/ http'[v] = [http[v] EXCEPT !.fresh = FALSE],
         \A k \in Keys : keys[k] = NoKey <=> keys'[k] = NoKey,
         \A k \in Keys : keys[k] # NoKey =>
           keys'[k].user = keys[k].user /\ keys'[k].owner = keys[k].owner,
         sub' \in [status : {"active", "expired"}, base : Nat, limit : Nat],
         orders' \in 0 .. MaxOrders,
         UNCHANGED teams
  PROVE  TeamInv'
<1>1. TypeOK'
  BY DEF TeamInv, TypeOK
<1>2. KeysInFamily'
  BY DEF TeamInv, KeysInFamily
<1>3. OneTeam' /\ MembersInvited'
  BY DEF TeamInv, OneTeam, MembersInvited
<1>4. SessionsCareful'
  BY OthersCareful
<1> QED
  BY <1>1, <1>2, <1>3, <1>4 DEF TeamInv

\* or its limit changed,
LEMMA UpdateKeyStep ==
  ASSUME TeamInv, NEW w \in Workers, UpdateKey(w)
  PROVE  TeamInv'
<1> DEFINE key == http[w].key
<1>1. key \in Keys /\ keys[key] \in Key /\ http[w].limit \in Nat
  BY DEF UpdateKey, TeamInv, TypeOK, SessionsCareful, Session
<1>2. keys' = [keys EXCEPT ![key].limit = http[w].limit] /\ Done(w)
  BY DEF UpdateKey
<1>3. [keys[key] EXCEPT !.limit = http[w].limit] \in Key
  BY <1>1 DEF Key
<1>4. keys' \in [Keys -> Key \cup {NoKey}]
  BY <1>1, <1>2, <1>3 DEF TeamInv, TypeOK
<1>5. \A k \in Keys : k # key => keys'[k] = keys[k]
  BY <1>2 DEF TeamInv, TypeOK
<1>6. keys'[key] = [keys[key] EXCEPT !.limit = http[w].limit]
  BY <1>1, <1>2 DEF TeamInv, TypeOK
<1>7. keys'[key].user = keys[key].user /\ keys'[key].owner = keys[key].owner
  BY <1>1, <1>6 DEF Key
<1>8. keys'[key] # NoKey /\ keys[key] # NoKey
  BY <1>1, <1>3, <1>6, KeyNotNoKey
<1>9. UNCHANGED <<sub, teams, orders>>
  BY DEF UpdateKey
<1>10. \A k \in Keys : keys[k] = NoKey <=> keys'[k] = NoKey
  BY <1>5, <1>8
<1>11. \A k \in Keys : keys[k] # NoKey =>
         keys'[k].user = keys[k].user /\ keys'[k].owner = keys[k].owner
  BY <1>5, <1>7
<1>12. /\ sub' \in [status : {"active", "expired"}, base : Nat, limit : Nat]
       /\ orders' \in 0 .. MaxOrders
  BY <1>9 DEF TeamInv, TypeOK
<1> QED
  BY <1>2, <1>4, <1>9, <1>10, <1>11, <1>12, DoneSessions, KeysRewritten

\* or a member added.
LEMMA InsertMemberStep ==
  ASSUME TeamInv, NEW w \in Workers, InsertMember(w)
  PROVE  TeamInv'
<1> DEFINE row == <<http[w].head, http[w].user>>
<1>1. UNCHANGED <<sub, keys, orders>>
  BY DEF InsertMember
<1>2. CASE row \in teams
  BY <1>1, <1>2, RefuseStep DEF InsertMember
<1>3. CASE row \notin teams
  <2>1. Done(w) /\ teams' = teams \cup {row}
    BY <1>3 DEF InsertMember
  <2>2. http[w] \in Session /\ Parent[http[w].user] = http[w].head
    BY DEF InsertMember, TeamInv, TypeOK, SessionsCareful
  <2>3. row \in Users \X Users
    BY <2>2 DEF Session
  <2>4. TypeOK'
    BY <1>1, <2>1, <2>3, DoneSessions DEF TeamInv, TypeOK
  <2>5. MembersInvited'
    BY <2>1, <2>2 DEF TeamInv, MembersInvited
  <2>6. OneTeam'
    <3>1. \A t \in teams' : t \in Users \X Users
      BY <2>4 DEF TypeOK
    <3> QED
      BY <3>1, <2>5 DEF OneTeam, MembersInvited
  <2>7. KeysInFamily'
    BY <1>1 DEF TeamInv, KeysInFamily
  <2>8. SessionsCareful'
    BY <1>1, <2>1, DoneSessions, OthersCareful
  <2> QED
    BY <2>4, <2>5, <2>6, <2>7, <2>8 DEF TeamInv
<1> QED
  BY <1>2, <1>3

\* So every step of a handler does,
LEMMA HandlerStep ==
  ASSUME TeamInv, NEW w \in Workers, Step(w)
  PROVE  TeamInv'
BY FindMemberStep, FindDuplicateStep, SumCreateStep, SumUpdateStep, FindKeyStep,
   FindSubStep, InsertKeyStep, UpdateKeyStep, InsertMemberStep DEF Step

-----------------------------------------------------------------------------
(* Orders and the bot. *)

\* A row with another status or limit is a row of the same people.
LEMMA ChangedRow ==
  ASSUME NEW r \in Key, NEW n \in Nat, NEW st \in {"active", "expired"}
  PROVE  /\ [r EXCEPT !.status = st] \in Key
         /\ [r EXCEPT !.limit = n] \in Key
         /\ [r EXCEPT !.status = st, !.limit = n] \in Key
         /\ [r EXCEPT !.status = st].user = r.user
         /\ [r EXCEPT !.status = st].owner = r.owner
         /\ [r EXCEPT !.limit = n].user = r.user
         /\ [r EXCEPT !.limit = n].owner = r.owner
         /\ [r EXCEPT !.status = st, !.limit = n].user = r.user
         /\ [r EXCEPT !.status = st, !.limit = n].owner = r.owner
BY DEF Key

\* and those of orders,
LEMMA UpgradeStep ==
  ASSUME TeamInv, NEW q \in Quota, Upgrade(q)
  PROVE  TeamInv'
<1> DEFINE R(r) == [r EXCEPT !.status = "active", !.limit = q]
<1>1. q \in Nat
  BY LimitAssumption
<1>2. keys' = [k \in Keys |-> IF keys[k] = NoKey THEN NoKey ELSE R(keys[k])]
  BY DEF Upgrade, Rewritten
<1>3. \A k \in Keys : keys[k] # NoKey => keys[k] \in Key
  BY DEF TeamInv, TypeOK
<1>4. \A k \in Keys : keys[k] # NoKey =>
        R(keys[k]) \in Key /\ R(keys[k]).user = keys[k].user
                          /\ R(keys[k]).owner = keys[k].owner
  BY <1>1, <1>3, ChangedRow
<1> HIDE DEF R
<1>5. /\ keys' \in [Keys -> Key \cup {NoKey}]
      /\ \A k \in Keys : keys[k] = NoKey <=> keys'[k] = NoKey
      /\ \A k \in Keys : keys[k] # NoKey =>
           keys'[k].user = keys[k].user /\ keys'[k].owner = keys[k].owner
  BY <1>2, <1>4, KeyNotNoKey
<1>6. /\ sub' \in [status : {"active", "expired"}, base : Nat, limit : Nat]
      /\ orders' \in 0 .. MaxOrders /\ UNCHANGED teams /\ Outdate
  BY <1>1, BoundAssumption DEF Upgrade, Settled, TeamInv, TypeOK
<1> QED
  BY <1>5, <1>6, OutdateSessions, KeysRewritten

\* of add-ons,
LEMMA AddQuotaStep ==
  ASSUME TeamInv, AddQuota
  PROVE  TeamInv'
<1> DEFINE R(r) == [r EXCEPT !.limit = @ + Addon]
<1>1. Addon \in Nat
  BY LimitAssumption
<1>2. keys' = [k \in Keys |-> IF keys[k] = NoKey THEN NoKey ELSE R(keys[k])]
  BY DEF AddQuota, Rewritten
<1>3. \A k \in Keys : keys[k] # NoKey => keys[k] \in Key
  BY DEF TeamInv, TypeOK
<1>4. \A k \in Keys : keys[k] # NoKey =>
        R(keys[k]) \in Key /\ R(keys[k]).user = keys[k].user
                          /\ R(keys[k]).owner = keys[k].owner
  BY <1>1, <1>3 DEF Key
<1> HIDE DEF R
<1>5. /\ keys' \in [Keys -> Key \cup {NoKey}]
      /\ \A k \in Keys : keys[k] = NoKey <=> keys'[k] = NoKey
      /\ \A k \in Keys : keys[k] # NoKey =>
           keys'[k].user = keys[k].user /\ keys'[k].owner = keys[k].owner
  BY <1>2, <1>4, KeyNotNoKey
<1>6. sub' \in [status : {"active", "expired"}, base : Nat, limit : Nat]
  BY <1>1 DEF AddQuota, TeamInv, TypeOK
<1>7. orders' \in 0 .. MaxOrders /\ UNCHANGED teams /\ Outdate
  BY BoundAssumption DEF AddQuota, Settled, TeamInv, TypeOK
<1> QED
  BY <1>5, <1>6, <1>7, OutdateSessions, KeysRewritten

\* All keys get one status, as on renewal and on expiry.
LEMMA StatusRewritten ==
  ASSUME TeamInv, NEW st \in {"active", "expired"},
         keys' = [k \in Keys |-> IF keys[k] = NoKey THEN NoKey
                                 ELSE [keys[k] EXCEPT !.status = st]],
         sub' \in [status : {"active", "expired"}, base : Nat, limit : Nat],
         orders' \in 0 .. MaxOrders, UNCHANGED teams, Outdate
  PROVE  TeamInv'
<1> DEFINE R(r) == [r EXCEPT !.status = st]
<1>1. keys' = [k \in Keys |-> IF keys[k] = NoKey THEN NoKey ELSE R(keys[k])]
  OBVIOUS
<1>2. \A k \in Keys : keys[k] # NoKey => keys[k] \in Key
  BY DEF TeamInv, TypeOK
<1>3. \A k \in Keys : keys[k] # NoKey =>
        R(keys[k]) \in Key /\ R(keys[k]).user = keys[k].user
                          /\ R(keys[k]).owner = keys[k].owner
  BY <1>2 DEF Key
<1> HIDE DEF R
<1>4. /\ keys' \in [Keys -> Key \cup {NoKey}]
      /\ \A k \in Keys : keys[k] = NoKey <=> keys'[k] = NoKey
      /\ \A k \in Keys : keys[k] # NoKey =>
           keys'[k].user = keys[k].user /\ keys'[k].owner = keys[k].owner
  BY <1>1, <1>3, KeyNotNoKey
<1> QED
  BY <1>4, OutdateSessions, KeysRewritten

\* of renewals
LEMMA RenewStep ==
  ASSUME TeamInv, Renew
  PROVE  TeamInv'
<1>1. keys' = [k \in Keys |-> IF keys[k] = NoKey THEN NoKey
                              ELSE [keys[k] EXCEPT !.status = "active"]]
  BY DEF Renew, Rewritten
<1>2. /\ sub' \in [status : {"active", "expired"}, base : Nat, limit : Nat]
      /\ orders' \in 0 .. MaxOrders /\ UNCHANGED teams /\ Outdate
  BY BoundAssumption DEF Renew, Settled, TeamInv, TypeOK
<1> QED
  BY <1>1, <1>2, StatusRewritten

\* and of the bot.
LEMMA BotStep ==
  ASSUME TeamInv, Bot
  PROVE  TeamInv'
<1>1. CASE PeriodReset
  <2>1. UNCHANGED <<keys, teams, orders>> /\ Outdate
    BY <1>1 DEF PeriodReset
  <2>2. /\ sub' \in [status : {"active", "expired"}, base : Nat, limit : Nat]
        /\ keys' \in [Keys -> Key \cup {NoKey}]
        /\ orders' \in 0 .. MaxOrders
    BY <1>1, <2>1 DEF PeriodReset, TeamInv, TypeOK
  <2> QED
    BY <2>1, <2>2, OutdateSessions, KeysRewritten
<1>2. CASE Expire
  <2>1. keys' = [k \in Keys |-> IF keys[k] = NoKey THEN NoKey
                                ELSE [keys[k] EXCEPT !.status = "expired"]]
    BY <1>2 DEF Expire, Rewritten
  <2>2. /\ sub' \in [status : {"active", "expired"}, base : Nat, limit : Nat]
        /\ orders' \in 0 .. MaxOrders /\ UNCHANGED teams /\ Outdate
    BY <1>2 DEF Expire, TeamInv, TypeOK
  <2> QED
    BY <2>1, <2>2, StatusRewritten
<1> QED
  BY <1>1, <1>2 DEF Bot

\* Every step keeps the invariant.
LEMMA NextTeam == TeamInv /\ [Next]_vars => TeamInv'
<1> SUFFICES ASSUME TeamInv, [Next]_vars PROVE TeamInv'
  OBVIOUS
<1>1. ASSUME NEW w \in Workers, Request(w) PROVE TeamInv'
  BY <1>1, RequestStep
<1>2. ASSUME NEW w \in Workers, Step(w) PROVE TeamInv'
  BY <1>2, HandlerStep
<1>3. ASSUME NEW w \in Workers, Fails(w) PROVE TeamInv'
  BY <1>3, RefuseStep DEF Fails
<1>4. CASE Settlement
  BY <1>4, UpgradeStep, AddQuotaStep, RenewStep DEF Settlement
<1>5. CASE Bot
  BY <1>5, BotStep
<1>6. CASE UNCHANGED vars
  BY <1>6 DEF vars, TeamInv, TypeOK, OneTeam, KeysInFamily, MembersInvited,
              SessionsCareful
<1> QED
  BY <1>1, <1>2, <1>3, <1>4, <1>5, <1>6 DEF Next

-----------------------------------------------------------------------------
(* Requests that nobody else's write has disturbed. *)

Creating == {"find_member", "find_duplicate", "sum_create", "insert_key"}

\* What such a session has found out is still so.
Relies(s) ==
  s.fresh =>
    /\ s.phase \in Creating =>
         s.key = NoKey /\ sub.status = "active" /\ s.room = sub.limit
    /\ s.phase \in {"sum_create", "insert_key"} => Held(s.user) = {}
    /\ s.phase \in {"sum_update", "update_key"} => s.room = sub.limit
    /\ s.phase \in {"insert_key", "update_key"} => SubLimits(s.key) + s.limit <= s.room

FreshInv == \A w \in Workers : Relies(http[w])

\* A step that writes nothing but its own session.
LEMMA OwnStep ==
  ASSUME TeamInv, FreshInv, NEW w \in Workers, NEW s, Relies(s),
         http' = [http EXCEPT ![w] = s], UNCHANGED <<sub, keys>>
  PROVE  FreshInv'
<1>1. \A v \in Workers : Relies(http'[v])
  BY DEF FreshInv, TeamInv, TypeOK
<1>2. sub' = sub /\ keys' = keys
  OBVIOUS
<1>3. LimitTokens' = LimitTokens
  BY <1>2 DEF LimitTokens
<1>4. \A u : Held(u)' = Held(u)
  BY <1>2 DEF Held
<1>5. \A k : SubLimits(k)' = SubLimits(k)
  BY <1>3 DEF SubLimits
<1> QED
  BY <1>1, <1>2, <1>4, <1>5 DEF FreshInv, Relies

\* After another one's write nothing is relied on.
LEMMA Disturbed ==
  ASSUME TeamInv,
         \A v \in Workers : http'[v] = Idle \/ http'[v] = [http[v] EXCEPT !.fresh = FALSE]
  PROVE  FreshInv'
<1>1. \A v \in Workers : http[v] \in Session
  BY DEF TeamInv, TypeOK
<1>2. \A t \in Session : [t EXCEPT !.fresh = FALSE].fresh = FALSE
  BY DEF Session
<1>3. Idle.phase = "idle"
  BY DEF Idle
<1>4. \A v \in Workers : http'[v].fresh = FALSE \/ http'[v].phase = "idle"
  BY <1>1, <1>2, <1>3
<1> QED
  BY <1>4 DEF FreshInv, Relies, Creating

\* A handler at rest relies on nothing.
LEMMA IdleRelies == Relies(Idle)
BY DEF Relies, Idle, Creating

\* A request begins relying on nothing.
LEMMA RequestRelies ==
  ASSUME TeamInv, FreshInv, NEW w \in Workers, Request(w)
  PROVE  FreshInv'
<1>1. ASSUME NEW u \in Users, NEW n \in Limits, CreateBegin(w, u, n)
      PROVE  FreshInv'
  <2>1. PICK h \in Heads :
          http' = [http EXCEPT ![w] =
            [Idle EXCEPT !.phase = "find_member", !.user = u, !.limit = n,
                         !.room = sub.limit, !.head = h]]
    BY <1>1 DEF CreateBegin, Begin
  <2> DEFINE s == [Idle EXCEPT !.phase = "find_member", !.user = u, !.limit = n,
                               !.room = sub.limit, !.head = h]
  <2>2. s.phase = "find_member" /\ s.key = NoKey /\ s.room = sub.limit
    BY DEF Idle
  <2>3. sub.status = "active" /\ UNCHANGED <<sub, keys>> /\ http' = [http EXCEPT ![w] = s]
    BY <1>1, <2>1 DEF CreateBegin
  <2> HIDE DEF s
  <2>4. Relies(s)
    BY <2>2, <2>3 DEF Relies
  <2> QED
    BY <2>3, <2>4, OwnStep
<1>2. ASSUME NEW k \in Keys, NEW n \in Limits, UpdateBegin(w, k, n)
      PROVE  FreshInv'
  <2> DEFINE s == [Idle EXCEPT !.phase = "find_key", !.key = k, !.limit = n]
  <2>1. s.phase = "find_key"
    BY DEF Idle
  <2>2. http' = [http EXCEPT ![w] = s] /\ UNCHANGED <<sub, keys>>
    BY <1>2 DEF UpdateBegin, Begin
  <2> HIDE DEF s
  <2> QED
    BY <2>1, <2>2, OwnStep DEF Relies, Creating
<1>3. ASSUME NEW owner \in Users, NEW u \in Users, FindInvitee(w, owner, u)
      PROVE  FreshInv'
  <2> DEFINE s == [Idle EXCEPT !.phase = "insert_member", !.user = u, !.head = owner]
  <2>1. s.phase = "insert_member"
    BY DEF Idle
  <2>2. http' = [http EXCEPT ![w] = s] /\ UNCHANGED <<sub, keys>>
    BY <1>3 DEF FindInvitee, Begin
  <2> HIDE DEF s
  <2> QED
    BY <2>1, <2>2, OwnStep DEF Relies, Creating
<1> QED
  BY <1>1, <1>2, <1>3 DEF Request

\* A session that goes on to its next phase with what that one relies on.
LEMMA GoesOn ==
  ASSUME TeamInv, FreshInv, NEW w \in Workers, NEW phase \in Phases, Goto(w, phase),
         UNCHANGED <<sub, keys>>,
         phase \in Creating => http[w].phase \in Creating,
         phase = "sum_create" => Held(http[w].user) = {},
         phase = "insert_key" => http[w].phase = "sum_create",
         phase \notin {"sum_update"},
         phase = "update_key" => http[w].phase = "sum_update",
         phase \in {"insert_key", "update_key"} =>
           SubLimits(http[w].key) + http[w].limit <= http[w].room
  PROVE  FreshInv'
<1>1. http[w] \in Session /\ Relies(http[w])
  BY DEF TeamInv, TypeOK, FreshInv
<1> DEFINE s == [http[w] EXCEPT !.phase = phase]
<1>2. /\ s.phase = phase /\ s.user = http[w].user /\ s.key = http[w].key
      /\ s.room = http[w].room /\ s.limit = http[w].limit /\ s.fresh = http[w].fresh
  BY <1>1 DEF Session
<1>3. http' = [http EXCEPT ![w] = s]
  BY DEF Goto
<1> HIDE DEF s
<1>4. Relies(s)
  BY <1>1, <1>2 DEF Relies, Creating
<1> QED
  BY <1>3, <1>4, OwnStep

\* What a request relies on is what it has just found, until another one writes.
LEMMA HandlerRelies ==
  ASSUME TeamInv, FreshInv, NEW w \in Workers, Step(w)
  PROVE  FreshInv'
<1>1. ASSUME Refuse(w), UNCHANGED <<sub, keys>>
      PROVE  FreshInv'
  BY <1>1, IdleRelies, OwnStep DEF Refuse
<1>2. CASE FindMember(w)
  <2>1. UNCHANGED <<sub, keys>> /\ http[w].phase = "find_member"
    BY <1>2 DEF FindMember
  <2>2. Goto(w, "find_duplicate") \/ Refuse(w)
    BY <1>2 DEF FindMember
  <2> QED
    BY <1>1, <2>1, <2>2, GoesOn DEF Phases, Creating
<1>3. CASE FindDuplicate(w)
  <2>1. UNCHANGED <<sub, keys>> /\ http[w].phase = "find_duplicate"
    BY <1>3 DEF FindDuplicate
  <2>2. (Goto(w, "sum_create") /\ Held(http[w].user) = {}) \/ Refuse(w)
    BY <1>3 DEF FindDuplicate
  <2> QED
    BY <1>1, <2>1, <2>2, GoesOn DEF Phases, Creating
<1>4. ASSUME NEW here, NEW next, Sum(w, here, next),
             <<here, next>> \in {<<"sum_create", "insert_key">>, <<"sum_update", "update_key">>}
      PROVE  FreshInv'
  <2>1. UNCHANGED <<sub, keys>> /\ http[w].phase = here
    BY <1>4 DEF Sum
  <2>2. \/ Goto(w, next) /\ SubLimits(http[w].key) + http[w].limit <= http[w].room
        \/ Refuse(w)
    BY <1>4 DEF Sum
  <2>3. CASE here = "sum_create" /\ next = "insert_key"
    BY <1>1, <2>1, <2>2, <2>3, GoesOn DEF Phases, Creating
  <2>4. CASE here = "sum_update" /\ next = "update_key"
    BY <1>1, <2>1, <2>2, <2>4, GoesOn DEF Phases, Creating
  <2> QED
    BY <1>4, <2>3, <2>4
<1>5. CASE InsertKey(w) \/ UpdateKey(w)
  BY <1>5, DoneSessions, Disturbed DEF InsertKey, UpdateKey
<1>6. ASSUME NEW caller \in Users, FindKey(w, caller)
      PROVE  FreshInv'
  <2>1. UNCHANGED <<sub, keys>> /\ (Goto(w, "find_sub") \/ Refuse(w))
    BY <1>6 DEF FindKey
  <2> QED
    BY <1>1, <2>1, GoesOn DEF Phases, Creating
<1>7. CASE FindSub(w)
  <2>1. http[w] \in Session
    BY DEF TeamInv, TypeOK
  <2> DEFINE r == [http[w] EXCEPT !.phase = "sum_update"]
             s == [r EXCEPT !.room = sub.limit]
  <2>2. s.phase = "sum_update" /\ s.room = sub.limit
    BY <2>1 DEF Session
  <2>3. http' = [http EXCEPT ![w] = s] /\ UNCHANGED <<sub, keys>>
    BY <1>7 DEF FindSub, TeamInv, TypeOK
  <2> HIDE DEF s
  <2> QED
    BY <2>2, <2>3, OwnStep DEF Relies, Creating
<1>8. CASE InsertMember(w)
  <2>1. Refuse(w) \/ Done(w)
    BY <1>8 DEF InsertMember
  <2>2. UNCHANGED <<sub, keys>>
    BY <1>8 DEF InsertMember
  <2> QED
    BY <1>1, <2>1, <2>2, DoneSessions, Disturbed
<1> QED
  BY <1>2, <1>3, <1>4, <1>5, <1>6, <1>7, <1>8 DEF Step

\* Every step keeps what undisturbed requests rely on.
LEMMA NextFresh == TeamInv /\ FreshInv /\ [Next]_vars => FreshInv'
<1> SUFFICES ASSUME TeamInv, FreshInv, [Next]_vars PROVE FreshInv'
  OBVIOUS
<1>1. ASSUME NEW w \in Workers, Fails(w)
      PROVE  FreshInv'
  BY <1>1, IdleRelies, OwnStep DEF Fails, Refuse
<1>2. CASE Settlement \/ Bot
  <2>1. Outdate
    BY <1>2 DEF Settlement, Bot, Upgrade, AddQuota, Renew, PeriodReset, Expire, Settled
  <2> QED
    BY <2>1, OutdateSessions, Disturbed
<1>3. CASE UNCHANGED vars
  BY <1>3 DEF vars, FreshInv, Relies, SubLimits, LimitTokens, Held
<1> QED
  BY <1>1, <1>2, <1>3, RequestRelies, HandlerRelies DEF Next

\* Limits are numbers, and leaving no key out their sum is what is allotted.
LEMMA LimitsTyped ==
  ASSUME TeamInv
  PROVE  /\ IsFiniteSet(Keys) /\ NoKey \notin Keys
         /\ LimitTokens \in [Keys -> Nat]
         /\ SubLimits(NoKey) = Allotted
<1>1. IsFiniteSet(Keys) /\ NoKey \notin Keys
  BY BoundAssumption, KeyAssumption, FS_Interval DEF Keys
<1>2. \A k \in Keys : keys[k] # NoKey => keys[k] \in Key
  BY DEF TeamInv, TypeOK
<1>3. LimitTokens \in [Keys -> Nat]
  BY <1>2 DEF LimitTokens, Key
<1>4. Keys \ {NoKey} = Keys
  BY <1>1
<1> QED
  BY <1>1, <1>3, <1>4 DEF SubLimits, Allotted

\* Who ends his request while keys change has changed them himself; whoever else writes
\* leaves the requests of the others under way.
LEMMA OwnWrite ==
  ASSUME TeamInv, [Next]_vars, keys' # keys, NEW w \in Workers,
         http[w].phase # "idle", http'[w].phase = "idle"
  PROVE  InsertKey(w) \/ UpdateKey(w)
<1>1. http[w] \in Session
  BY DEF TeamInv, TypeOK
<1>2. [http[w] EXCEPT !.fresh = FALSE].phase # "idle"
  BY <1>1 DEF Session
<1>3. ~Outdate
  <2> SUFFICES ASSUME Outdate PROVE FALSE
    OBVIOUS
  <2>1. http'[w] = [http[w] EXCEPT !.fresh = FALSE]
    BY DEF Outdate
  <2> QED
    BY <1>2, <2>1
<1>4. ~(Settlement \/ Bot)
  BY <1>3 DEF Settlement, Bot, Upgrade, AddQuota, Renew, PeriodReset, Expire, Settled
<1>5. ASSUME NEW v \in Workers, Done(v)
      PROVE  v = w
  <2> SUFFICES ASSUME v # w PROVE FALSE
    OBVIOUS
  <2>1. http'[w] = [http[w] EXCEPT !.fresh = FALSE]
    BY <1>5 DEF Done
  <2> QED
    BY <1>2, <2>1
<1>6. PICK v \in Workers : InsertKey(v) \/ UpdateKey(v)
  <2>1. PICK v \in Workers : Request(v) \/ Step(v) \/ Fails(v)
    BY <1>4 DEF Next, vars
  <2>2. ~Request(v) /\ ~Fails(v)
    BY DEF Request, CreateBegin, UpdateBegin, FindInvitee, Fails
  <2> QED
    BY <2>1, <2>2 DEF Step, FindMember, FindDuplicate, Sum, FindKey, FindSub, InsertMember
<1> QED
  BY <1>5, <1>6 DEF InsertKey, UpdateKey

\* An undisturbed request that inserts a key finds everything as it was checked.
LEMMA InsertedFits ==
  ASSUME TeamInv, TeamInv', FreshInv, NEW w \in Workers, InsertKey(w), http[w].fresh
  PROVE  Allotted' <= sub.limit /\ Held(http[w].user) = {} /\ sub.status = "active"
<1>1. http[w] \in Session /\ Relies(http[w]) /\ http[w].phase = "insert_key"
  BY DEF TeamInv, TypeOK, FreshInv, InsertKey
<1>2. PICK n \in Nat : n = http[w].limit
  BY <1>1 DEF Session
<1>3. /\ Held(http[w].user) = {} /\ sub.status = "active"
      /\ SubLimits(NoKey) + n <= sub.limit
  BY <1>1, <1>2 DEF Relies, Creating
<1> DEFINE row == [user |-> http[w].user, owner |-> http[w].head,
                   limit |-> http[w].limit, status |-> "active"]
<1>4. PICK k \in Keys : keys[k] = NoKey /\ keys' = [keys EXCEPT ![k] = row]
  BY DEF InsertKey
<1>5. keys'[k] = row /\ row.limit = n /\ \A j \in Keys \ {k} : keys'[j] = keys[j]
  BY <1>2, <1>4 DEF TeamInv, TypeOK
<1>6. row # NoKey
  BY <1>1, KeyNotNoKey DEF Session, Key
<1> HIDE DEF row
<1>7. PICK f : f = LimitTokens
  OBVIOUS
<1>8. PICK g : g = LimitTokens'
  OBVIOUS
<1>9. /\ IsFiniteSet(Keys) /\ f \in [Keys -> Nat] /\ f[k] = 0 /\ g[k] = n
      /\ \A j \in Keys \ {k} : g[j] = f[j]
  BY <1>4, <1>5, <1>6, <1>7, <1>8, LimitsTyped DEF LimitTokens
<1>10. SumFunctionOnSet(g, Keys) = SumFunctionOnSet(f, Keys) + g[k] - f[k]
  BY <1>9, SumChange
<1>11. SumFunctionOnSet(f, Keys) \in Int
  BY <1>9, SumType
<1>12. Allotted' = SumFunctionOnSet(g, Keys) /\ SubLimits(NoKey) = SumFunctionOnSet(f, Keys)
  BY <1>7, <1>8, LimitsTyped DEF Allotted
<1>13. Allotted' = SubLimits(NoKey) + n
  BY <1>9, <1>10, <1>11, <1>12
<1> QED
  BY <1>3, <1>13

\* So does one that changes a limit.
LEMMA UpdatedFits ==
  ASSUME TeamInv, FreshInv, NEW w \in Workers, UpdateKey(w), http[w].fresh
  PROVE  Allotted' <= sub.limit
<1>1. http[w] \in Session /\ Relies(http[w]) /\ http[w].phase = "update_key"
  BY DEF TeamInv, TypeOK, FreshInv, UpdateKey
<1>2. PICK n \in Nat : n = http[w].limit
  BY <1>1 DEF Session
<1>3. PICK k \in Keys : k = http[w].key /\ keys[k] # NoKey
  BY <1>1 DEF TeamInv, SessionsCareful
<1>4. SubLimits(k) + n <= sub.limit
  BY <1>1, <1>2, <1>3 DEF Relies
<1>5. PICK row \in Key : row = [keys[k] EXCEPT !.limit = n] /\ row.limit = n
  <2>1. keys[k] \in Key
    BY <1>3 DEF TeamInv, TypeOK
  <2>2. [keys[k] EXCEPT !.limit = n] \in Key /\ [keys[k] EXCEPT !.limit = n].limit = n
    BY <2>1 DEF Key
  <2> QED
    BY <2>2
<1>6. keys'[k] = row /\ \A j \in Keys \ {k} : keys'[j] = keys[j]
  BY <1>2, <1>3, <1>5 DEF UpdateKey, TeamInv, TypeOK
<1>7. PICK f : f = LimitTokens
  OBVIOUS
<1>8. PICK g : g = LimitTokens'
  OBVIOUS
<1>9. /\ IsFiniteSet(Keys) /\ f \in [Keys -> Nat] /\ g[k] = n
      /\ \A j \in Keys \ {k} : g[j] = f[j]
  BY <1>5, <1>6, <1>7, <1>8, KeyNotNoKey, LimitsTyped DEF LimitTokens
<1>10. SumFunctionOnSet(g, Keys) = g[k] + SumFunctionOnSet(g, Keys \ {k})
  <2>1. \A j \in Keys : g[j] \in Int
    BY <1>9
  <2> QED
    BY <1>9, <2>1, SumRemove
<1>11. SumFunctionOnSet(g, Keys \ {k}) = SumFunctionOnSet(f, Keys \ {k})
  <2>1. IsFiniteSet(Keys \ {k}) /\ \A j \in Keys \ {k} : g[j] = f[j] /\ g[j] \in Int
    BY <1>9, FS_RemoveElement
  <2> QED
    BY <2>1, SumSame
<1>12. SumFunctionOnSet(f, Keys \ {k}) \in Int
  <2>1. IsFiniteSet(Keys \ {k}) /\ \A j \in Keys \ {k} : f[j] \in Int
    BY <1>9, FS_RemoveElement
  <2> QED
    BY <2>1, SumType
<1>13. Allotted' = SumFunctionOnSet(g, Keys) /\ SubLimits(k) = SumFunctionOnSet(f, Keys \ {k})
  BY <1>7, <1>8 DEF Allotted, SubLimits
<1>14. Allotted' = SubLimits(k) + n
  BY <1>9, <1>10, <1>11, <1>12, <1>13
<1> QED
  BY <1>4, <1>14

-----------------------------------------------------------------------------
(* Theorems. *)

\* The inductive invariant: members were invited by the head of their team, and a
\* session that has passed a check of CreateSubKey, UpdateSubKeyLimit or
\* AddTeamMember may rely on it until it writes.
THEOREM TeamInvariant == Spec => []TeamInv
BY InitTeam, NextTeam, PTL DEF Spec

\* Nobody is in two teams (AddTeamMember's check-then-insert).
THEOREM OneTeamEach == Spec => []OneTeam
<1>1. TeamInv => OneTeam
  BY DEF TeamInv
<1> QED
  BY <1>1, TeamInvariant, PTL

\* Sub keys stay with the owner's invitees and under the owner or his inviter
\* (MainAPIKeyEnterpriseFields).
THEOREM KeysStayInFamily == Spec => []KeysInFamily
<1>1. TeamInv => KeysInFamily
  BY DEF TeamInv
<1> QED
  BY <1>1, TeamInvariant, PTL

\* An exhausted pool does not recover by itself (a transaction of CreateSubKey or
\* UpdateSubKeyLimit asks for its second connection while it keeps the first): no request
\* begins, goes on or is answered until one of them fails, whatever orders and the bot do.
THEOREM ExhaustedUntilFailure ==
  Spec => [][Exhausted =>
               \/ \E w \in Workers : Fails(w)
               \/ \A w \in Workers : http'[w].phase = http[w].phase]_vars
<1> DEFINE Still == \A v \in Workers : http'[v].phase = http[v].phase
<1>1. ASSUME TypeOK, Exhausted, [Next]_vars, ~\E w \in Workers : Fails(w)
      PROVE  Still
  <2>1. ~Spare /\ http \in [Workers -> Session]
    BY <1>1 DEF Exhausted, TypeOK
  <2>2. ASSUME NEW w \in Workers, Request(w)
        PROVE  FALSE
    BY <2>1, <2>2 DEF Request, CreateBegin, UpdateBegin, FindInvitee, Begin
  <2>3. ASSUME NEW w \in Workers, Step(w)
        PROVE  FALSE
    <3>1. ~(At(w, "insert_key") \/ At(w, "find_sub") \/ At(w, "update_key"))
      BY <1>1 DEF Exhausted, Holders, Transactional, Wanting, At
    <3> QED
      BY <2>1, <2>3, <3>1 DEF Step, FindMember, FindDuplicate, Sum, InsertKey, FindKey, FindSub,
                              UpdateKey, InsertMember
  <2>4. CASE Settlement \/ Bot
    <3>1. Outdate
      BY <2>4 DEF Settlement, Bot, Upgrade, AddQuota, Renew, Settled, PeriodReset, Expire
    <3> QED
      BY <2>1, <3>1 DEF Outdate, Idle
  <2>5. CASE UNCHANGED vars
    BY <2>5 DEF vars
  <2> QED
    BY <1>1, <2>2, <2>3, <2>4, <2>5 DEF Next
<1>2. TeamInv => TypeOK
  BY DEF TeamInv
<1>3. TypeOK /\ [Next]_vars => [Exhausted =>
               \/ \E w \in Workers : Fails(w)
               \/ \A w \in Workers : http'[w].phase = http[w].phase]_vars
  BY <1>1
<1> QED
  BY <1>2, <1>3, TeamInvariant, PTL DEF Spec

\* A request to create a key or to change a limit that nobody has interfered with keeps
\* the limits of all keys within the subscription's, gives no member a second active
\* key and none of an expired subscription: the checks of CreateSubKey and
\* UpdateSubKeyLimit suffice when they are not overtaken.
THEOREM UndisturbedLimitsKept == Spec => UndisturbedRequestsKeepLimits
<1> DEFINE Kept(w) ==
      http[w].fresh /\ ~At(w, "idle") /\ http'[w].phase = "idle" =>
        /\ keys' # keys => Allotted' <= sub.limit
        /\ At(w, "insert_key") /\ keys' # keys =>
             Held(http[w].user) = {} /\ sub.status = "active"
<1>1. ASSUME TeamInv, TeamInv', FreshInv, [Next]_vars, NEW w \in Workers
      PROVE  Kept(w)
  <2> SUFFICES ASSUME http[w].fresh, http[w].phase # "idle", http'[w].phase = "idle",
                      keys' # keys
               PROVE  /\ Allotted' <= sub.limit
                      /\ At(w, "insert_key") => Held(http[w].user) = {} /\ sub.status = "active"
    OBVIOUS
  <2>1. CASE InsertKey(w)
    BY <1>1, <2>1, InsertedFits
  <2>2. CASE UpdateKey(w)
    BY <1>1, <2>2, UpdatedFits DEF UpdateKey
  <2> QED
    BY <1>1, <2>1, <2>2, OwnWrite
<1>2. TeamInv /\ TeamInv' /\ FreshInv /\ [Next]_vars =>
        [\A w \in Workers :
           http[w].fresh /\ ~At(w, "idle") /\ http'[w].phase = "idle" =>
             /\ keys' # keys => Allotted' <= sub.limit
             /\ At(w, "insert_key") /\ keys' # keys =>
                  /\ Held(http[w].user) = {}
                  /\ sub.status = "active"]_vars
  BY <1>1
<1>3. Init => FreshInv
  BY IdleRelies DEF Init, FreshInv
<1> QED
  BY <1>2, <1>3, InitTeam, NextTeam, NextFresh, PTL DEF Spec, UndisturbedRequestsKeepLimits
=============================================================================
