--------------------------- MODULE MembersProofs ---------------------------
(***************************************************************************)
(* Theorems about what members read in Members, their lists and inboxes,   *)
(* the pages and the usage events, and about the types of the whole.       *)
(***************************************************************************)
EXTENDS RegistrationProofs, ProfileProofs, SumTheorems, SequenceTheorems

-----------------------------------------------------------------------------
(* Which steps write what. *)

\* Which steps of the whole write which component's variables.
LEMMA Writers ==
  ASSUME [Next]_vars
  PROVE  /\ Reads \/ UNCHANGED listVars
         /\ \/ Reads \/ UNCHANGED inbox
            \/ \E r \in Replicas, u \in Ids : Notify(r, u)
         /\ Usage \/ Flushes \/ Reports \/ UNCHANGED trackingVars
         /\ Shop \/ UNCHANGED catalogueVars
         /\ Learn \/ UNCHANGED tutorialVars
         /\ LookUp \/ UNCHANGED lookups
         /\ SearchLiterature \/ UNCHANGED searches
<1>1. CASE Registrations \/ Market \/ Profiles
  <2>1. UNCHANGED listVars /\ UNCHANGED inbox /\ UNCHANGED siteVars
    BY <1>1 DEF Registrations, Market, Profiles, CompleteOrder, EditTiers
  <2> QED
    BY <2>1 DEF siteVars, pageVars
<1>2. CASE Reads
  <2>1. UNCHANGED siteVars
    BY <1>2 DEF Reads
  <2> QED
    BY <1>2, <2>1 DEF siteVars, pageVars
<1>3. CASE Shop
  BY <1>3 DEF Shop, memberVars
<1>4. CASE Learn
  BY <1>4 DEF Learn, memberVars
<1>5. CASE LookUp
  BY <1>5 DEF LookUp, memberVars
<1>6. CASE SearchLiterature
  BY <1>6 DEF SearchLiterature, memberVars
<1>7. CASE Usage \/ Flushes \/ Reports
  BY <1>7 DEF Usage, Flushes, Reports, memberVars, pageVars
<1>8. ASSUME NEW r \in Replicas, JobStep(r) \/ JobFault(r)
      PROVE  /\ UNCHANGED listVars /\ UNCHANGED siteVars
             /\ UNCHANGED inbox \/ \E u \in Ids : Notify(r, u)
  <2>1. UNCHANGED listVars /\ UNCHANGED siteVars
    BY Zenon, <1>8 DEF JobStep, JobFault
  <2>2. SyncStep(r) \/ SyncFault(r)
    BY <1>8 DEF JobStep, JobFault
  <2>3. UNCHANGED inbox \/ \E u \in Ids : Notify(r, u)
    BY Zenon, <2>2 DEF SyncStep, SyncFault, SyncBegin, CountInvitees, SumPaid, ListUsers,
                       SyncEnds, Raise, UserFails, SyncFails
  <2> QED
    BY <2>1, <2>3
<1>9. CASE \E r \in Replicas : JobStep(r) \/ JobFault(r)
  BY <1>8, <1>9 DEF siteVars, pageVars
<1>10. CASE UNCHANGED vars
  BY <1>10 DEF vars, listVars, pageVars
<1> QED
  BY <1>1, <1>2, <1>3, <1>4, <1>5, <1>6, <1>7, <1>9, <1>10 DEF Next

-----------------------------------------------------------------------------
(* The inbox. *)

\* Messages stay, in their order; what changes is that they are read, and new ones.
LEMMA InboxGrows ==
  ASSUME InboxTypeOK, [Next]_vars
  PROVE  /\ InboxTypeOK'
         /\ \A u \in Ids : Len(inbox'[u]) >= Len(inbox[u])
<1>1. \A u \in Ids : inbox[u] \in Seq(BOOLEAN) /\ Len(inbox[u]) \in Nat
  BY DEF InboxTypeOK
<1>2. ASSUME NEW u \in Ids, Deliver(u)
      PROVE  InboxTypeOK' /\ \A v \in Ids : Len(inbox'[v]) >= Len(inbox[v])
  <2>1. Append(inbox[u], FALSE) \in Seq(BOOLEAN)
        /\ Len(Append(inbox[u], FALSE)) = Len(inbox[u]) + 1
    BY <1>1
  <2> QED
    BY <1>1, <1>2, <2>1 DEF Deliver, InboxTypeOK
<1>3. ASSUME NEW u \in Ids, Mark(u)
      PROVE  InboxTypeOK' /\ \A v \in Ids : Len(inbox'[v]) >= Len(inbox[v])
  <2>1. inbox[u] \in Seq(BOOLEAN) /\ DOMAIN inbox[u] = 1 .. Len(inbox[u])
    BY <1>1
  <2>2. CASE MarkAllRead(u)
    <3> DEFINE s == [i \in DOMAIN inbox[u] |-> TRUE]
    <3>1. s \in Seq(BOOLEAN) /\ Len(s) = Len(inbox[u])
      BY <1>1, <2>1
    <3>2. inbox' = [inbox EXCEPT ![u] = s]
      BY <2>2 DEF MarkAllRead
    <3> HIDE DEF s
    <3> QED
      BY <1>1, <3>1, <3>2 DEF InboxTypeOK
  <2>3. CASE \E i \in Unread(u) : MarkRead(u, i)
    <3>1. PICK i \in DOMAIN inbox[u] : inbox' = [inbox EXCEPT ![u][i] = TRUE]
      BY <2>3 DEF MarkRead, Unread
    <3> DEFINE s == [inbox[u] EXCEPT ![i] = TRUE]
    <3>2. s \in Seq(BOOLEAN) /\ Len(s) = Len(inbox[u])
      BY <1>1, <2>1
    <3>3. inbox' = [inbox EXCEPT ![u] = s]
      BY <3>1
    <3> HIDE DEF s
    <3> QED
      BY <1>1, <3>2, <3>3 DEF InboxTypeOK
  <2> QED
    BY <1>3, <2>2, <2>3 DEF Mark
<1>4. CASE UNCHANGED inbox
  BY <1>1, <1>4 DEF InboxTypeOK
<1>5. CASE Reads
  <2>1. CASE ReadLists
    BY <1>4, <2>1 DEF ReadLists
  <2>2. CASE ListChanges
    <3>1. PICK u \in Registered : UNCHANGED inbox \/ Deliver(u) \/ Mark(u)
      BY <2>2 DEF ListChanges, Inform
    <3>2. u \in Ids
      BY DEF Registered, Joined
    <3> QED
      BY <1>2, <1>3, <1>4, <3>1, <3>2
  <2> QED
    BY <1>5, <2>1, <2>2 DEF Reads
<1>6. CASE \E r \in Replicas, u \in Ids : Notify(r, u)
  BY <1>2, <1>6 DEF Notify
<1> QED
  BY <1>4, <1>5, <1>6, Writers

-----------------------------------------------------------------------------
(* Lists. *)

NewerOf(rows, i) == Cardinality({j \in rows : j > i})

\* A client that is paging has been shown what was there when it began and is on the
\* pages before this one, as the list is now; the list has only grown, and between the
\* statements of a page it has not.
Paging(r) ==
  r.kind \notin WholeLists =>
    IF r.statement = 0 THEN r.shifted \/ r.there \subseteq r.shown
    ELSE /\ r.limit \in 1 .. 100 /\ r.page \in Nat \ {0}
         /\ ~r.shifted =>
              /\ r.there \subseteq r.last /\ IsFiniteSet(r.last)
              /\ r.statement = 2 => r.total = Cardinality(r.last)
              /\ \A i \in r.there :
                   NewerOf(r.last, i) < (r.page - 1) * r.limit => i \in r.shown

\* What is answered about the invitees is honest.
Honestly(r) ==
  r.kind = "invitees" /\ r.statement = 0 =>
    /\ Cardinality(r.shown) <= r.total
    /\ r.there \subseteq r.shown \/ Cardinality(r.shown) < r.total

Readings == {r \in Reading : Paging(r) /\ Honestly(r)}

\* While they are read, their rows stay.
InviteesStay ==
  \A c \in Readers :
    reading[c].kind = "invitees" /\ reading[c].statement # 0 =>
      /\ reading[c].there \subseteq 1 .. ledger[reading[c].user]["invitees"]
      /\ reading[c].shown \subseteq 1 .. ledger[reading[c].user]["invitees"]

ListsInv ==
  /\ ledger \in [Ids -> [Tables -> Nat]]
  /\ reading \in [Readers -> Readings]
  /\ InviteesStay

\* A list is a finite set of rows.
LEMMA RowsFinite ==
  ASSUME InboxTypeOK, ledger \in [Ids -> [Tables -> Nat]], NEW u \in Ids, NEW kind \in Kinds
  PROVE  RowsOf(u, kind) \in SUBSET Nat /\ IsFiniteSet(RowsOf(u, kind))
<1>1. CASE kind \in {"messages", "unread"}
  <2>1. /\ DOMAIN inbox[u] = 1 .. Len(inbox[u]) /\ Len(inbox[u]) \in Nat
        /\ IsFiniteSet(1 .. Len(inbox[u]))
    BY FS_Interval DEF InboxTypeOK
  <2>2. RowsOf(u, kind) \subseteq 1 .. Len(inbox[u])
    BY <1>1, <2>1 DEF RowsOf, Unread
  <2> QED
    BY <2>1, <2>2, FS_Subset
<1>2. CASE kind \in Tables
  <2>1. ledger[u][kind] \in Nat
    BY <1>2
  <2>2. RowsOf(u, kind) = 1 .. ledger[u][kind]
    BY <1>2 DEF RowsOf, Tables
  <2> QED
    BY <2>1, <2>2, FS_Interval
<1> QED
  BY <1>1, <1>2 DEF Kinds

\* More rows are newer than a row in a longer list, and fewer than there are.
LEMMA NewerGrow ==
  ASSUME NEW rows, IsFiniteSet(rows), rows \in SUBSET Nat, NEW old \in SUBSET rows,
         NEW i \in rows
  PROVE  /\ NewerOf(old, i) \in Nat /\ NewerOf(rows, i) \in Nat
         /\ NewerOf(old, i) <= NewerOf(rows, i)
         /\ NewerOf(rows, i) < Cardinality(rows)
<1> DEFINE some == {j \in old : j > i}
           all  == {j \in rows : j > i}
<1>1. some \in SUBSET all /\ all \in SUBSET rows /\ i \notin all
  <2>1. i \in Nat /\ ~(i > i)
    OBVIOUS
  <2> QED
    BY <2>1
<1>2. IsFiniteSet(all) /\ IsFiniteSet(some)
  BY <1>1, FS_Subset
<1>3. Cardinality(some) <= Cardinality(all)
  BY <1>1, <1>2, FS_Subset
<1>4. Cardinality(all) < Cardinality(rows)
  BY <1>1, Fewer
<1> QED
  BY <1>2, <1>3, <1>4, FS_CardinalityType DEF NewerOf

\* The page sizes asked for are between one and a hundred, which is what the
\* repositories grant.
LEMMA PageSizes ==
  ASSUME NEW n \in Int, NEW d \in 1 .. 100
  PROVE  PageSize(n, d) \in 1 .. 100
BY DEF PageSize

\* A limit that a service has clamped to 1 .. 100 is one every repository takes.
LEMMA LimitGranted ==
  ASSUME NEW r \in Reading, r.kind \notin WholeLists, r.limit \in 1 .. 100
  PROVE  Limit(r) = r.limit
BY DEF Limit, Reading, Kinds, Tables, WholeLists, OrdersLimit, FlowsLimit, InvoicesLimit,
       RecordsLimit, WithdrawalsLimit, Clamped

\* A request for a list.
LEMMA BeginKeeps ==
  ASSUME ListsInv, InboxTypeOK, NEW c \in Readers, NEW u \in Ids, NEW kind \in Kinds,
         NEW limit \in Nat, kind \notin WholeLists => limit \in 1 .. 100,
         Begin(c, u, kind, limit), UNCHANGED ledger
  PROVE  ListsInv'
<1>1. PICK rows : rows = RowsOf(u, kind)
  OBVIOUS
<1>2. rows \in SUBSET Nat /\ IsFiniteSet(rows)
  BY <1>1, RowsFinite DEF ListsInv
<1>3. kind = "invitees" => rows = 1 .. ledger[u]["invitees"]
  BY <1>1 DEF RowsOf
<1> DEFINE r == [user |-> u, kind |-> kind, limit |-> limit, statement |-> 1, page |-> 1,
                 total |-> 0, there |-> rows, last |-> rows, shown |-> {}, shifted |-> FALSE]
<1>4. reading' = [reading EXCEPT ![c] = r]
  BY <1>1 DEF Begin, Asking
<1>5. \A i \in rows : NewerOf(rows, i) \in Nat
  BY <1>2, NewerGrow
<1>6. r \in Readings
  <2>1. r \in Reading
    BY <1>2 DEF Reading
  <2>2. Paging(r)
    BY <1>2, <1>5 DEF Paging
  <2>3. Honestly(r)
    BY DEF Honestly
  <2> HIDE DEF r
  <2> QED
    BY <2>1, <2>2, <2>3 DEF Readings
<1>7. /\ r.kind = "invitees" => r.there = 1 .. ledger[u]["invitees"]
      /\ r.user = u /\ r.shown = {}
  BY <1>3
<1> HIDE DEF r
<1>8. reading' \in [Readers -> Readings]
  BY <1>4, <1>6 DEF ListsInv
<1>9. InviteesStay'
  <2> SUFFICES ASSUME NEW d \in Readers, reading'[d].kind = "invitees", reading'[d].statement # 0
               PROVE  /\ reading'[d].there \subseteq 1 .. ledger[reading'[d].user]["invitees"]
                      /\ reading'[d].shown \subseteq 1 .. ledger[reading'[d].user]["invitees"]
    BY DEF InviteesStay
  <2>1. reading'[d] = IF d = c THEN r ELSE reading[d]
    BY <1>4 DEF ListsInv
  <2> QED
    BY <1>7, <2>1 DEF ListsInv, InviteesStay
<1> QED
  BY <1>8, <1>9 DEF ListsInv

\* The fields of a reading when one of them changes.
LEMMA Stepped ==
  ASSUME NEW r \in Reading, NEW x \in 0 .. 2, NEW s, s = [r EXCEPT !.statement = x]
  PROVE  /\ s \in Reading /\ s.statement = x
         /\ s.user = r.user /\ s.kind = r.kind /\ s.limit = r.limit /\ s.page = r.page
         /\ s.total = r.total /\ s.there = r.there /\ s.last = r.last /\ s.shown = r.shown
         /\ s.shifted = r.shifted
BY DEF Reading

\* A reading that goes to another page,
LEMMA Turned ==
  ASSUME NEW r \in Reading, NEW x \in Nat, NEW s, s = [r EXCEPT !.page = x]
  PROVE  /\ s \in Reading /\ s.page = x
         /\ s.user = r.user /\ s.kind = r.kind /\ s.limit = r.limit /\ s.statement = r.statement
         /\ s.total = r.total /\ s.there = r.there /\ s.last = r.last /\ s.shown = r.shown
         /\ s.shifted = r.shifted
BY DEF Reading

\* one that has counted,
LEMMA Counted ==
  ASSUME NEW r \in Reading, NEW x \in Nat, NEW s, s = [r EXCEPT !.total = x]
  PROVE  /\ s \in Reading /\ s.total = x
         /\ s.user = r.user /\ s.kind = r.kind /\ s.limit = r.limit /\ s.statement = r.statement
         /\ s.page = r.page /\ s.there = r.there /\ s.last = r.last /\ s.shown = r.shown
         /\ s.shifted = r.shifted
BY DEF Reading

\* one that has seen rows,
LEMMA Seen ==
  ASSUME NEW r \in Reading, NEW x \in SUBSET Nat, NEW s, s = [r EXCEPT !.last = x]
  PROVE  /\ s \in Reading /\ s.last = x
         /\ s.user = r.user /\ s.kind = r.kind /\ s.limit = r.limit /\ s.statement = r.statement
         /\ s.page = r.page /\ s.total = r.total /\ s.there = r.there /\ s.shown = r.shown
         /\ s.shifted = r.shifted
BY DEF Reading

\* and one that was shifted: each is a reading, and nothing else of it changes.
LEMMA Shifted ==
  ASSUME NEW r \in Reading, NEW x \in BOOLEAN, NEW s, s = [r EXCEPT !.shifted = x]
  PROVE  /\ s \in Reading /\ s.shifted = x
         /\ s.user = r.user /\ s.kind = r.kind /\ s.limit = r.limit /\ s.statement = r.statement
         /\ s.page = r.page /\ s.total = r.total /\ s.there = r.there /\ s.last = r.last
         /\ s.shown = r.shown
BY DEF Reading

\* What a statement that has found some rows makes of a reading.
After(s, r, rows) ==
  /\ s \in Reading /\ s.user = r.user /\ s.kind = r.kind /\ s.limit = r.limit
  /\ s.statement = r.statement /\ s.page = r.page /\ s.there = r.there /\ s.last = rows
  /\ ~s.shifted => ~r.shifted /\ r.last \subseteq rows

\* The count: what is newer than a row has only grown.
LEMMA CountKeepsPaging ==
  ASSUME NEW r \in Reading, Paging(r), r.kind \notin WholeLists, r.statement = 1,
         NEW rows \in SUBSET Nat, IsFiniteSet(rows),
         NEW s, After(s, r, rows), s.total = Cardinality(rows), s.shown = r.shown
  PROVE  Advanced(s) \in Readings
<1> DEFINE t == [s EXCEPT !.statement = 2]
<1>1. s \in Reading
  BY DEF After
<1>2. Advanced(s) = t
  BY DEF Advanced, Statements, WholeLists, After
<1>3. /\ t \in Reading /\ t.total = s.total /\ t.last = s.last
      /\ t.kind = s.kind /\ t.statement = 2 /\ t.limit = s.limit /\ t.page = s.page
      /\ t.there = s.there /\ t.shown = s.shown /\ t.shifted = s.shifted
  BY <1>1, Stepped
<1> HIDE DEF t
<1>4. ASSUME ~s.shifted
      PROVE  /\ r.there \subseteq rows
             /\ \A i \in r.there : NewerOf(rows, i) < (r.page - 1) * r.limit => i \in r.shown
  <2>1. /\ r.there \subseteq r.last /\ r.last \subseteq rows
        /\ r.limit \in Nat /\ r.page \in Nat
        /\ \A i \in r.there : NewerOf(r.last, i) < (r.page - 1) * r.limit => i \in r.shown
    BY <1>4 DEF Paging, After
  <2> DEFINE K == (r.page - 1) * r.limit
  <2>2. K \in Int
    BY <2>1
  <2> HIDE DEF K
  <2>3. \A i \in r.there : NewerOf(rows, i) < K => NewerOf(r.last, i) < K
    <3> SUFFICES ASSUME NEW i \in r.there, NewerOf(rows, i) < K
                 PROVE  NewerOf(r.last, i) < K
      OBVIOUS
    <3>1. /\ NewerOf(r.last, i) \in Nat /\ NewerOf(rows, i) \in Nat
          /\ NewerOf(r.last, i) <= NewerOf(rows, i)
      BY <2>1, NewerGrow
    <3> QED
      BY <2>2, <3>1
  <2> QED
    BY <2>1, <2>3 DEF K
<1> HIDE DEF t
<1>5. Paging(t)
  BY <1>3, <1>4 DEF Paging, After
<1>6. Honestly(t)
  BY <1>3 DEF Honestly
<1> QED
  BY <1>2, <1>3, <1>5, <1>6 DEF Readings

\* The rows of the count are those of the page: none has come between them.
LEMMA SameRows ==
  ASSUME NEW rows, IsFiniteSet(rows), NEW old \in SUBSET rows,
         Cardinality(old) = Cardinality(rows)
  PROVE  old = rows
<1> SUFFICES ASSUME NEW i \in rows, i \notin old
             PROVE  FALSE
  OBVIOUS
<1>1. Cardinality(old) < Cardinality(rows) /\ Cardinality(rows) \in Nat
      /\ Cardinality(old) \in Nat
  BY Fewer, FS_CardinalityType, FS_Subset
<1> QED
  BY <1>1

\* The page: it is of the rows that were counted, and shows those that are on it.
LEMMA PageKeepsPaging ==
  ASSUME NEW r \in Reading, Paging(r), r.kind \notin WholeLists, r.statement = 2,
         NEW rows \in SUBSET Nat, IsFiniteSet(rows),
         NEW s, After(s, r, rows), s.total = r.total,
         ~s.shifted => r.total = Cardinality(rows),
         \A i \in rows : NewerOf(rows, i) >= (r.page - 1) * r.limit
                         /\ NewerOf(rows, i) < (r.page - 1) * r.limit + r.limit
                         => i \in s.shown,
         r.shown \subseteq s.shown
  PROVE  Advanced(s) \in Readings
<1> DEFINE K == (r.page - 1) * r.limit
<1>0. r.limit \in 1 .. 100 /\ r.page \in Nat \ {0}
  BY DEF Paging
<1>1. K \in Int /\ r.page * r.limit = K + r.limit /\ (r.page + 1 - 1) * r.limit = K + r.limit
  BY <1>0
<1>2. \A i \in rows : NewerOf(rows, i) >= K /\ NewerOf(rows, i) < K + r.limit => i \in s.shown
  OBVIOUS
<1>3. ASSUME ~s.shifted
      PROVE  /\ r.there \subseteq rows /\ r.total = Cardinality(rows)
             /\ \A i \in r.there : NewerOf(rows, i) < K + r.limit => i \in s.shown
  <2>1. /\ r.there \subseteq r.last /\ IsFiniteSet(r.last) /\ r.last \subseteq rows
        /\ Cardinality(r.last) = Cardinality(rows) /\ r.total = Cardinality(rows)
        /\ \A i \in r.there : NewerOf(r.last, i) < K => i \in r.shown
    BY <1>3 DEF Paging, After
  <2>2. r.last = rows
    BY <2>1, SameRows
  <2> HIDE DEF K
  <2>3. ASSUME NEW i \in r.there, NewerOf(rows, i) < K + r.limit
        PROVE  i \in s.shown
    <3>1. NewerOf(rows, i) \in Nat
      BY <2>1, <2>2, NewerGrow
    <3>2. CASE NewerOf(rows, i) < K
      BY <2>1, <2>2, <3>2
    <3>3. CASE NewerOf(rows, i) >= K
      BY <1>2, <2>1, <2>2, <2>3, <3>3
    <3> QED
      BY <1>1, <3>1, <3>2, <3>3
  <2> QED
    BY <2>1, <2>2, <2>3
<1>4. s \in Reading /\ s.kind = r.kind /\ s.statement = 2 /\ s.limit = r.limit
      /\ s.page = r.page /\ s.there = r.there /\ s.last = rows
  BY DEF After
<1> HIDE DEF K
<1>5. CASE r.page * r.limit >= r.total
  <2> DEFINE t == [s EXCEPT !.statement = 0]
  <2>1. Advanced(s) = t
    BY <1>4, <1>5 DEF Advanced, Statements, WholeLists
  <2>2. /\ t \in Reading /\ t.kind = r.kind /\ t.statement = 0 /\ t.there = r.there
        /\ t.shown = s.shown /\ t.shifted = s.shifted
    BY <1>4, Stepped
  <2> HIDE DEF t
  <2>3. ASSUME ~s.shifted, NEW i \in r.there
        PROVE  i \in s.shown
    <3>1. /\ NewerOf(rows, i) \in Nat /\ NewerOf(rows, i) < Cardinality(rows)
          /\ Cardinality(rows) \in Nat
      BY <1>3, <2>3, NewerGrow, FS_CardinalityType
    <3> QED
      BY <1>0, <1>1, <1>3, <1>5, <2>3, <3>1
  <2>4. Paging(t)
    BY <2>2, <2>3 DEF Paging
  <2>5. Honestly(t)
    BY <2>2 DEF Honestly, WholeLists
  <2> QED
    BY <2>1, <2>2, <2>4, <2>5 DEF Readings
<1>6. CASE ~(r.page * r.limit >= r.total)
  <2>2. r.page + 1 \in Nat \ {0}
    BY <1>0
  <2>0. PICK t : t = [s EXCEPT !.statement = 1, !.page = r.page + 1]
    OBVIOUS
  <2>1. Advanced(s) = t
    <3>1. Statements(s.kind) = <<"count", "rows">> /\ s.kind \notin WholeLists
      BY <1>4 DEF Statements, WholeLists
    <3>2. ~(s.statement < 2) /\ ~(s.page * s.limit >= s.total) /\ s.page = r.page
      BY <1>4, <1>6
    <3>3. s.statement = 2 /\ Len(Statements(s.kind)) = 2
      BY <1>4, <3>1
    <3> QED
      BY Zenon, <2>0, <3>1, <3>2, <3>3 DEF Advanced
  <2>3. /\ t \in Reading /\ t.kind = r.kind /\ t.statement = 1 /\ t.there = r.there
        /\ t.limit = r.limit /\ t.shown = s.shown /\ t.shifted = s.shifted /\ t.last = rows
        /\ t.page = r.page + 1
    <3>1. PICK u : u = [s EXCEPT !.statement = 1]
      OBVIOUS
    <3>2. u \in Reading /\ u.kind = r.kind /\ u.statement = 1 /\ u.there = r.there
          /\ u.limit = r.limit /\ u.shown = s.shown /\ u.shifted = s.shifted /\ u.last = rows
      BY <1>4, <3>1, Stepped
    <3>3. t = [u EXCEPT !.page = r.page + 1]
      BY Zenon, <2>0, <3>1
    <3> QED
      BY <2>2, <3>2, <3>3, Turned
  <2>4. Paging(t)
    <3>1. (t.page - 1) * t.limit = K + r.limit
      <4>1. t.page = r.page + 1 /\ t.limit = r.limit
        BY <2>3
      <4> QED
        BY <1>0, <1>1, <4>1
    <3> QED
      BY <1>0, <1>3, <2>2, <2>3, <3>1 DEF Paging
  <2>5. Honestly(t)
    BY <2>3 DEF Honestly
  <2> QED
    BY <2>1, <2>3, <2>4, <2>5 DEF Readings
<1> QED
  BY <1>5, <1>6

\* What is on a page.
LEMMA OnPage ==
  ASSUME NEW r \in Reading, r.kind \notin WholeLists => r.limit \in 1 .. 100
  PROVE  /\ Page(r) \subseteq RowsOf(r.user, r.kind)
         /\ r.kind \notin WholeLists =>
              \A i \in RowsOf(r.user, r.kind) :
                NewerOf(RowsOf(r.user, r.kind), i) >= (r.page - 1) * r.limit
                /\ NewerOf(RowsOf(r.user, r.kind), i) < (r.page - 1) * r.limit + r.limit
                => i \in Page(r)
<1>1. Page(r) = {i \in RowsOf(r.user, r.kind) :
                   /\ NewerOf(RowsOf(r.user, r.kind), i) >= Offset(r)
                   /\ NewerOf(RowsOf(r.user, r.kind), i) < Offset(r) + Limit(r)}
  BY Zenon DEF Page, NewerOf
<1>2. r.kind \notin WholeLists => Limit(r) = r.limit
  BY LimitGranted
<1> QED
  BY Zenon, <1>1, <1>2 DEF Offset

\* The rows of a request for the invitees, then its count.
LEMMA InviteesStep ==
  ASSUME NEW r \in Reading, r.kind = "invitees",
         NEW rows \in SUBSET Nat, IsFiniteSet(rows), r.there \subseteq rows,
         r.shown \subseteq rows, NEW s, After(s, r, rows), s.shown \subseteq rows,
         \/ r.statement = 1
         \/ r.statement = 2 /\ s.total = Cardinality(rows) /\ s.shown = r.shown
  PROVE  /\ Advanced(s) \in Readings /\ Advanced(s).there = r.there
         /\ Advanced(s).user = r.user /\ Advanced(s).kind = r.kind
         /\ Advanced(s).shown = s.shown
<1>1. s \in Reading /\ s.kind = "invitees" /\ s.user = r.user /\ s.there = r.there
      /\ s.statement = r.statement
  BY DEF After
<1>2. Len(Statements(s.kind)) = 2 /\ s.kind \in WholeLists
  BY <1>1 DEF Statements, WholeLists
<1>3. CASE r.statement = 1
  <2> DEFINE t == [s EXCEPT !.statement = 2]
  <2>1. Advanced(s) = t
    <3>1. s.statement = 1 /\ Len(Statements(s.kind)) = 2
      BY <1>1, <1>2, <1>3, Zenon
    <3>2. s.statement < Len(Statements(s.kind)) /\ s.statement + 1 = 2
      BY <3>1
    <3> QED
      BY Zenon, <3>2 DEF Advanced
  <2>2. /\ t \in Reading /\ t.kind = r.kind /\ t.user = r.user /\ t.there = r.there
        /\ t.shown = s.shown /\ t.statement = 2
    BY <1>1, Stepped
  <2> HIDE DEF t
  <2>3. Paging(t) /\ Honestly(t)
    BY <2>2 DEF Paging, Honestly, WholeLists
  <2> QED
    BY <2>1, <2>2, <2>3 DEF Readings
<1>4. CASE r.statement = 2
  <2> DEFINE t == [s EXCEPT !.statement = 0]
  <2>1. Advanced(s) = t
    <3>1. s.statement = 2 /\ Len(Statements(s.kind)) = 2
      BY <1>1, <1>2, <1>4, Zenon
    <3>2. ~(s.statement < Len(Statements(s.kind)))
      BY <3>1
    <3> QED
      BY Zenon, <1>2, <3>2 DEF Advanced
  <2>2. /\ t \in Reading /\ t.kind = r.kind /\ t.user = r.user /\ t.there = r.there
        /\ t.shown = s.shown /\ t.statement = 0 /\ t.total = Cardinality(rows)
    BY <1>1, <1>4, Stepped
  <2> HIDE DEF t
  <2>3. Cardinality(t.shown) <= t.total
    BY <2>2, FS_Subset
  <2>4. t.there \subseteq t.shown \/ Cardinality(t.shown) < t.total
    <3> SUFFICES ASSUME NEW i \in r.there, i \notin s.shown
                 PROVE  Cardinality(s.shown) < Cardinality(rows)
      BY <2>2
    <3> QED
      BY Fewer
  <2>5. Paging(t) /\ Honestly(t)
    BY <2>2, <2>3, <2>4 DEF Paging, Honestly, WholeLists
  <2> QED
    BY <2>1, <2>2, <2>5 DEF Readings
<1> QED
  BY <1>3, <1>4

\* One statement of a request.
LEMMA StatementKeeps ==
  ASSUME ListsInv, InboxTypeOK, NEW c \in Readers, ReadingStep(c), UNCHANGED ledger
  PROVE  ListsInv'
<1>1. PICK r : r = reading[c]
  OBVIOUS
<1>2. PICK rows : rows = RowsOf(r.user, r.kind)
  OBVIOUS
<1>3. r \in Readings /\ r \in Reading /\ Paging(r) /\ Honestly(r) /\ r.statement \in {1, 2}
  BY <1>1 DEF ListsInv, Readings, ReadingStep, Reading
<1>4. r.user \in Ids /\ r.kind \in Kinds /\ r.shown \in SUBSET Nat
  BY <1>3 DEF Reading
<1>5. rows \in SUBSET Nat /\ IsFiniteSet(rows)
  BY <1>2, <1>4, RowsFinite DEF ListsInv
<1>6. Cardinality(rows) \in Nat
  BY <1>5, FS_CardinalityType
<1>7. PICK n : n = Cardinality(rows)
  OBVIOUS
<1>8. PICK gone \in BOOLEAN : gone = ~(r.last \subseteq rows)
  OBVIOUS
<1>9. PICK all : all = r.shown \cup Page(r)
  OBVIOUS
<1>10. Page(r) \subseteq rows
  <2>1. r.kind \notin WholeLists => r.limit \in 1 .. 100
    BY <1>3 DEF Paging
  <2> QED
    BY <1>2, <1>3, <2>1, OnPage
<1>11. all \in SUBSET Nat
  BY <1>4, <1>5, <1>9, <1>10
<1>12. ASSUME NEW s, s \in Readings, reading' = [reading EXCEPT ![c] = s],
              s.user = r.user, s.kind = r.kind, s.there = r.there,
              r.kind = "invitees" => s.shown \subseteq rows
       PROVE  ListsInv'
  <2>1. reading' \in [Readers -> Readings]
    BY <1>12 DEF ListsInv
  <2>2. InviteesStay'
    <3> SUFFICES ASSUME NEW d \in Readers, reading'[d].kind = "invitees", reading'[d].statement # 0
                 PROVE  /\ reading'[d].there \subseteq 1 .. ledger[reading'[d].user]["invitees"]
                        /\ reading'[d].shown \subseteq 1 .. ledger[reading'[d].user]["invitees"]
      BY DEF InviteesStay
    <3>1. CASE d = c
      <4>1. r.kind = "invitees" /\ reading'[d] = s
        BY <1>12, <3>1 DEF ListsInv
      <4>2. rows = 1 .. ledger[r.user]["invitees"]
        BY <1>2, <4>1 DEF RowsOf
      <4>3. r.there \subseteq rows
        BY <1>1, <1>3, <4>1, <4>2 DEF ListsInv, InviteesStay
      <4> QED
        BY <1>12, <4>1, <4>2, <4>3
    <3>2. CASE d # c
      <4>1. reading'[d] = reading[d]
        BY <1>12, <3>2 DEF ListsInv
      <4> QED
        BY <4>1 DEF ListsInv, InviteesStay
    <3> QED
      BY <3>1, <3>2
  <2> QED
    BY <2>1, <2>2 DEF ListsInv
<1>13. r.kind = "invitees" => r.there \subseteq rows /\ r.shown \subseteq rows
  <2> SUFFICES ASSUME r.kind = "invitees"
               PROVE  r.there \subseteq rows /\ r.shown \subseteq rows
    OBVIOUS
  <2>1. rows = 1 .. ledger[r.user]["invitees"]
    BY <1>2 DEF RowsOf
  <2> QED
    BY <1>1, <1>3, <2>1 DEF ListsInv, InviteesStay
<1>14. ASSUME NEW s, After(s, r, rows), r.kind = "team"
       PROVE  Advanced(s) = [s EXCEPT !.statement = 0] /\ Advanced(s) \in Readings
  <2>1. s \in Reading /\ s.kind = "team" /\ s.kind \in WholeLists
    BY <1>14 DEF After, WholeLists
  <2>2. s.statement = r.statement /\ Len(Statements(s.kind)) = 1
    BY <1>14, <2>1 DEF After, Statements
  <2>3. ~(s.statement < Len(Statements(s.kind)))
    BY <1>3, <2>2
  <2>4. PICK t : t = [s EXCEPT !.statement = 0]
    OBVIOUS
  <2>5. Advanced(s) = t
    BY Zenon, <2>1, <2>3, <2>4 DEF Advanced
  <2>6. t \in Reading /\ t.kind = "team"
    BY <2>1, <2>4, Stepped
  <2>7. Paging(t) /\ Honestly(t)
    BY <2>6 DEF Paging, Honestly, WholeLists
  <2> QED
    BY <2>4, <2>5, <2>6, <2>7 DEF Readings
<1>15. ASSUME NEW s, After(s, r, rows)
       PROVE  /\ Advanced(s).user = r.user /\ Advanced(s).kind = r.kind
              /\ Advanced(s).there = r.there /\ Advanced(s).shown = s.shown
  <2>1. s \in Reading /\ s.statement \in {1, 2} /\ s.page + 1 \in Nat
    BY <1>3, <1>15 DEF After, Reading
  <2>2. s.user = r.user /\ s.kind = r.kind /\ s.there = r.there
    BY <1>15 DEF After
  <2>3. ASSUME NEW x \in 0 .. 2
        PROVE  /\ [s EXCEPT !.statement = x] \in Reading
               /\ [s EXCEPT !.statement = x].user = r.user
               /\ [s EXCEPT !.statement = x].kind = r.kind
               /\ [s EXCEPT !.statement = x].there = r.there
               /\ [s EXCEPT !.statement = x].shown = s.shown
    <3>1. PICK t : t = [s EXCEPT !.statement = x]
      OBVIOUS
    <3> QED
      BY <2>1, <2>2, <3>1, Stepped
  <2>4. CASE Advanced(s) = [s EXCEPT !.statement = s.statement + 1]
             /\ s.statement < Len(Statements(s.kind))
    <3>1. Len(Statements(s.kind)) <= 2
      BY DEF Statements
    <3>2. s.statement + 1 \in 0 .. 2
      BY <2>1, <2>4, <3>1
    <3> QED
      BY <2>3, <2>4, <3>2
  <2>5. CASE Advanced(s) = [s EXCEPT !.statement = 0]
    BY <2>3, <2>5
  <2>6. CASE Advanced(s) = [s EXCEPT !.statement = 1, !.page = s.page + 1]
    <3>1. PICK t : t = [s EXCEPT !.statement = 1]
      OBVIOUS
    <3>2. PICK u : u = [t EXCEPT !.page = s.page + 1]
      OBVIOUS
    <3>3. Advanced(s) = u
      BY Zenon, <2>6, <3>1, <3>2
    <3>4. t \in Reading /\ t.user = r.user /\ t.kind = r.kind /\ t.there = r.there
          /\ t.shown = s.shown
      BY <2>3, <3>1
    <3> QED
      BY <2>1, <3>2, <3>3, <3>4, Turned
  <2> QED
    BY Zenon, <2>4, <2>5, <2>6 DEF Advanced
<1>16. r.kind \in WholeLists => r.kind \in {"invitees", "team"}
  BY DEF WholeLists
<1>17. CASE Statements(r.kind)[r.statement] = "count"
  <2>1. PICK s : s = [r EXCEPT !.total = n, !.last = rows, !.shifted = @ \/ gone]
    OBVIOUS
  <2>2. reading' = [reading EXCEPT ![c] = Advanced(s)]
    BY <1>1, <1>2, <1>7, <1>8, <1>17, <2>1, Zenon DEF ReadingStep
  <2>3. After(s, r, rows) /\ s.total = n /\ s.shown = r.shown
    <3>1. PICK f \in BOOLEAN : f = (r.shifted \/ gone)
      BY DEF Reading
    <3>2. PICK u : u = [r EXCEPT !.total = n]
      OBVIOUS
    <3>3. PICK v : v = [u EXCEPT !.last = rows]
      OBVIOUS
    <3>4. s = [v EXCEPT !.shifted = f]
      BY Zenon, <2>1, <3>1, <3>2, <3>3
    <3>5. /\ u \in Reading /\ u.total = n /\ u.user = r.user /\ u.kind = r.kind
          /\ u.limit = r.limit /\ u.statement = r.statement /\ u.page = r.page
          /\ u.there = r.there /\ u.shown = r.shown
      BY <1>3, <1>6, <1>7, <3>2, Counted
    <3>6. /\ v \in Reading /\ v.total = n /\ v.user = r.user /\ v.kind = r.kind
          /\ v.limit = r.limit /\ v.statement = r.statement /\ v.page = r.page
          /\ v.there = r.there /\ v.shown = r.shown /\ v.last = rows
      BY <1>5, <3>3, <3>5, Seen
    <3>7. /\ s \in Reading /\ s.total = n /\ s.user = r.user /\ s.kind = r.kind
          /\ s.limit = r.limit /\ s.statement = r.statement /\ s.page = r.page
          /\ s.there = r.there /\ s.shown = r.shown /\ s.last = rows /\ s.shifted = f
      BY <3>4, <3>6, Shifted
    <3> QED
      BY <1>8, <3>1, <3>7 DEF After
  <2>4. CASE r.kind \notin WholeLists
    <3>1. r.statement = 1
      BY <1>3, <1>17, <2>4 DEF Statements, WholeLists
    <3>2. Advanced(s) \in Readings
      BY <1>3, <1>5, <1>7, <2>3, <2>4, <3>1, CountKeepsPaging
    <3> QED
      BY <1>12, <1>15, <2>2, <2>3, <2>4, <3>2 DEF WholeLists
  <2>5. CASE r.kind = "invitees"
    <3>1. r.statement = 2
      BY <1>3, <1>17, <2>5 DEF Statements
    <3>2. Advanced(s) \in Readings
      BY <1>3, <1>5, <1>7, <1>13, <2>3, <2>5, <3>1, InviteesStep
    <3> QED
      BY <1>12, <1>13, <1>15, <2>2, <2>3, <2>5, <3>2
  <2>6. CASE r.kind = "team"
    <3>1. Advanced(s) \in Readings
      BY <1>14, <2>3, <2>6
    <3> QED
      BY <1>12, <1>15, <2>2, <2>3, <2>6, <3>1
  <2> QED
    BY <1>16, <2>4, <2>5, <2>6
<1>18. CASE Statements(r.kind)[r.statement] # "count"
  <2>1. PICK s : s = [r EXCEPT !.shown = @ \cup Page(r), !.last = rows,
                               !.shifted = @ \/ gone \/ r.total # Cardinality(rows)]
    OBVIOUS
  <2>2. reading' = [reading EXCEPT ![c] = Advanced(s)]
    BY <1>1, <1>2, <1>8, <1>18, <2>1, Zenon DEF ReadingStep
  <2>3. /\ After(s, r, rows) /\ s.total = r.total /\ s.shown = all
        /\ ~s.shifted => r.total = Cardinality(rows)
    <3>1. PICK f \in BOOLEAN : f = (r.shifted \/ gone \/ r.total # Cardinality(rows))
      BY DEF Reading
    <3>2. PICK u : u = [r EXCEPT !.shown = all]
      OBVIOUS
    <3>3. PICK v : v = [u EXCEPT !.last = rows]
      OBVIOUS
    <3>4. s = [v EXCEPT !.shifted = f]
      BY Zenon, <1>9, <2>1, <3>1, <3>2, <3>3
    <3>5. /\ u \in Reading /\ u.total = r.total /\ u.user = r.user /\ u.kind = r.kind
          /\ u.limit = r.limit /\ u.statement = r.statement /\ u.page = r.page
          /\ u.there = r.there /\ u.shown = all
      <4>1. r \in Reading
        BY <1>3
      <4> QED
        BY <1>11, <3>2, <4>1 DEF Reading
    <3>6. /\ v \in Reading /\ v.total = r.total /\ v.user = r.user /\ v.kind = r.kind
          /\ v.limit = r.limit /\ v.statement = r.statement /\ v.page = r.page
          /\ v.there = r.there /\ v.shown = all /\ v.last = rows
      BY <1>5, <3>3, <3>5, Seen
    <3>7. /\ s \in Reading /\ s.total = r.total /\ s.user = r.user /\ s.kind = r.kind
          /\ s.limit = r.limit /\ s.statement = r.statement /\ s.page = r.page
          /\ s.there = r.there /\ s.shown = all /\ s.last = rows /\ s.shifted = f
      BY <3>4, <3>6, Shifted
    <3> QED
      BY <1>8, <3>1, <3>7 DEF After
  <2>4. CASE r.kind \notin WholeLists
    <3>1. r.statement = 2
      BY <1>3, <1>18, <2>4 DEF Statements, WholeLists
    <3>2. r.limit \in 1 .. 100
      BY <1>3, <2>4, <3>1 DEF Paging
    <3>3. \A i \in rows : NewerOf(rows, i) >= (r.page - 1) * r.limit
                          /\ NewerOf(rows, i) < (r.page - 1) * r.limit + r.limit
                          => i \in s.shown
      <4>1. \A i \in rows : NewerOf(rows, i) >= (r.page - 1) * r.limit
                            /\ NewerOf(rows, i) < (r.page - 1) * r.limit + r.limit
                            => i \in Page(r)
        BY Zenon, <1>2, <1>3, <2>4, <3>2, OnPage
      <4>2. Page(r) \subseteq s.shown
        BY <1>9, <2>3
      <4> QED
        BY Zenon, <4>1, <4>2
    <3>4. r.shown \subseteq s.shown
      BY <1>9, <2>3
    <3>5. Advanced(s) \in Readings
      BY <1>3, <1>5, <2>3, <2>4, <3>1, <3>3, <3>4, PageKeepsPaging
    <3> QED
      BY <1>12, <1>15, <2>2, <2>3, <2>4, <3>5 DEF WholeLists
  <2>5. CASE r.kind = "invitees"
    <3>1. r.statement = 1
      BY <1>3, <1>18, <2>5 DEF Statements
    <3>2. s.shown \subseteq rows
      BY <1>9, <1>10, <1>13, <2>3, <2>5
    <3>3. Advanced(s) \in Readings
      BY <1>3, <1>5, <1>13, <2>3, <2>5, <3>1, <3>2, InviteesStep
    <3> QED
      BY <1>12, <1>15, <2>2, <2>3, <3>2, <3>3
  <2>6. CASE r.kind = "team"
    <3>1. Advanced(s) \in Readings
      BY <1>14, <2>3, <2>6
    <3> QED
      BY <1>12, <1>15, <2>2, <2>3, <2>6, <3>1
  <2> QED
    BY <1>16, <2>4, <2>5, <2>6
<1> QED
  BY <1>17, <1>18

\* Every page size that is asked for is between one and a hundred.
LEMMA Requests ==
  ASSUME NEW c \in Readers, NEW u \in Registered, coming.sizes \subseteq Int, ReadBegin(c, u)
  PROVE  \E kind \in Kinds, limit \in Nat :
           /\ kind \notin WholeLists => limit \in 1 .. 100
           /\ Begin(c, u, kind, limit)
<1>1. ASSUME NEW size \in coming.sizes, NEW kind \in Kinds, NEW d \in 1 .. 100,
             Begin(c, u, kind, PageSize(size, d))
      PROVE  \E k \in Kinds, limit \in Nat :
               /\ k \notin WholeLists => limit \in 1 .. 100
               /\ Begin(c, u, k, limit)
  <2>1. PageSize(size, d) \in 1 .. 100
    BY PageSizes
  <2>2. PageSize(size, d) \in Nat
    BY <2>1
  <2> QED
    BY Zenon, <1>1, <2>1, <2>2
<1>2. 9 \in 1 .. 100 /\ 10 \in 1 .. 100 /\ 20 \in 1 .. 100
  OBVIOUS
<1>3. {"orders", "flows", "invoices", "records", "withdrawals", "invitees", "team",
       "messages", "unread"} \subseteq Kinds
  BY DEF Kinds, Tables
<1>4. ASSUME NEW size \in coming.sizes,
             \/ ListOrders(c, u, size) \/ ListWalletFlows(c, u, size)
             \/ ListInvoices(c, u, size) \/ ListCommissionRecords(c, u, size)
             \/ ListWithdrawals(c, u, size)
             \/ \E unread \in BOOLEAN : ListMessages(c, u, unread, size)
      PROVE  \E k \in Kinds, limit \in Nat :
               /\ k \notin WholeLists => limit \in 1 .. 100
               /\ Begin(c, u, k, limit)
  BY <1>1, <1>2, <1>3, <1>4 DEF ListOrders, ListWalletFlows, ListInvoices,
     ListCommissionRecords, ListWithdrawals, ListMessages, RebatePage
<1>5. ASSUME ListMembers(c, u) \/ ListTeamMembers(c, u)
      PROVE  \E k \in Kinds, limit \in Nat :
               /\ k \notin WholeLists => limit \in 1 .. 100
               /\ Begin(c, u, k, limit)
  <2>1. 500 \in Nat /\ "invitees" \in WholeLists /\ "team" \in WholeLists
        /\ "invitees" \in Kinds /\ "team" \in Kinds
    BY <1>3 DEF WholeLists
  <2>2. Begin(c, u, "invitees", 500) \/ Begin(c, u, "team", 500)
    BY <1>5 DEF ListMembers, ListTeamMembers
  <2> QED
    BY Zenon, <2>1, <2>2
<1> QED
  BY <1>4, <1>5 DEF ReadBegin

\* Rows that are written while lists are read.
LEMMA GrowthKeeps ==
  ASSUME ListsInv, NEW u \in Ids, NEW table \in Tables, Grow(u, table), UNCHANGED reading
  PROVE  ListsInv'
<1>1. ledger[u] \in [Tables -> Nat] /\ ledger[u][table] + 1 \in Nat
  BY DEF ListsInv
<1>2. PICK rows : rows = [ledger[u] EXCEPT ![table] = ledger[u][table] + 1]
  OBVIOUS
<1>3. ledger' = [ledger EXCEPT ![u] = rows]
  BY <1>2 DEF Grow
<1>4. rows \in [Tables -> Nat] /\ \A t \in Tables : ledger[u][t] <= rows[t]
  BY <1>1, <1>2
<1>5. ledger' \in [Ids -> [Tables -> Nat]]
  BY <1>3, <1>4 DEF ListsInv
<1>6. InviteesStay'
  <2> SUFFICES ASSUME NEW d \in Readers, reading[d].kind = "invitees", reading[d].statement # 0
               PROVE  /\ reading[d].there \subseteq 1 .. ledger'[reading[d].user]["invitees"]
                      /\ reading[d].shown \subseteq 1 .. ledger'[reading[d].user]["invitees"]
    BY DEF InviteesStay
  <2>1. PICK v : v = reading[d].user
    OBVIOUS
  <2>2. v \in Ids /\ "invitees" \in Tables
    BY <2>1 DEF ListsInv, Readings, Reading, Tables
  <2>3. ledger[v]["invitees"] \in Nat /\ ledger'[v]["invitees"] \in Nat
        /\ ledger[v]["invitees"] <= ledger'[v]["invitees"]
    BY <1>3, <1>4, <2>2 DEF ListsInv
  <2>4. 1 .. ledger[v]["invitees"] \subseteq 1 .. ledger'[v]["invitees"]
    <3>1. PICK m : m = ledger[v]["invitees"]
      OBVIOUS
    <3>2. PICK n : n = ledger'[v]["invitees"]
      OBVIOUS
    <3>3. m \in Nat /\ n \in Nat /\ m <= n
      BY <2>3, <3>1, <3>2
    <3>4. 1 .. m \subseteq 1 .. n
      BY <3>3
    <3> QED
      BY <3>1, <3>2, <3>4
  <2>5. /\ reading[d].there \subseteq 1 .. ledger[v]["invitees"]
        /\ reading[d].shown \subseteq 1 .. ledger[v]["invitees"]
    BY <2>1 DEF ListsInv, InviteesStay
  <2> QED
    BY <2>1, <2>4, <2>5
<1> QED
  BY <1>5, <1>6 DEF ListsInv

\* Every step keeps the readings as they should be.
LEMMA ListsStep ==
  ASSUME ListsInv, InboxTypeOK, coming \in Traffic, [Next]_vars
  PROVE  ListsInv'
<1>1. CASE UNCHANGED listVars
  BY <1>1 DEF listVars, ListsInv, InviteesStay
<1>2. CASE Reads
  <2>1. CASE ReadLists
    <3>1. UNCHANGED ledger
      BY <2>1 DEF ReadLists
    <3>2. ASSUME NEW c \in Readers, NEW u \in Registered, ReadBegin(c, u)
          PROVE  ListsInv'
      <4>1. PICK kind \in Kinds, limit \in Nat :
              /\ kind \notin WholeLists => limit \in 1 .. 100
              /\ Begin(c, u, kind, limit)
        BY <3>2, Requests DEF Traffic
      <4>2. u \in Ids
        BY DEF Registered, Joined
      <4> QED
        BY <3>1, <4>1, <4>2, BeginKeeps
    <3>3. ASSUME NEW c \in Readers, ReadingStep(c)
          PROVE  ListsInv'
      BY <3>1, <3>3, StatementKeeps
    <3> QED
      BY <2>1, <3>2, <3>3 DEF ReadLists
  <2>2. CASE ListChanges
    <3>1. UNCHANGED reading
      BY <2>2 DEF ListChanges
    <3>2. UNCHANGED ledger \/ \E u \in Registered, table \in Tables : Grow(u, table)
      BY <2>2 DEF ListChanges
    <3>3. CASE UNCHANGED ledger
      BY <1>1, <3>1, <3>3 DEF listVars
    <3>4. ASSUME NEW u \in Registered, NEW table \in Tables, Grow(u, table)
          PROVE  ListsInv'
      <4>1. u \in Ids
        BY DEF Registered, Joined
      <4> QED
        BY <3>1, <3>4, <4>1, GrowthKeeps
    <3> QED
      BY <3>2, <3>3, <3>4
  <2> QED
    BY <1>2, <2>1, <2>2 DEF Reads
<1> QED
  BY <1>1, <1>2, Writers

\* At first nobody reads.
LEMMA ListsAtFirst == Init => ListsInv /\ InboxTypeOK
<1> SUFFICES ASSUME Init PROVE ListsInv /\ InboxTypeOK
  OBVIOUS
<1>1. PICK day \in Days : ListsInit(day.rows) /\ InboxInit
  BY DEF Init
<1>2. day.rows \in [Tables -> Nat]
  BY DaysAssumption
<1>3. <<>> \in Seq(BOOLEAN)
  OBVIOUS
<1>4. InboxTypeOK
  BY <1>1, <1>3 DEF InboxInit, InboxTypeOK
<1>5. PICK u : u = CHOOSE i \in Ids : TRUE
  OBVIOUS
<1>6. u \in Ids
  BY <1>5, FaultAssumption
<1>7. NoReading = [user |-> u, kind |-> "orders", limit |-> 0, statement |-> 0, page |-> 1,
                   total |-> 0, there |-> {}, last |-> {}, shown |-> {}, shifted |-> FALSE]
  BY <1>5, Zenon DEF NoReading, Asking
<1>8. "orders" \in Kinds
  BY DEF Kinds, Tables
<1>9. /\ NoReading \in Reading /\ NoReading.kind = "orders" /\ NoReading.statement = 0
      /\ NoReading.there = {}
  BY <1>6, <1>7, <1>8 DEF Reading
<1>10. NoReading \in Readings
  BY <1>9 DEF Readings, Paging, Honestly
<1> HIDE DEF NoReading
<1> QED
  BY <1>1, <1>2, <1>4, <1>9, <1>10 DEF ListsInit, ListsInv, InviteesStay

\* The readings' invariant holds in every reachable state.
LEMMA ListsInvariant == Spec => [](ListsInv /\ InboxTypeOK)
<1>1. ListsInv /\ InboxTypeOK /\ MembersInv /\ [Next]_vars => (ListsInv /\ InboxTypeOK)'
  BY ListsStep, InboxGrows DEF MembersInv
<1> QED
  BY <1>1, ListsAtFirst, MembersInvariant, PTL DEF Spec

\* A client that pages through a list, a count and a query per page, is shown every row
\* there was when it began, in a list that may grow all the time; unless a row came
\* between the two statements of a page or a list of the unread got shorter.
THEOREM ListsAreReadWhole == Spec => []WholeListRead
<1>1. ListsInv => WholeListRead
  BY DEF ListsInv, Readings, Paging, WholeListRead
<1> QED
  BY <1>1, ListsInvariant, PTL

\* The invitees that are answered are all there are, or the total beside them says that
\* there are more, whoever registers between the two statements.
THEOREM InviteesAreHonest == Spec => []MembersListHonest
<1>1. ListsInv => MembersListHonest
  BY DEF ListsInv, Readings, Honestly, MembersListHonest
<1> QED
  BY <1>1, ListsInvariant, PTL

-----------------------------------------------------------------------------
(* Usage events. *)

Distinct(s) == \A i, j \in DOMAIN s : s[i] = s[j] => i = j

Queued == {queue[i] : i \in DOMAIN queue}
Sent == UNION {m.events : m \in wire}
Written == {e \in Events : stored[e] = 1}

\* Every event there has been is in the queue, under way, stored or lost, and in one of
\* these only; twice in the queue or in two requests it is not.
EventsPlaced ==
  /\ Queued \cup Sent \cup Written \cup lost = 1 .. made
  /\ Queued \cap Sent = {} /\ Queued \cap Written = {} /\ Queued \cap lost = {}
  /\ Sent \cap Written = {} /\ Sent \cap lost = {} /\ Written \cap lost = {}
  /\ Distinct(queue)
  /\ \A m, n \in wire : m # n => m.events \cap n.events = {}

TrackInv ==
  /\ TrackingTypeOK
  /\ stored \in [Events -> {0, 1}]
  /\ EventsPlaced

\* Sets that include one another are equal.
LEMMA Both ==
  ASSUME NEW A, NEW B, A \subseteq B, B \subseteq A
  PROVE  A = B
OBVIOUS

\* What a flush takes from a queue and what it leaves are the queue.
LEMMA Split ==
  ASSUME NEW S, NEW q \in Seq(S), Distinct(q), NEW b \in Nat \ {0}
  PROVE  LET batch == SubSeq(q, 1, IF Len(q) < b THEN Len(q) ELSE b)
             rest  == SubSeq(q, b + 1, Len(q))
         IN /\ rest \in Seq(S) /\ batch \in Seq(S) /\ Distinct(rest)
            /\ Elements(q) = Elements(batch) \cup Elements(rest)
            /\ Elements(batch) \cap Elements(rest) = {}
            /\ q = <<>> => rest = <<>>
<1>0. PICK k : k = Len(q)
  OBVIOUS
<1>1. PICK n : n = IF k < b THEN k ELSE b
  OBVIOUS
<1>2. /\ k \in Nat /\ n \in Nat /\ n <= k /\ n <= b /\ n <= k /\ b + 1 \in Int
      /\ DOMAIN q = 1 .. k
  BY <1>0, <1>1
<1>3. \A i \in 1 .. k : q[i] \in S /\ (i > n => i > b)
  BY <1>0, <1>1
<1> DEFINE batch == SubSeq(q, 1, n)
           rest  == SubSeq(q, b + 1, k)
<1>4. /\ batch \in Seq(S) /\ DOMAIN batch = 1 .. n
      /\ \A i \in 1 .. n : batch[i] = q[i]
  <2>1. \A i \in 1 .. n : q[i] \in S
    BY <1>2, <1>3
  <2>2. /\ batch \in Seq(S) /\ Len(batch) = IF 1 <= n THEN n - 1 + 1 ELSE 0
        /\ \A i \in 1 .. n - 1 + 1 : batch[i] = q[1 + i - 1]
    <3>1. 1 \in Int /\ n \in Int
      BY <1>2
    <3> QED
      BY <2>1, <3>1, SubSeqProperties
  <2>3. n - 1 + 1 = n /\ (IF 1 <= n THEN n - 1 + 1 ELSE 0) = n
    BY <1>2
  <2>4. \A i \in 1 .. n : 1 + i - 1 = i
    OBVIOUS
  <2> HIDE DEF batch
  <2> QED
    BY <2>2, <2>3, <2>4
<1>5. /\ rest \in Seq(S) /\ DOMAIN rest = 1 .. (IF b + 1 <= k THEN k - b ELSE 0)
      /\ \A i \in 1 .. k - b : rest[i] = q[i + b]
  <2>1. \A i \in b + 1 .. k : q[i] \in S
    BY <1>2, <1>3
  <2>2. /\ rest \in Seq(S)
        /\ Len(rest) = IF b + 1 <= k THEN k - (b + 1) + 1 ELSE 0
        /\ \A i \in 1 .. k - (b + 1) + 1 : rest[i] = q[b + 1 + i - 1]
    <3>1. k \in Int
      BY <1>2
    <3> QED
      BY <1>2, <2>1, <3>1, SubSeqProperties
  <2>3. k - (b + 1) + 1 = k - b
    BY <1>2
  <2>4. \A i \in 1 .. k - b : b + 1 + i - 1 = i + b
    OBVIOUS
  <2> HIDE DEF rest
  <2> QED
    BY <2>2, <2>3, <2>4
<1> HIDE DEF batch, rest
<1>6. ASSUME NEW i \in DOMAIN rest
      PROVE  i \in Int /\ i + b \in DOMAIN q /\ i + b > n /\ rest[i] = q[i + b]
  <2>1. i \in 1 .. (IF b + 1 <= k THEN k - b ELSE 0)
    BY <1>5
  <2>2. i \in 1 .. k - b /\ i + b \in 1 .. k /\ i + b > n
    BY <1>2, <2>1
  <2> QED
    BY <1>2, <1>5, <2>2
<1>60. ASSUME NEW i \in DOMAIN batch
      PROVE  i \in DOMAIN q /\ i \in Int /\ i <= n /\ batch[i] = q[i]
  <2>1. i \in 1 .. n
    BY <1>4
  <2>2. i \in 1 .. k /\ i \in Int /\ i <= n
    BY <1>2, <2>1
  <2> QED
    BY <1>2, <1>4, <2>1, <2>2
<1>7. Distinct(rest)
  <2> SUFFICES ASSUME NEW i \in DOMAIN rest, NEW j \in DOMAIN rest, rest[i] = rest[j]
               PROVE  i = j
    BY DEF Distinct
  <2>1. i + b = j + b /\ i \in Int /\ j \in Int
    BY <1>6 DEF Distinct
  <2> QED
    BY <2>1
<1>8. Elements(batch) \cap Elements(rest) = {}
  <2> SUFFICES ASSUME NEW i \in DOMAIN batch, NEW j \in DOMAIN rest, batch[i] = rest[j]
               PROVE  FALSE
    BY DEF Elements
  <2>1. i = j + b
    BY <1>6, <1>60 DEF Distinct
  <2> QED
    BY <1>2, <1>6, <1>60, <2>1
<1>9. Elements(batch) \cup Elements(rest) \subseteq Elements(q)
  BY <1>6, <1>60 DEF Elements
<1>10. Elements(q) \subseteq Elements(batch) \cup Elements(rest)
  <2> SUFFICES ASSUME NEW i \in DOMAIN q
               PROVE  q[i] \in Elements(batch) \cup Elements(rest)
    BY DEF Elements
  <2>0. i \in 1 .. k
    BY <1>2
  <2>1. CASE i <= n
    <3>1. i \in 1 .. n
      BY <1>2, <2>0, <2>1
    <3> QED
      BY <1>4, <3>1 DEF Elements
  <2>2. CASE ~(i <= n)
    <3>1. i - b \in 1 .. k - b /\ (i - b) + b = i /\ b + 1 <= k
      BY <1>2, <1>3, <2>0, <2>2
    <3>2. i - b \in DOMAIN rest
      BY <1>5, <3>1
    <3>3. rest[i - b] = q[i]
      BY <1>5, <3>1
    <3> QED
      BY <3>2, <3>3 DEF Elements
  <2> QED
    BY <2>1, <2>2
<1>11. q = <<>> => rest = <<>>
  <2> SUFFICES ASSUME q = <<>> PROVE rest = <<>>
    OBVIOUS
  <2>1. k = 0
    BY <1>0
  <2> QED
    BY <1>2, <2>1, SubSeqEmpty DEF rest
<1>12. /\ batch = SubSeq(q, 1, IF Len(q) < b THEN Len(q) ELSE b)
       /\ rest = SubSeq(q, b + 1, Len(q))
  BY <1>0, <1>1 DEF batch, rest
<1> QED
  BY Zenon, <1>4, <1>5, <1>7, <1>8, <1>9, <1>10, <1>11, <1>12, Both

\* A flush moves a batch from the queue to the wire.
LEMMA FlushPlaces ==
  ASSUME TrackInv, Flush, UNCHANGED <<made, stored, lost>>
  PROVE  /\ EventsPlaced' /\ queue' \in Seq(Events)
         /\ wire' \subseteq [route : {"beacon", "fetch"}, events : SUBSET Events]
<1>1. queue \in Seq(Events) /\ Distinct(queue) /\ BatchSize \in Nat \ {0}
  BY TrackingAssumption DEF TrackInv, TrackingTypeOK, EventsPlaced
<1>2. PICK batch : batch = Batch
  OBVIOUS
<1>3. PICK rest : rest = Rest
  OBVIOUS
<1>4. /\ rest \in Seq(Events) /\ batch \in Seq(Events) /\ Distinct(rest)
      /\ Elements(queue) = Elements(batch) \cup Elements(rest)
      /\ Elements(batch) \cap Elements(rest) = {}
      /\ queue = <<>> => rest = <<>>
  BY Zenon, <1>1, <1>2, <1>3, Split DEF Batch, Rest
<1>5. queue' = rest
  BY <1>3 DEF Flush
<1>6. PICK taken : taken = Elements(batch)
  OBVIOUS
<1>7. Queued' = Elements(rest) /\ Queued = Elements(queue)
  BY <1>5 DEF Queued, Elements
<1>8. Distinct(queue)'
  BY <1>4, <1>5 DEF Distinct
<1>9. taken \subseteq Events
  BY <1>4, <1>6 DEF Elements
<1>10. Written' = Written
  BY DEF Written
<1>11. CASE queue = <<>>
  <2>1. Queued' = Queued /\ UNCHANGED wire
    BY <1>4, <1>5, <1>11 DEF Flush, Queued
  <2>2. Sent' = Sent
    BY <2>1 DEF Sent
  <2> QED
    BY <1>4, <1>5, <1>8, <1>10, <2>1, <2>2 DEF TrackInv, EventsPlaced, TrackingTypeOK
<1>12. CASE queue # <<>>
  <2>1. PICK routes \in Routes :
          wire' = wire \cup {[route |-> r, events |-> Elements(Batch)] : r \in routes}
    BY <1>12 DEF Flush
  <2>2. PICK r \in {"beacon", "fetch"} : routes = {r}
    BY DEF Routes
  <2>3. PICK m : m = [route |-> r, events |-> taken]
    OBVIOUS
  <2>4. wire' = wire \cup {m}
    BY <1>2, <1>6, <2>1, <2>2, <2>3
  <2>5. m \in [route : {"beacon", "fetch"}, events : SUBSET Events] /\ m.events = taken
    BY <1>9, <2>3
  <2>6. Sent' = Sent \cup taken
    BY <2>4, <2>5 DEF Sent
  <2>7. taken \subseteq Queued /\ taken \cap Queued' = {} /\ Queued = taken \cup Queued'
    BY <1>4, <1>6, <1>7
  <2>8. \A o \in wire : o.events \cap taken = {}
    <3>1. \A o \in wire : o.events \subseteq Sent
      BY DEF Sent
    <3> QED
      BY <2>7, <3>1 DEF TrackInv, EventsPlaced
  <2>9. \A o, p \in wire' : o # p => o.events \cap p.events = {}
    <3>1. \A o, p \in wire : o # p => o.events \cap p.events = {}
      BY DEF TrackInv, EventsPlaced
    <3> QED
      BY <2>4, <2>5, <2>8, <3>1
  <2>10. /\ Queued' \cup Sent' \cup Written' \cup lost' = 1 .. made'
         /\ Queued' \cap Sent' = {} /\ Queued' \cap Written' = {} /\ Queued' \cap lost' = {}
         /\ Sent' \cap Written' = {} /\ Sent' \cap lost' = {} /\ Written' \cap lost' = {}
    BY <1>10, <2>6, <2>7 DEF TrackInv, EventsPlaced
  <2> QED
    BY <1>4, <1>5, <1>8, <2>4, <2>5, <2>9, <2>10 DEF EventsPlaced, TrackInv, TrackingTypeOK
<1> QED
  BY <1>11, <1>12

\* An event goes into the queue.
LEMMA EnqueuePlaces ==
  ASSUME TrackInv, NEW cut \in BOOLEAN, Enqueue(cut)
  PROVE  TrackInv'
<1> DEFINE e == made + 1
<1>1. made \in 0 .. MaxEvents /\ made < MaxEvents /\ MaxEvents \in Nat
  BY TrackingAssumption DEF TrackInv, TrackingTypeOK, Enqueue
<1>2. e \in Events /\ e \notin 1 .. made /\ 1 .. e = (1 .. made) \cup {e} /\ e \in 0 .. MaxEvents
  BY <1>1 DEF Events
<1>3. /\ made' = e /\ queue' = Append(queue, e) /\ queue \in Seq(Events)
      /\ UNCHANGED <<page, wire, stored, lost>> /\ timer' = TRUE
  BY DEF Enqueue, TrackInv, TrackingTypeOK
<1> HIDE DEF e
<1>4. PICK k \in Nat : k = Len(queue)
  BY <1>3
<1>5. /\ queue' \in Seq(Events) /\ DOMAIN queue' = 1 .. k + 1 /\ DOMAIN queue = 1 .. k
      /\ queue'[k + 1] = e /\ \A i \in 1 .. k : queue'[i] = queue[i]
  BY <1>2, <1>3, <1>4
<1>6. 1 .. k + 1 = (1 .. k) \cup {k + 1}
  OBVIOUS
<1>7. Queued' = Queued \cup {e}
  BY <1>5, <1>6 DEF Queued
<1>8. Sent' = Sent /\ Written' = Written
  BY <1>3 DEF Sent, Written
<1>9. e \notin Queued /\ e \notin Sent /\ e \notin Written /\ e \notin lost
  BY <1>2 DEF TrackInv, EventsPlaced
<1>10. Distinct(queue)'
  <2>1. \A i \in DOMAIN queue : queue[i] # e
    BY <1>9 DEF Queued
  <2> QED
    BY <1>5, <1>6, <2>1 DEF Distinct, TrackInv, EventsPlaced
<1>11. EventsPlaced'
  <2>1. Queued' \cup Sent' \cup Written' \cup lost' = 1 .. made'
    BY <1>2, <1>3, <1>7, <1>8 DEF TrackInv, EventsPlaced
  <2>2. /\ Queued' \cap Sent' = {} /\ Queued' \cap Written' = {} /\ Queued' \cap lost' = {}
        /\ Sent' \cap Written' = {} /\ Sent' \cap lost' = {} /\ Written' \cap lost' = {}
    BY <1>3, <1>7, <1>8, <1>9 DEF TrackInv, EventsPlaced
  <2>3. \A m, n \in wire' : m # n => m.events \cap n.events = {}
    BY <1>3 DEF TrackInv, EventsPlaced
  <2> QED
    BY <1>10, <2>1, <2>2, <2>3 DEF EventsPlaced
<1>12. wide' \subseteq Events
  <2>1. wide' = wide \/ wide' = wide \cup {e}
    BY DEF Enqueue, e
  <2> QED
    BY <1>2, <2>1 DEF TrackInv, TrackingTypeOK
<1> QED
  BY <1>2, <1>3, <1>5, <1>11, <1>12 DEF TrackInv, TrackingTypeOK

\* The page is dropped with what is in its queue.
LEMMA ClosePlaces ==
  ASSUME TrackInv, Close
  PROVE  TrackInv'
<1>1. /\ lost' = lost \cup Queued /\ queue' = <<>> /\ page' = "closed" /\ timer' = FALSE
      /\ UNCHANGED <<made, wide, wire, stored>>
  BY DEF Close, Queued, Elements
<1>2. Sent' = Sent /\ Written' = Written /\ Queued' = {} /\ Distinct(queue)'
  BY <1>1 DEF Sent, Written, Queued, Distinct
<1>3. Queued \subseteq Events
  BY DEF Queued, TrackInv, TrackingTypeOK
<1>4. EventsPlaced'
  <2>1. /\ Queued' \cup Sent' \cup Written' \cup lost' = 1 .. made'
        /\ Queued' \cap Sent' = {} /\ Queued' \cap Written' = {} /\ Queued' \cap lost' = {}
        /\ Sent' \cap Written' = {} /\ Sent' \cap lost' = {} /\ Written' \cap lost' = {}
    BY <1>1, <1>2 DEF TrackInv, EventsPlaced
  <2> QED
    BY <1>1, <1>2, <2>1 DEF TrackInv, EventsPlaced
<1>5. <<>> \in Seq(Events)
  OBVIOUS
<1> QED
  BY <1>1, <1>3, <1>4, <1>5 DEF TrackInv, TrackingTypeOK

\* A request is answered or fails: what it carries is stored or lost.
LEMMA ReportPlaces ==
  ASSUME TrackInv, NEW m \in wire, ReportEvents(m) \/ ReportFails(m)
  PROVE  TrackInv'
<1>1. wire' = wire \ {m} /\ UNCHANGED <<made, wide, queue, timer, page>>
  BY DEF ReportEvents, ReportFails
<1>2. Queued' = Queued
  BY <1>1 DEF Queued
<1>3. m.events \subseteq Sent /\ m.events \subseteq Events
  BY DEF Sent, TrackInv, TrackingTypeOK
<1>4. \A n \in wire' : n.events \cap m.events = {}
  BY <1>1 DEF TrackInv, EventsPlaced
<1>5. Sent = Sent' \cup m.events
  BY <1>1 DEF Sent
<1>6. Sent' \cap m.events = {}
  BY <1>4 DEF Sent
<1>7. /\ Distinct(queue)' /\ wire' \subseteq wire
      /\ \A n, o \in wire' : n # o => n.events \cap o.events = {}
  BY <1>1 DEF TrackInv, EventsPlaced, Distinct
<1>8. /\ stored' \in [Events -> {0, 1}] /\ lost' \subseteq Events
      /\ \/ Written' = Written \cup m.events /\ lost' = lost
         \/ Written' = Written /\ lost' = lost \cup m.events
  <2>1. CASE stored' = [e \in Events |-> stored[e] + IF e \in m.events THEN 1 ELSE 0]
             /\ UNCHANGED lost
    <3>1. \A e \in m.events : stored[e] = 0
      BY <1>3 DEF TrackInv, EventsPlaced, Written
    <3>2. \A e \in Events : stored'[e] = IF e \in m.events THEN 1 ELSE stored[e]
      <4> SUFFICES ASSUME NEW e \in Events
                   PROVE  stored'[e] = IF e \in m.events THEN 1 ELSE stored[e]
        OBVIOUS
      <4>1. stored[e] \in {0, 1}
        BY DEF TrackInv
      <4> QED
        BY <2>1, <3>1, <4>1
    <3>3. stored' \in [Events -> {0, 1}]
      <4>1. stored' = [e \in Events |-> stored'[e]]
        BY <2>1
      <4>2. \A e \in Events : stored'[e] \in {0, 1}
        BY <3>2 DEF TrackInv
      <4> QED
        BY <4>1, <4>2
    <3>4. Written' = Written \cup m.events
      BY <1>3, <3>2 DEF Written
    <3> QED
      BY <2>1, <3>3, <3>4 DEF TrackInv, TrackingTypeOK
  <2>2. CASE lost' = lost \cup m.events /\ UNCHANGED stored
    BY <1>3, <2>2 DEF Written, TrackInv, TrackingTypeOK
  <2> QED
    BY <2>1, <2>2 DEF ReportEvents, ReportFails
<1>9. /\ Queued' \cup Sent' \cup Written' \cup lost' = 1 .. made'
      /\ Queued' \cap Sent' = {} /\ Queued' \cap Written' = {} /\ Queued' \cap lost' = {}
      /\ Sent' \cap Written' = {} /\ Sent' \cap lost' = {} /\ Written' \cap lost' = {}
  BY <1>1, <1>2, <1>5, <1>6, <1>8 DEF TrackInv, EventsPlaced
<1>10. EventsPlaced'
  BY <1>7, <1>9 DEF EventsPlaced
<1>11. stored' \in [Events -> Nat]
  <2>1. {0, 1} \subseteq Nat
    OBVIOUS
  <2> QED
    BY <1>8, <2>1
<1>12. TrackingTypeOK'
  BY <1>1, <1>7, <1>8, <1>11 DEF TrackInv, TrackingTypeOK
<1> QED
  BY <1>8, <1>10, <1>12 DEF TrackInv

\* Every step keeps every event in one place.
LEMMA TrackStep ==
  ASSUME TrackInv, [Next]_vars
  PROVE  TrackInv'
<1>1. CASE UNCHANGED trackingVars
  <2>1. UNCHANGED <<made, wide, queue, timer, page, wire, stored, lost>>
    BY <1>1 DEF trackingVars
  <2>2. Queued' = Queued /\ Sent' = Sent /\ Written' = Written
    BY <2>1 DEF Queued, Sent, Written
  <2> QED
    BY <2>1, <2>2 DEF TrackInv, TrackingTypeOK, EventsPlaced, Distinct
<1>2. ASSUME Flush, UNCHANGED <<made, wide, stored, lost>>, timer' \in BOOLEAN,
             page' \in {"open", "away"}
      PROVE  TrackInv'
  <2>1. UNCHANGED <<made, stored, lost>>
    BY <1>2
  <2>2. /\ EventsPlaced' /\ queue' \in Seq(Events)
        /\ wire' \subseteq [route : {"beacon", "fetch"}, events : SUBSET Events]
    BY <1>2, <2>1, FlushPlaces
  <2> QED
    BY <1>2, <2>2 DEF TrackInv, TrackingTypeOK
<1>3. CASE Usage
  <2>1. ASSUME NEW cut \in BOOLEAN, Enqueue(cut)
        PROVE  TrackInv'
    BY <2>1, EnqueuePlaces
  <2>2. timer \in BOOLEAN /\ (timer \/ Rest # <<>>) \in BOOLEAN
    BY DEF TrackInv, TrackingTypeOK
  <2>3. CASE Hide
    BY <1>2, <2>2, <2>3 DEF Hide
  <2>4. CASE PageHide
    BY <1>2, <2>2, <2>4 DEF PageHide
  <2>5. CASE PageShow
    <3>1. UNCHANGED <<made, wide, queue, timer, wire, stored, lost>> /\ page' = "open"
      BY <2>5 DEF PageShow
    <3>2. Queued' = Queued /\ Sent' = Sent /\ Written' = Written
      BY <3>1 DEF Queued, Sent, Written
    <3> QED
      BY <3>1, <3>2 DEF TrackInv, TrackingTypeOK, EventsPlaced, Distinct
  <2>6. CASE Close
    BY <2>6, ClosePlaces
  <2> QED
    BY <1>3, <2>1, <2>3, <2>4, <2>5, <2>6 DEF Usage, TrackingStep
<1>4. CASE Flushes
  <2>1. (Rest # <<>>) \in BOOLEAN
    OBVIOUS
  <2> QED
    BY <1>2, <1>4, <2>1 DEF Flushes, TimerFires, Rescheduled
<1>5. CASE Reports
  BY <1>5, ReportPlaces DEF Reports, Report
<1> QED
  BY <1>1, <1>3, <1>4, <1>5, Writers

\* At first there are no events.
LEMMA TrackAtFirst == Init => TrackInv
<1> SUFFICES ASSUME Init PROVE TrackInv
  OBVIOUS
<1>1. /\ made = 0 /\ wide = {} /\ queue = <<>> /\ timer = FALSE /\ page = "open"
      /\ wire = {} /\ stored = [e \in Events |-> 0] /\ lost = {}
  BY DEF Init, TrackingInit
<1>2. Queued = {} /\ Sent = {} /\ Written = {} /\ 1 .. made = {} /\ Distinct(queue)
  BY <1>1 DEF Queued, Sent, Written, Distinct
<1>3. <<>> \in Seq(Events) /\ MaxEvents \in Nat /\ 0 \in 0 .. MaxEvents
  BY TrackingAssumption
<1> QED
  BY <1>1, <1>2, <1>3 DEF TrackInv, TrackingTypeOK, EventsPlaced

\* Every event is in one place in every reachable state.
LEMMA TrackInvariant == Spec => []TrackInv
BY TrackAtFirst, TrackStep, PTL DEF Spec

\* However timer, hiding and leaving overlap and whatever fails: an event is in the queue,
\* under way, stored or lost, in one place only, and never stored twice.
THEOREM EventsAreStoredOnce == Spec => []EventsOnce
<1>1. TrackInv => EventsOnce
  <2> SUFFICES ASSUME TrackInv, NEW e \in 1 .. made
               PROVE  Cardinality({m \in wire : e \in m.events}) + stored[e]
                        + (IF e \in lost THEN 1 ELSE 0)
                        + Cardinality({i \in DOMAIN queue : queue[i] = e}) = 1
    BY DEF EventsOnce
  <2> DEFINE places == {m \in wire : e \in m.events}
             spots  == {i \in DOMAIN queue : queue[i] = e}
  <2>1. e \in Events
    <3>1. made \in 0 .. MaxEvents /\ MaxEvents \in Nat
      BY TrackingAssumption DEF TrackInv, TrackingTypeOK
    <3>2. 1 .. made \subseteq 1 .. MaxEvents
      BY <3>1
    <3> QED
      BY <3>2 DEF Events
  <2>2. Cardinality(places) = IF e \in Sent THEN 1 ELSE 0
    <3>1. CASE e \notin Sent
      <4>1. places = {}
        BY <3>1 DEF Sent
      <4> QED
        BY <3>1, <4>1, FS_EmptySet
    <3>2. CASE e \in Sent
      <4>1. PICK m \in wire : e \in m.events
        BY <3>2 DEF Sent
      <4>2. places = {m}
        BY <4>1 DEF TrackInv, EventsPlaced
      <4> QED
        BY <3>2, <4>2, FS_Singleton
    <3> QED
      BY <3>1, <3>2
  <2>3. Cardinality(spots) = IF e \in Queued THEN 1 ELSE 0
    <3>1. CASE e \notin Queued
      <4>1. spots = {}
        BY <3>1 DEF Queued
      <4> QED
        BY <3>1, <4>1, FS_EmptySet
    <3>2. CASE e \in Queued
      <4>1. PICK i \in DOMAIN queue : queue[i] = e
        BY <3>2 DEF Queued
      <4>2. spots = {i}
        BY <4>1 DEF TrackInv, EventsPlaced, Distinct
      <4> QED
        BY <3>2, <4>2, FS_Singleton
    <3> QED
      BY <3>1, <3>2
  <2>4. stored[e] = IF e \in Written THEN 1 ELSE 0
    BY <2>1 DEF Written, TrackInv
  <2>5. /\ e \in Queued \/ e \in Sent \/ e \in Written \/ e \in lost
        /\ ~(e \in Queued /\ e \in Sent) /\ ~(e \in Queued /\ e \in Written)
        /\ ~(e \in Queued /\ e \in lost) /\ ~(e \in Sent /\ e \in Written)
        /\ ~(e \in Sent /\ e \in lost) /\ ~(e \in Written /\ e \in lost)
    BY DEF TrackInv, EventsPlaced
  <2>6. PICK a, b, c : a = Cardinality(places) /\ b = stored[e] /\ c = Cardinality(spots)
    OBVIOUS
  <2>7. a + b + (IF e \in lost THEN 1 ELSE 0) + c = 1
    <3> HIDE DEF places, spots
    <3> QED
      BY <2>2, <2>3, <2>4, <2>5, <2>6
  <2> QED
    BY Zenon, <2>6, <2>7
<1> QED
  BY <1>1, TrackInvariant, PTL

-----------------------------------------------------------------------------
(* Members are told. *)

\* Who is to be told is not done.
ToldPlanned == \A r \in Replicas : \A u \in sync[r].told : u \in Ids /\ sync[r].goal[u] # None

RiseInv == RisesAnnounced /\ ToldPlanned /\ silent \subseteq Ids

\* Nothing that announced a rise is taken back.
LEMMA StillAnnounced ==
  ASSUME MembersInv, RisesAnnounced, InboxTypeOK, [Next]_vars,
         silent \subseteq silent',
         NEW u \in Registered, u \in Registered', users'[u].tier = users[u].tier,
         \A r \in Replicas : u \in sync[r].told =>
           u \in sync'[r].told \/ u \in silent' \/ inbox'[u] # <<>>
  PROVE  Raised(users'[u]) =>
           inbox'[u] # <<>> \/ u \in silent' \/ \E r \in Replicas : u \in sync'[r].told
<1> SUFFICES ASSUME Raised(users'[u])
             PROVE  inbox'[u] # <<>> \/ u \in silent' \/ \E r \in Replicas : u \in sync'[r].told
  OBVIOUS
<1>1. inbox[u] # <<>> \/ u \in silent \/ \E r \in Replicas : u \in sync[r].told
  BY DEF RisesAnnounced, Raised
<1>2. CASE inbox[u] # <<>>
  <2>1. u \in Ids
    BY DEF Registered, Joined
  <2>2. /\ inbox[u] \in Seq(BOOLEAN) /\ inbox'[u] \in Seq(BOOLEAN)
        /\ Len(inbox'[u]) >= Len(inbox[u])
    BY <2>1, InboxGrows DEF InboxTypeOK
  <2> QED
    BY <1>2, <2>2
<1>3. CASE u \in silent
  BY <1>3
<1>4. CASE \E r \in Replicas : u \in sync[r].told
  BY <1>4
<1> QED
  BY <1>1, <1>2, <1>3, <1>4

\* What a run plans changes, and nobody is to be told, as long as it has raised nobody.
LEMMA EarlyTells ==
  ASSUME LevelInv, ToldPlanned, NEW r \in Replicas, NEW run,
         sync' = [sync EXCEPT ![r] = run], run.told = {}, sync[r].told = {}
  PROVE  ToldPlanned' /\ \A q \in Replicas : sync'[q].told = sync[q].told
<1>1. \A q \in Replicas : sync'[q] = IF q = r THEN run ELSE sync[q]
  BY DEF LevelInv, SyncTypeOK
<1> QED
  BY <1>1 DEF ToldPlanned

\* A run that begins tells nobody; the others are the same but for their company.
LEMMA BeginTells ==
  ASSUME LevelInv, ToldPlanned, NEW r \in Replicas, SyncBegin(r)
  PROVE  ToldPlanned' /\ \A q \in Replicas : sync'[q].told = sync[q].told
<1> DEFINE others == {q \in Replicas \ {r} : sync[q].at # "idle"}
           mine == [NoRun EXCEPT !.at = "count", !.tiers = enabled, !.shared = others # {}]
<1>1. /\ \A q \in Replicas : sync'[q] =
           IF q = r THEN mine
           ELSE IF q \in others THEN [sync[q] EXCEPT !.shared = TRUE] ELSE sync[q]
  BY DEF SyncBegin
<1>2. mine.told = {}
  BY DEF NoRun
<1>3. \A q \in Replicas : /\ [sync[q] EXCEPT !.shared = TRUE].told = sync[q].told
                          /\ [sync[q] EXCEPT !.shared = TRUE].goal = sync[q].goal
  BY AnyRun DEF Run
<1>4. sync[r].told = {}
  BY DEF SyncBegin, LevelInv
<1> HIDE DEF mine
<1>5. \A q \in Replicas : sync'[q].told = sync[q].told /\ (q # r => sync'[q].goal = sync[q].goal)
  BY <1>1, <1>2, <1>3, <1>4
<1> QED
  BY <1>4, <1>5 DEF ToldPlanned

\* An inbox with a message delivered is not empty.
LEMMA Grows ==
  ASSUME NEW s \in Seq(BOOLEAN)
  PROVE  Append(s, FALSE) # <<>>
<1>1. Append(s, FALSE)[Len(s) + 1] = FALSE /\ DOMAIN Append(s, FALSE) = 1 .. Len(s) + 1
      /\ Len(s) \in Nat
  OBVIOUS
<1>2. Len(s) + 1 \in 1 .. Len(s) + 1
  BY <1>1
<1>3. DOMAIN <<>> = {}
  OBVIOUS
<1> QED
  BY Zenon, <1>1, <1>2, <1>3

\* A user is raised, told, or given up.
LEMMA UserTells ==
  ASSUME LevelInv, InboxTypeOK, ToldPlanned, NEW r \in Replicas, NEW u \in Ids,
         Raise(r, u) \/ Notify(r, u) \/ UserFails(r, u)
  PROVE  /\ ToldPlanned'
         /\ \A q \in Replicas : \A v \in sync[q].told :
              v \in sync'[q].told \/ v \in silent' \/ inbox'[v] # <<>>
<1>1. sync[r] \in Run /\ sync \in [Replicas -> Run]
  BY AnyRun DEF LevelInv, SyncTypeOK
<1>2. CASE Raise(r, u)
  <2> DEFINE run == [sync[r] EXCEPT !.told = @ \cup {u}]
  <2>1. sync' = [sync EXCEPT ![r] = run] /\ sync[r].goal[u] # None
    BY <1>2 DEF Raise
  <2>2. run.told = sync[r].told \cup {u} /\ run.goal = sync[r].goal
    BY <1>1 DEF Run
  <2> HIDE DEF run
  <2>3. \A q \in Replicas : sync'[q] = IF q = r THEN run ELSE sync[q]
    BY <1>1, <2>1
  <2> QED
    BY <2>1, <2>2, <2>3 DEF ToldPlanned
<1>3. CASE Notify(r, u) \/ UserFails(r, u)
  <2> DEFINE goal == [sync[r].goal EXCEPT ![u] = None]
             run == [sync[r] EXCEPT !.told = @ \ {u}, !.goal = goal]
  <2>1. sync' = [sync EXCEPT ![r] = run]
    BY <1>1, <1>3 DEF Run, Notify, UserFails
  <2>2. \A v \in Ids \ {u} : goal[v] = sync[r].goal[v]
    BY <1>1 DEF Run
  <2> HIDE DEF goal
  <2>3. run.told = sync[r].told \ {u} /\ run.goal = goal
    BY <1>1 DEF Run
  <2> HIDE DEF run
  <2>4. \A q \in Replicas : sync'[q] = IF q = r THEN run ELSE sync[q]
    BY <1>1, <2>1
  <2>5. ToldPlanned'
    BY <2>2, <2>3, <2>4 DEF ToldPlanned
  <2>6. u \in sync[r].told => u \in silent' \/ inbox'[u] # <<>>
    <3>1. CASE Notify(r, u)
      <4>1. inbox' = [inbox EXCEPT ![u] = Append(inbox[u], FALSE)] /\ inbox[u] \in Seq(BOOLEAN)
        BY <3>1 DEF Notify, Deliver, InboxTypeOK
      <4>2. Append(inbox[u], FALSE) # <<>>
        <5>1. PICK s : s = inbox[u]
          OBVIOUS
        <5>2. s \in Seq(BOOLEAN)
          BY <4>1, <5>1
        <5>4. Append(s, FALSE) # <<>>
          BY <5>2, Grows
        <5> QED
          BY <5>1, <5>4
      <4> QED
        BY <4>1, <4>2 DEF InboxTypeOK
    <3>2. CASE UserFails(r, u)
      BY <3>2 DEF UserFails
    <3> QED
      BY <1>3, <3>1, <3>2
  <2> QED
    BY <2>3, <2>4, <2>5, <2>6
<1> QED
  BY <1>2, <1>3

\* A step of the job: who was to be told still is, has been told, or the run failed before it told him.
LEMMA JobTells ==
  ASSUME RegInv, LevelInv, InboxTypeOK, ToldPlanned, NEW r \in Replicas,
         SyncStep(r) \/ SyncFault(r)
  PROVE  /\ ToldPlanned'
         /\ \A q \in Replicas : \A v \in sync[q].told :
              v \in sync'[q].told \/ v \in silent' \/ inbox'[v] # <<>>
<1>1. sync[r] \in Run
  BY AnyRun
<1>2. CASE SyncBegin(r)
  BY <1>2, BeginTells
<1>3. CASE CountInvitees(r)
  <2> DEFINE invites == [u1 \in Ids |-> Cardinality(Invitees(u1))]
             run == [sync[r] EXCEPT !.at = "sum", !.invites = invites]
  <2>1. sync' = [sync EXCEPT ![r] = run] /\ sync[r].told = {}
    BY <1>3 DEF CountInvitees, LevelInv
  <2> HIDE DEF invites
  <2>2. run.told = sync[r].told
    BY <1>1 DEF Run
  <2> HIDE DEF run
  <2> QED
    BY <2>1, <2>2, EarlyTells
<1>4. CASE SumPaid(r)
  <2> DEFINE goal == [u1 \in Ids |->
               BestTier(sync[r].tiers, sync[r].invites[u1], InviteesPaid(u1))]
             run == [sync[r] EXCEPT !.at = "list", !.tiers = {}, !.invites = NoRun.invites,
                                    !.goal = goal]
  <2>1. sync' = [sync EXCEPT ![r] = run] /\ sync[r].told = {}
    BY <1>4 DEF SumPaid, LevelInv
  <2> HIDE DEF goal
  <2>2. run.told = sync[r].told
    BY <1>1 DEF Run
  <2> HIDE DEF run
  <2> QED
    BY <2>1, <2>2, EarlyTells
<1>5. CASE ListUsers(r)
  <2> DEFINE goal == [u1 \in Ids |->
               IF u1 \in Registered /\ sync[r].goal[u1] # None /\ Above(sync[r].goal[u1], u1)
               THEN sync[r].goal[u1] ELSE None]
             run == [sync[r] EXCEPT !.at = "users", !.goal = goal]
  <2>1. sync' = [sync EXCEPT ![r] = run] /\ sync[r].told = {}
    BY <1>5 DEF ListUsers, LevelInv
  <2> HIDE DEF goal
  <2>2. run.told = sync[r].told
    BY <1>1 DEF Run
  <2> HIDE DEF run
  <2> QED
    BY <2>1, <2>2, EarlyTells
<1>6. CASE SyncEnds(r)
  <2>1. sync' = [sync EXCEPT ![r] = NoRun] /\ sync[r].told = {}
    BY <1>6 DEF SyncEnds, ToldPlanned
  <2> QED
    BY <2>1, EarlyTells, NoRunType
<1>7. CASE SyncFails(r)
  <2>1. sync' = [sync EXCEPT ![r] = NoRun] /\ sync[r].told \subseteq silent'
    BY <1>7 DEF SyncFails
  <2>2. \A q \in Replicas : sync'[q] = IF q = r THEN NoRun ELSE sync[q]
    BY <2>1 DEF LevelInv, SyncTypeOK
  <2> QED
    BY <2>1, <2>2, NoRunType DEF ToldPlanned
<1>8. ASSUME NEW u \in Ids, Raise(r, u) \/ Notify(r, u) \/ UserFails(r, u)
      PROVE  /\ ToldPlanned'
             /\ \A q \in Replicas : \A v \in sync[q].told :
                  v \in sync'[q].told \/ v \in silent' \/ inbox'[v] # <<>>
  BY <1>1, <1>8, UserTells
<1> QED
  BY <1>2, <1>3, <1>4, <1>5, <1>6, <1>7, <1>8 DEF SyncStep, SyncFault

\* It is never forgotten who has not been told.
LEMMA SilentGrows ==
  ASSUME ToldPlanned, silent \subseteq Ids, [Next]_vars
  PROVE  silent \subseteq silent' /\ silent' \subseteq Ids
<1>1. UNCHANGED silent \/ \E r \in Replicas : SyncStep(r) \/ SyncFault(r)
  <2>1. CASE Registrations
    BY <2>1 DEF Registrations, syncVars
  <2>2. CASE Market
    BY <2>2 DEF Market, CompleteOrder, EditTiers
  <2>3. CASE Reads \/ Profiles
    BY <2>3 DEF Reads, Profiles, syncVars
  <2>4. CASE Shop \/ Learn \/ LookUp \/ SearchLiterature \/ Usage \/ Flushes \/ Reports
    BY <2>4 DEF Shop, Learn, LookUp, SearchLiterature, Usage, Flushes, Reports, memberVars, syncVars
  <2>5. CASE UNCHANGED vars
    BY <2>5 DEF vars
  <2> QED
    BY <2>1, <2>2, <2>3, <2>4, <2>5, Zenon DEF Next, JobStep, JobFault
<1>2. ASSUME NEW r \in Replicas, SyncStep(r)
      PROVE  UNCHANGED silent
  BY Zenon, <1>2 DEF SyncStep, SyncBegin, CountInvitees, SumPaid, ListUsers, SyncEnds, Raise, Notify
<1>3. ASSUME NEW r \in Replicas, SyncFault(r)
      PROVE  silent' \subseteq silent \cup sync[r].told /\ silent \subseteq silent'
  BY <1>3 DEF SyncFault, SyncFails, UserFails
<1>4. \A r \in Replicas : sync[r].told \subseteq Ids
  BY DEF ToldPlanned
<1> QED
  BY <1>1, <1>2, <1>3, <1>4

\* Who is registered starts with a tier of registration.
LEMMA NewcomersStart ==
  ASSUME MembersInv, Registrations, NEW u \in Registered'
  PROVE  \/ u \in Registered /\ users'[u] = users[u]
         \/ ~Raised(users'[u])
<1>1. UNCHANGED users \/ \E h \in Handlers : Create(h)
  BY Zenon DEF Registrations, RegisterStep, RegisterBegin, ResolveInvite, AssignDomain,
               NoDomain, CreateRefused, GrantCoupon, RegisterEnds, RegisterFails
<1>2. CASE UNCHANGED users
  BY <1>2 DEF Registered, Joined
<1>3. CASE \E h \in Handlers : Create(h)
  <2>1. PICK h \in Handlers : Create(h)
    BY <1>3
  <2>2. PICK v : v = register[h].id
    OBVIOUS
  <2>3. users' = [users EXCEPT ![v] = NewUser(register[h])]
    BY <2>1, <2>2 DEF Create
  <2>4. users \in [Ids -> User \cup {None}]
    BY DEF MembersInv, RegInv, RegistrationInv, RegistrationTypeOK
  <2>5. CASE u # v
    BY <2>3, <2>4, <2>5 DEF Registered, Joined
  <2>6. CASE u = v
    <3>1. u \in Ids /\ users'[u] = NewUser(register[h])
      BY <2>3, <2>4, <2>6 DEF Registered, Joined
    <3>2. NewUser(register[h]).tier \in {DefaultTier, FirstTier}
      BY DEF NewUser, VipConfigOf
    <3>3. \A t \in {DefaultTier, FirstTier} : ~(Rank[t] > Rank[t])
      BY TierAssumption, RegistrationAssumption
    <3> QED
      BY <3>1, <3>2, <3>3 DEF Raised
  <2> QED
    BY <2>5, <2>6
<1> QED
  BY Zenon, <1>1, <1>2, <1>3

\* A step of the job changes the level of one whom it is going to tell, if any.
LEMMA RaisedAreTold ==
  ASSUME MembersInv, NEW r \in Replicas, SyncStep(r) \/ SyncFault(r), NEW u \in Registered'
  PROVE  /\ u \in Registered
         /\ users'[u].tier = users[u].tier \/ u \in sync'[r].told
<1>1. UNCHANGED users \/ \E v \in Ids : Raise(r, v)
  BY Zenon DEF SyncStep, SyncFault, SyncBegin, CountInvitees, SumPaid, ListUsers, SyncEnds,
               Notify, UserFails, SyncFails
<1>2. CASE UNCHANGED users
  BY <1>2 DEF Registered, Joined
<1>3. ASSUME NEW v \in Ids, Raise(r, v)
      PROVE  /\ u \in Registered
             /\ users'[u].tier = users[u].tier \/ u \in sync'[r].told
  <2>1. LevelInv /\ users \in [Ids -> User \cup {None}] /\ sync \in [Replicas -> Run]
    BY DEF MembersInv, RegInv, RegistrationInv, RegistrationTypeOK, LevelInv, SyncTypeOK
  <2>2. v \in Registered
    BY <1>3, <2>1 DEF Raise, LevelInv
  <2>3. \A w \in Ids : w # v => users'[w] = users[w]
    BY <1>3, <2>1 DEF Raise, UpdateVipConfigID
  <2>4. v \in sync'[r].told
    <3> DEFINE run == [sync[r] EXCEPT !.told = @ \cup {v}]
    <3>1. run.told = sync[r].told \cup {v} /\ sync' = [sync EXCEPT ![r] = run]
      BY <1>3, <2>1 DEF Raise, Run
    <3> HIDE DEF run
    <3> QED
      BY <2>1, <3>1
  <2> QED
    BY <2>2, <2>3, <2>4 DEF Registered, Joined
<1> QED
  BY Zenon, <1>1, <1>2, <1>3

\* Every step keeps whoever was raised told or about to be.
LEMMA RiseStep ==
  ASSUME MembersInv, RiseInv, InboxTypeOK, [Next]_vars
  PROVE  RiseInv'
<1> DEFINE Announced(u) == Raised(users'[u]) =>
             inbox'[u] # <<>> \/ u \in silent' \/ \E r \in Replicas : u \in sync'[r].told
<1>0. /\ silent \subseteq silent' /\ silent' \subseteq Ids
      /\ RisesAnnounced /\ ToldPlanned
  BY SilentGrows DEF RiseInv
<1>1. ASSUME UNCHANGED sync
      PROVE  ToldPlanned'
  BY <1>0, <1>1 DEF ToldPlanned
<1>2. ASSUME NEW u \in Registered, u \in Registered', users'[u].tier = users[u].tier,
             UNCHANGED sync
      PROVE  Announced(u)
  BY <1>0, <1>2, StillAnnounced
<1>3. CASE Registrations
  <2>1. UNCHANGED sync
    BY <1>3 DEF Registrations, syncVars
  <2>2. ASSUME NEW u \in Registered'
        PROVE  Announced(u)
    <3>1. CASE u \in Registered /\ users'[u] = users[u]
      BY <1>2, <2>1, <2>2, <3>1
    <3>2. CASE ~Raised(users'[u])
      BY <3>2
    <3> QED
      BY <1>3, <3>1, <3>2, NewcomersStart
  <2> QED
    BY <1>0, <1>1, <2>1, <2>2 DEF RiseInv, RisesAnnounced, Raised
<1>4. ASSUME NEW r \in Replicas, SyncStep(r) \/ SyncFault(r)
      PROVE  RiseInv'
  <2>1. /\ ToldPlanned'
        /\ \A q \in Replicas : \A v \in sync[q].told :
             v \in sync'[q].told \/ v \in silent' \/ inbox'[v] # <<>>
    BY <1>0, <1>4, JobTells DEF MembersInv
  <2>2. ASSUME NEW u \in Registered'
        PROVE  Announced(u)
    <3>1. u \in Registered /\ (users'[u].tier = users[u].tier \/ u \in sync'[r].told)
      BY <1>4, RaisedAreTold
    <3>2. CASE users'[u].tier = users[u].tier
      BY <1>0, <2>1, <2>2, <3>1, <3>2, StillAnnounced
    <3> QED
      BY <3>1, <3>2
  <2> QED
    BY <1>0, <2>1, <2>2 DEF RiseInv, RisesAnnounced, Raised
<1>5. CASE UNCHANGED <<users, sync>>
  <2>1. Registered' = Registered
    BY <1>5 DEF Registered
  <2>2. ASSUME NEW u \in Registered'
        PROVE  Announced(u)
    BY <1>2, <1>5, <2>1, <2>2
  <2> QED
    BY <1>0, <1>1, <1>5, <2>2 DEF RiseInv, RisesAnnounced, Raised
<1>6. Market \/ Reads \/ Profiles \/ UNCHANGED vars => UNCHANGED <<users, sync>>
  BY DEF Market, CompleteOrder, EditTiers, Reads, Profiles, vars, registrationVars, syncVars
<1>7. Shop \/ Learn \/ LookUp \/ SearchLiterature \/ Usage \/ Flushes \/ Reports
      => UNCHANGED <<users, sync>>
  BY DEF Shop, Learn, LookUp, SearchLiterature, Usage, Flushes, Reports, memberVars,
         registrationVars, syncVars
<1> HIDE DEF Announced
<1> QED
  BY <1>3, <1>4, <1>5, <1>6, <1>7 DEF Next, JobStep, JobFault

\* At first nobody has been raised.
LEMMA RiseAtFirst == Init => RiseInv
<1> SUFFICES ASSUME Init PROVE RiseInv
  OBVIOUS
<1>1. PICK day \in Days : users = day.members /\ sync = [r \in Replicas |-> NoRun]
                           /\ silent = {}
  BY DEF Init, RegistrationInit, SyncInit
<1>2. \A u \in Registered : ~Raised(users[u])
  BY <1>1, DaysAssumption DEF Registered
<1> QED
  BY <1>1, <1>2, NoRunType DEF RiseInv, RisesAnnounced, ToldPlanned

\* The invariant of the rises holds in every reachable state.
LEMMA RiseInvariant == Spec => []RiseInv
<1>1. RiseInv /\ MembersInv /\ (ListsInv /\ InboxTypeOK) /\ [Next]_vars => RiseInv'
  BY RiseStep
<1> QED
  BY <1>1, RiseAtFirst, MembersInvariant, ListsInvariant, PTL DEF Spec

\* Whoever has been raised above the tiers of registration has a message, or the run that
\* raised him is about to write it, or the very run that was to tell him failed; whatever
\* else fails or runs beside it.
THEOREM RisesAreAnnounced == Spec => []RisesAnnounced
<1>1. RiseInv => RisesAnnounced
  BY DEF RiseInv
<1> QED
  BY <1>1, RiseInvariant, PTL

-----------------------------------------------------------------------------
(* The catalogue. *)

\* While the products are still to be read, what was on display is of the categories read;
\* what has been shown is true.
Visiting(t) ==
  /\ t.at = "products" => \A g \in t.there : g[2] \in t.categories
  /\ t.missed = {}
  /\ t.link # "none" /\ t.link \in DOMAIN SkuToSlug =>
       t.page = (IF t.sold THEN t.link ELSE "none")
  /\ t.link # "none" /\ t.link \notin DOMAIN SkuToSlug => t.page = "none"

VisitInv == CatalogueTypeOK /\ \A v \in Visitors : Visiting(visits[v])

\* Every slug of a SKU leads back to it.
LEMMA SlugsLeadBack ==
  \A p \in DOMAIN SkuToSlug :
    SkuToSlug[p] \in DOMAIN SlugToSku /\ SlugToSku[SkuToSlug[p]] = p
BY ZenonT(40) DEF SkuToSlug, SlugToSku

\* One visitor's visit is another one, in order.
LEMMA VisitChanged ==
  ASSUME VisitInv, NEW v \in Visitors, NEW t \in Sight, Visiting(t),
         visits' = [visits EXCEPT ![v] = t], UNCHANGED <<active, goods>>
  PROVE  VisitInv'
<1>1. visits' \in [Visitors -> Sight] /\ \A w \in Visitors : Visiting(visits'[w])
  BY DEF VisitInv, CatalogueTypeOK
<1> QED
  BY <1>1 DEF VisitInv, CatalogueTypeOK, Visiting

\* What is on display is on sale, in an active category.
LEMMA Displayed ==
  ASSUME CatalogueTypeOK, NEW filter \in Categories \cup {0}
  PROVE  /\ OnSale(filter) \subseteq Products
         /\ OnDisplay(filter) \subseteq Products \X Categories
         /\ \A g \in OnDisplay(filter) : g[2] \in active
         /\ \A g \in OnDisplay(filter) : g[1] \in OnSale(filter) /\ goods[g[1]].category = g[2]
<1>1. OnSale(filter) \subseteq Products
  BY DEF OnSale
<1>2. active \subseteq Categories
  BY DEF CatalogueTypeOK
<1>3. \A g \in OnDisplay(filter) :
        \E p \in OnSale(filter) : goods[p].category \in active /\ g = <<p, goods[p].category>>
  BY DEF OnDisplay
<1> QED
  BY <1>1, <1>2, <1>3

\* A visit begins with nothing missed and no link followed.
LEMMA OpenKeeps ==
  ASSUME VisitInv, NEW v \in Visitors, NEW menu \in BOOLEAN, NEW filter \in Categories \cup {0},
         OpenCatalogue(v, menu, filter)
  PROVE  VisitInv'
<1> DEFINE t == [NoVisit EXCEPT !.at = "products", !.menu = menu, !.filter = filter,
                                !.categories = active, !.there = OnDisplay(filter)]
<1>1. CatalogueTypeOK
  BY DEF VisitInv
<1>2. t \in Sight /\ Visiting(t)
  <2> DEFINE t1 == [NoVisit EXCEPT !.at = "products"]
             t2 == [t1 EXCEPT !.menu = menu]
             t3 == [t2 EXCEPT !.filter = filter]
             t4 == [t3 EXCEPT !.categories = active]
             t5 == [t4 EXCEPT !.there = OnDisplay(filter)]
  <2>1. t = t5
    OBVIOUS
  <2>2. PICK there : there = OnDisplay(filter)
    OBVIOUS
  <2>3. active \subseteq Categories /\ there \subseteq Products \X Categories
        /\ \A g \in there : g[2] \in active
    BY <1>1, <2>2, Displayed DEF CatalogueTypeOK
  <2>4. NoVisit \in Sight /\ NoVisit.missed = {} /\ NoVisit.link = "none"
    BY DEF NoVisit, Sight
  <2>5. t1 \in Sight /\ t2 \in Sight /\ t3 \in Sight /\ t4 \in Sight /\ t5 \in Sight
    BY <2>2, <2>3, <2>4 DEF Sight
  <2>6. t5.there = there /\ t5.categories = active /\ t5.missed = {} /\ t5.link = "none"
    BY <2>2, <2>4 DEF Sight
  <2> HIDE DEF t, t5
  <2> QED
    BY <2>1, <2>3, <2>5, <2>6 DEF Visiting
<1>3. visits' = [visits EXCEPT ![v] = t] /\ UNCHANGED <<active, goods>>
  BY DEF OpenCatalogue
<1> HIDE DEF t
<1> QED
  BY <1>2, <1>3, VisitChanged

\* What is on display at both reads is shown.
LEMMA ProductsKeep ==
  ASSUME VisitInv, NEW v \in Visitors, ListProducts(v)
  PROVE  VisitInv'
<1>1. CatalogueTypeOK /\ visits[v] \in Sight /\ Visiting(visits[v])
  BY DEF VisitInv, CatalogueTypeOK
<1>2. PICK t : t = visits[v]
  OBVIOUS
<1>3. PICK here : here = OnDisplay(t.filter)
  OBVIOUS
<1>4. PICK sale : sale = OnSale(t.filter)
  OBVIOUS
<1> DEFINE shown == Shelved(t.categories, sale)
           missed == {g[1] : g \in t.there \cap here} \ shown
<1>5. t \in Sight /\ Visiting(t) /\ t.at = "products"
  BY <1>1, <1>2 DEF ListProducts
<1>6. shown \subseteq Products
  BY <1>1, <1>4, <1>5, Displayed DEF Shelved, Sight
<1>7. missed = {}
  <2>1. ASSUME NEW g \in t.there \cap here
        PROVE  g[1] \in shown
    <3>1. g[2] \in t.categories
      BY <1>5, <2>1 DEF Visiting
    <3>2. g[1] \in sale /\ goods[g[1]].category = g[2]
      BY <1>1, <1>3, <1>4, <1>5, <2>1, Displayed DEF Sight
    <3> QED
      BY <3>1, <3>2 DEF Shelved
  <2> HIDE DEF shown
  <2> QED
    BY <2>1
<1>8. visits' = [visits EXCEPT ![v].at = "shown", ![v].shown = shown, ![v].missed = missed]
      /\ UNCHANGED <<active, goods>>
  BY <1>2, <1>3, <1>4 DEF ListProducts, Columns
<1>9. PICK s : s = shown
  OBVIOUS
<1> DEFINE t1 == [t EXCEPT !.at = "shown"]
           t2 == [t1 EXCEPT !.shown = s]
           t3 == [t2 EXCEPT !.missed = {}]
<1>10. visits' = [visits EXCEPT ![v] = t3]
  BY <1>1, <1>2, <1>7, <1>8, <1>9 DEF VisitInv, CatalogueTypeOK
<1>11. t3 \in Sight /\ Visiting(t3)
  <2>1. t1 \in Sight /\ t2 \in Sight /\ t3 \in Sight
    BY <1>5, <1>6, <1>9 DEF Sight
  <2>2. t3.at = "shown" /\ t3.missed = {} /\ t3.link = t.link /\ t3.page = t.page
        /\ t3.sold = t.sold
    BY <1>5 DEF Sight
  <2> HIDE DEF t3
  <2> QED
    BY <1>5, <2>1, <2>2 DEF Visiting
<1> HIDE DEF shown, missed, t3
<1> QED
  BY <1>8, <1>10, <1>11, VisitChanged

\* The page that a link to a product leads to.
LEMMA PageOf ==
  ASSUME CatalogueTypeOK, NEW p \in Products
  PROVE  /\ p \in DOMAIN SkuToSlug =>
              Detail(Href(p)) = (IF goods[p].onSale THEN p ELSE "none")
         /\ p \notin DOMAIN SkuToSlug => Detail(Href(p)) = "none"
<1>1. p \in OnSale(0) <=> goods[p].onSale
  BY DEF OnSale
<1>2. CASE p \in DOMAIN SkuToSlug
  BY <1>1, <1>2, SlugsLeadBack DEF Detail, Href
<1>3. CASE p \notin DOMAIN SkuToSlug
  <2>1. p \notin DOMAIN SlugToSku
    BY CatalogueAssumption
  <2> QED
    BY <1>3, <2>1 DEF Detail, Href
<1> QED
  BY <1>2, <1>3

\* A link leads back to its product.
LEMMA DetailKeeps ==
  ASSUME VisitInv, NEW v \in Visitors, NEW p \in Products, DetailBySlug(v, p)
  PROVE  VisitInv'
<1>1. CatalogueTypeOK /\ visits \in [Visitors -> Sight] /\ goods[p].onSale \in BOOLEAN
  BY DEF VisitInv, CatalogueTypeOK, Good
<1>2. PICK t : t = visits[v]
  OBVIOUS
<1>3. PICK dest : dest = Detail(Href(p))
  OBVIOUS
<1>4. PICK sold \in BOOLEAN : sold = goods[p].onSale
  BY <1>1
<1>5. t \in Sight /\ Visiting(t) /\ t.at = "shown"
  BY <1>1, <1>2 DEF VisitInv, DetailBySlug
<1>6. dest \in Products \cup {"none"}
  BY <1>1, <1>3, PageOf
<1> DEFINE t1 == [t EXCEPT !.link = p]
           t2 == [t1 EXCEPT !.page = dest]
           t3 == [t2 EXCEPT !.sold = sold]
<1>7. visits' = [visits EXCEPT ![v] = t3] /\ UNCHANGED <<active, goods>>
  BY <1>1, <1>2, <1>3, <1>4 DEF DetailBySlug
<1>8. t3 \in Sight /\ Visiting(t3)
  <2>1. t1 \in Sight /\ t2 \in Sight /\ t3 \in Sight
    BY <1>5, <1>6 DEF Sight
  <2>2. t3.at = "shown" /\ t3.missed = t.missed /\ t3.link = p /\ t3.page = dest
        /\ t3.sold = sold
    BY <1>5 DEF Sight
  <2>3. /\ p \in DOMAIN SkuToSlug => dest = (IF sold THEN p ELSE "none")
        /\ p \notin DOMAIN SkuToSlug => dest = "none"
    BY <1>1, <1>3, <1>4, PageOf
  <2> HIDE DEF t3
  <2> QED
    BY <1>5, <2>1, <2>2, <2>3 DEF Visiting
<1> HIDE DEF t3
<1> QED
  BY <1>7, <1>8, VisitChanged

\* An edit changes no visit; what was read before it may be out of date.
LEMMA ShelfKeeps ==
  ASSUME VisitInv, EditShelf
  PROVE  VisitInv'
<1>1. active \subseteq Categories /\ goods \in [Products -> Good]
  BY DEF VisitInv, CatalogueTypeOK
<1>2. active' \subseteq Categories
  BY <1>1 DEF EditShelf
<1>3. goods' \in [Products -> Good]
  <2>1. CASE \E p \in Products, c \in Categories \cup {0} : goods' = [goods EXCEPT ![p].category = c]
    BY <1>1, <2>1 DEF Good
  <2>2. ASSUME NEW p \in Products, goods' = [goods EXCEPT ![p].onSale = ~@]
        PROVE  goods' \in [Products -> Good]
    <3>1. PICK f \in BOOLEAN : f = ~goods[p].onSale
      OBVIOUS
    <3>2. [goods[p] EXCEPT !.onSale = f] \in Good
      BY <1>1 DEF Good
    <3>3. goods' = [goods EXCEPT ![p] = [goods[p] EXCEPT !.onSale = f]]
      BY <1>1, <2>2, <3>1
    <3> QED
      BY <1>1, <3>2, <3>3
  <2> QED
    BY <1>1, <2>1, <2>2 DEF EditShelf
<1>4. UNCHANGED visits
  BY DEF EditShelf
<1> QED
  BY <1>2, <1>3, <1>4 DEF VisitInv, CatalogueTypeOK, Visiting

\* Every step keeps visits true.
LEMMA VisitStepKeeps ==
  ASSUME VisitInv, [Next]_vars
  PROVE  VisitInv'
<1>1. CASE Shop
  <2>1. CASE \E v \in Visitors : VisitBegin(v)
    BY <2>1, OpenKeeps DEF VisitBegin
  <2>2. CASE \E v \in Visitors : VisitStep(v)
    BY <2>2, ProductsKeep, DetailKeeps DEF VisitStep
  <2>3. CASE EditShelf
    BY <2>3, ShelfKeeps
  <2> QED
    BY <1>1, <2>1, <2>2, <2>3 DEF Shop
<1>2. CASE UNCHANGED catalogueVars
  BY <1>2 DEF catalogueVars, VisitInv, CatalogueTypeOK, Visiting
<1> QED
  BY <1>1, <1>2, Writers

\* At first there are no visits.
LEMMA VisitsAtFirst == Init => VisitInv
<1> SUFFICES ASSUME Init PROVE VisitInv
  OBVIOUS
<1>1. CatalogueInit
  BY DEF Init
<1>2. NoVisit \in Sight /\ Visiting(NoVisit)
  BY DEF NoVisit, Sight, Visiting
<1>3. goods \in [Products -> Good]
  BY <1>1, CatalogueAssumption DEF CatalogueInit, Good
<1> QED
  BY <1>1, <1>2, <1>3 DEF CatalogueInit, VisitInv, CatalogueTypeOK

\* What a visitor has asked for is shown to him, and links lead where they say.
THEOREM VisitsAreTrue == Spec => [](CatalogueTypeOK /\ CatalogueTrue)
<1>1. VisitInv => CatalogueTypeOK /\ CatalogueTrue
  BY DEF VisitInv, CatalogueTrue, Visiting
<1> QED
  BY <1>1, VisitsAtFirst, VisitStepKeeps, PTL DEF Spec

-----------------------------------------------------------------------------
(* The tutorials. *)

\* While the articles are still to be read, the names of what was there are of the topics
\* read; what is listed is true.
Learning(t) ==
  /\ t.at = "articles" => \A g \in t.there : g[2] \in t.topics \cup {0}
  /\ t.missed = {}
  /\ t.filter # 0 => \A g \in t.listed : g[2] \in {0, t.filter}

LessonInv == TutorialsTypeOK /\ \A r \in TutorialReaders : Learning(tutorials[r])

\* One reader's change keeps lessons true if his own is.
LEMMA LessonChanged ==
  ASSUME LessonInv, NEW r \in TutorialReaders, NEW t \in Lesson, Learning(t),
         tutorials' = [tutorials EXCEPT ![r] = t], UNCHANGED <<topics, articles>>
  PROVE  LessonInv'
<1>1. /\ tutorials' \in [TutorialReaders -> Lesson]
      /\ \A w \in TutorialReaders : Learning(tutorials'[w])
  BY DEF LessonInv, TutorialsTypeOK
<1> QED
  BY <1>1 DEF LessonInv, TutorialsTypeOK, Learning

\* An article listed by the topics of a read.
LEMMA Listed ==
  ASSUME TutorialsTypeOK, NEW filter \in Topics \cup {0}, NEW read \in SUBSET Topics,
         NEW listed, listed = {Named(a, read) : a \in ListPublished(filter)}
  PROVE  /\ listed \subseteq Articles \X (Topics \cup {0})
         /\ \A g \in listed : g[2] \in read \cup {0}
         /\ \A g \in listed : g[1] \in ListPublished(filter) /\ g = Named(g[1], read)
         /\ filter # 0 => \A g \in listed : g[2] \in {0, filter}
<1>1. \A a \in ListPublished(filter) :
        a \in Articles /\ (filter # 0 => articles[a].topic = filter)
  BY DEF ListPublished
<1>2. \A a \in Articles : /\ Named(a, read)[1] = a /\ Named(a, read)[2] \in read \cup {0}
                          /\ Named(a, read)[2] \in {0, articles[a].topic}
                          /\ Named(a, read) \in Articles \X (Topics \cup {0})
  BY DEF Named
<1>3. \A g \in listed : \E a \in ListPublished(filter) : g = Named(a, read)
  OBVIOUS
<1> QED
  BY <1>1, <1>2, <1>3

\* A lesson begins with nothing missed.
LEMMA TopicsKeep ==
  ASSUME LessonInv, NEW r \in TutorialReaders, NEW filter \in Topics \cup {0},
         ListTopics(r, filter)
  PROVE  LessonInv'
<1>1. TutorialsTypeOK /\ topics \in SUBSET Topics
  BY DEF LessonInv, TutorialsTypeOK
<1>2. PICK there : there = Present(filter)
  OBVIOUS
<1>3. /\ there \subseteq Articles \X (Topics \cup {0})
      /\ \A g \in there : g[2] \in topics \cup {0}
  BY <1>1, <1>2, Listed DEF Present
<1> DEFINE t1 == [NoLesson EXCEPT !.at = "articles"]
           t2 == [t1 EXCEPT !.filter = filter]
           t3 == [t2 EXCEPT !.topics = topics]
           t4 == [t3 EXCEPT !.there = there]
<1>4. tutorials' = [tutorials EXCEPT ![r] = t4] /\ UNCHANGED <<topics, articles>>
  BY <1>2 DEF ListTopics
<1>5. t4 \in Lesson /\ Learning(t4)
  <2>1. NoLesson \in Lesson /\ NoLesson.missed = {} /\ NoLesson.listed = {}
    BY DEF NoLesson, Lesson
  <2>2. t1 \in Lesson /\ t2 \in Lesson /\ t3 \in Lesson /\ t4 \in Lesson
    BY <1>1, <1>3, <2>1 DEF Lesson
  <2>3. t4.there = there /\ t4.topics = topics /\ t4.missed = {} /\ t4.listed = {}
    BY <2>1 DEF Lesson
  <2> HIDE DEF t4
  <2> QED
    BY <1>3, <2>2, <2>3 DEF Learning
<1> HIDE DEF t4
<1> QED
  BY <1>4, <1>5, LessonChanged

\* What would be listed at both reads is listed, whatever the topics read before.
LEMMA ArticlesKeep ==
  ASSUME LessonInv, NEW r \in TutorialReaders, ListArticles(r)
  PROVE  LessonInv'
<1>1. TutorialsTypeOK /\ tutorials \in [TutorialReaders -> Lesson]
  BY DEF LessonInv, TutorialsTypeOK
<1> DEFINE t == tutorials[r]
           rows == {Named(a, t.topics) : a \in ListPublished(t.filter)}
<1>2. tutorials' = [tutorials EXCEPT ![r].at = "listed", ![r].listed = rows,
                      ![r].missed = Missed(t.there \cap Present(t.filter), rows)]
      /\ UNCHANGED <<topics, articles>>
  BY DEF ListArticles
<1>3. t \in Lesson /\ Learning(t) /\ t.at = "articles"
  BY <1>1 DEF LessonInv, ListArticles
<1>4. PICK filter \in Topics \cup {0} : filter = t.filter
  BY <1>3 DEF Lesson
<1>5. PICK read \in SUBSET Topics : read = t.topics
  BY <1>3 DEF Lesson
<1>6. PICK listed : listed = rows /\ listed = {Named(a, read) : a \in ListPublished(filter)}
  BY <1>4, <1>5
<1>7. PICK there : there = Present(t.filter) /\ there = Present(filter)
  BY <1>4
<1> HIDE DEF rows, t
<1> DEFINE t1 == [t EXCEPT !.at = "listed"]
           t2 == [t1 EXCEPT !.listed = listed]
           t3 == [t2 EXCEPT !.missed = {}]
<1>8. ASSUME NEW g \in t.there \cap there
      PROVE  \E h \in listed : h[1] = g[1] /\ g[2] \in {0, h[2]}
  <2>1. g[1] \in ListPublished(filter) /\ g = Named(g[1], topics)
    <3>1. there = {Named(a, topics) : a \in ListPublished(filter)} /\ topics \in SUBSET Topics
      BY <1>1, <1>7 DEF Present, TutorialsTypeOK
    <3>2. g \in {Named(a, topics) : a \in ListPublished(filter)}
      BY <1>8, <3>1
    <3>3. PICK a \in ListPublished(filter) : g = Named(a, topics)
      BY <3>2
    <3>4. g[1] = a
      BY <3>3 DEF Named
    <3> QED
      BY <3>3, <3>4
  <2>2. g[2] \in read \cup {0}
    BY <1>3, <1>5 DEF Learning
  <2>3. g[2] = 0 \/ g[2] = articles[g[1]].topic
    BY <2>1 DEF Named
  <2> DEFINE h == Named(g[1], read)
  <2>4. h \in listed /\ h[1] = g[1]
    BY <1>6, <2>1 DEF Named
  <2>5. g[2] \in {0, h[2]}
    BY <2>2, <2>3 DEF Named
  <2> QED
    BY <2>4, <2>5
<1>9. tutorials' = [tutorials EXCEPT ![r].at = "listed", ![r].listed = listed,
                      ![r].missed = Missed(t.there \cap there, listed)]
  BY <1>2, <1>6, <1>7
<1>10. tutorials' = [tutorials EXCEPT ![r] = t3]
  <2>1. Missed(t.there \cap there, listed) = {}
    BY <1>8 DEF Missed
  <2> QED
    BY <1>1, <1>9, <2>1 DEF t
<1>11. t3 \in Lesson /\ Learning(t3)
  <2>1. /\ listed \subseteq Articles \X (Topics \cup {0})
        /\ filter # 0 => \A g \in listed : g[2] \in {0, filter}
    BY <1>1, <1>6, Listed
  <2>2. t1 \in Lesson /\ t2 \in Lesson /\ t3 \in Lesson
    BY <1>3, <2>1 DEF Lesson
  <2>3. t3.at = "listed" /\ t3.missed = {} /\ t3.listed = listed /\ t3.filter = filter
    BY <1>3, <1>4 DEF Lesson
  <2> HIDE DEF t3
  <2> QED
    BY <2>1, <2>2, <2>3 DEF Learning
<1> HIDE DEF t3
<1> QED
  BY <1>2, <1>10, <1>11, LessonChanged

\* Opening an article misses nothing.
LEMMA ArticleKeeps ==
  ASSUME LessonInv, NEW r \in TutorialReaders, NEW a \in Articles, FindArticle(r, a)
  PROVE  LessonInv'
<1>1. TutorialsTypeOK /\ tutorials \in [TutorialReaders -> Lesson] /\ articles[a] \in Article
  BY DEF LessonInv, TutorialsTypeOK
<1>2. PICK t : t = tutorials[r]
  OBVIOUS
<1>3. t \in Lesson /\ Learning(t)
  BY <1>1, <1>2 DEF LessonInv
<1>4. PICK at \in {"topic", "listed"} : at = IF articles[a].published THEN "topic" ELSE "listed"
  OBVIOUS
<1>5. PICK topic \in Topics : topic = articles[a].topic
  BY <1>1 DEF Article
<1> DEFINE t1 == [t EXCEPT !.at = at]
           t2 == [t1 EXCEPT !.topic = topic]
<1>6. tutorials' = [tutorials EXCEPT ![r] = t2] /\ UNCHANGED <<topics, articles>>
  BY <1>1, <1>2, <1>4, <1>5 DEF FindArticle
<1>7. t2 \in Lesson /\ Learning(t2)
  <2>1. t1 \in Lesson /\ t2 \in Lesson
    BY <1>3 DEF Lesson
  <2>2. t2.at # "articles" /\ t2.missed = t.missed /\ t2.filter = t.filter
        /\ t2.listed = t.listed
    BY <1>3 DEF Lesson
  <2> HIDE DEF t2
  <2> QED
    BY <1>3, <2>1, <2>2 DEF Learning
<1> HIDE DEF t2
<1> QED
  BY <1>6, <1>7, LessonChanged

\* Nor does looking up its topic.
LEMMA TopicKeeps ==
  ASSUME LessonInv, NEW r \in TutorialReaders, GetTopic(r)
  PROVE  LessonInv'
<1>1. tutorials[r] \in Lesson /\ Learning(tutorials[r])
  BY DEF LessonInv, TutorialsTypeOK
<1> DEFINE t == [tutorials[r] EXCEPT !.at = "open"]
<1>2. t \in Lesson /\ Learning(t)
  BY <1>1 DEF Lesson, Learning
<1>3. tutorials' = [tutorials EXCEPT ![r] = t] /\ UNCHANGED <<topics, articles>>
  BY DEF GetTopic
<1> HIDE DEF t
<1> QED
  BY <1>2, <1>3, LessonChanged

\* Every step keeps lessons true.
LEMMA LessonStepKeeps ==
  ASSUME LessonInv, [Next]_vars
  PROVE  LessonInv'
<1>1. CASE Learn
  <2>1. CASE \E r \in TutorialReaders, k \in Topics \cup {0} : ListTopics(r, k)
    BY <2>1, TopicsKeep
  <2>2. CASE \E r \in TutorialReaders : LessonStep(r)
    BY <2>2, ArticlesKeep, ArticleKeeps, TopicKeeps DEF LessonStep
  <2>3. CASE EditTutorials
    <3>1. topics \subseteq Topics /\ articles \in [Articles -> Article]
      BY DEF LessonInv, TutorialsTypeOK
    <3>2. topics' \subseteq Topics /\ articles' \in [Articles -> Article] /\ UNCHANGED tutorials
      BY <2>3, <3>1 DEF EditTutorials, Article
    <3> QED
      BY <3>2 DEF LessonInv, TutorialsTypeOK, Learning
  <2> QED
    BY <1>1, <2>1, <2>2, <2>3 DEF Learn
<1>2. CASE UNCHANGED tutorialVars
  BY <1>2 DEF tutorialVars, LessonInv, TutorialsTypeOK, Learning
<1> QED
  BY <1>1, <1>2, Writers

\* At first there are no lessons.
LEMMA LessonsAtFirst == Init => LessonInv
<1> SUFFICES ASSUME Init PROVE LessonInv
  OBVIOUS
<1>1. TutorialsInit
  BY DEF Init
<1>2. NoLesson \in Lesson /\ Learning(NoLesson)
  BY DEF NoLesson, Lesson, Learning
<1>3. articles \in [Articles -> Article]
  BY <1>1, TutorialsAssumption DEF TutorialsInit, Article
<1> QED
  BY <1>1, <1>2, <1>3 DEF TutorialsInit, LessonInv, TutorialsTypeOK

\* No article is missing from a page of tutorials, and none is under a wrong topic.
THEOREM LessonsAreTrue == Spec => [](TutorialsTypeOK /\ TutorialsTrue)
<1>1. LessonInv => TutorialsTypeOK /\ TutorialsTrue
  BY DEF LessonInv, TutorialsTrue, Learning
<1> QED
  BY <1>1, LessonsAtFirst, LessonStepKeeps, PTL DEF Spec

-----------------------------------------------------------------------------
(* Companies' invoice data. *)

\* Who waits for the second provider has done with the first.
SecondIsLast == \A k \in Lookups : lookups[k].at = "mgtv" => lookups[k].unasked \subseteq {"mgtv"}

LookupInv == LookupTypeOK /\ LookupHonest /\ SecondIsLast

\* One enquiry's change keeps look-ups honest if its own answer is.
LEMMA LookupChanged ==
  ASSUME LookupInv, NEW k \in Lookups, NEW t \in Enquiry, lookups' = [lookups EXCEPT ![k] = t],
         t.at = "answered" =>
           /\ {t.match} \cup t.candidates = (IF t.rows = <<>> THEN {"none"} ELSE RowSet(t.rows))
           /\ t.match \notin t.candidates
           /\ \A c \in t.candidates : Closeness[t.match] <= Closeness[c]
           /\ t.rows = <<>> => t.unasked = {},
         t.at = "mgtv" => t.unasked \subseteq {"mgtv"}
  PROVE  LookupInv'
<1>1. lookups' \in [Lookups -> Enquiry]
      /\ \A j \in Lookups : lookups'[j] = IF j = k THEN t ELSE lookups[j]
  BY DEF LookupInv, LookupTypeOK
<1> QED
  BY <1>1 DEF LookupInv, LookupTypeOK, LookupHonest, SecondIsLast, RowSet

\* The minimum of a set of numbers is one of them, and none is less.
LEMMA LeastOf ==
  ASSUME NEW S \in SUBSET Nat, S # {}
  PROVE  Min(S) \in S /\ \A n \in S : Min(S) <= n
<1>1. \E n \in S : \A m \in S : n <= m
  BY LeastNatural
<1> QED
  BY <1>1 DEF Min

\* The match is one of the rows, and none of them is closer to the keyword.
LEMMA BestIsClosest ==
  ASSUME NEW rows \in Seq(Companies), rows # <<>>
  PROVE  /\ PickBestMatch(rows) \in RowSet(rows)
         /\ \A c \in RowSet(rows) : Closeness[PickBestMatch(rows)] <= Closeness[c]
<1>1. DOMAIN rows = 1 .. Len(rows) /\ Len(rows) \in Nat /\ Len(rows) # 0
      /\ \A i \in DOMAIN rows : rows[i] \in Companies
  BY EmptySeq
<1>2. RowSet(rows) \subseteq Companies /\ rows[1] \in RowSet(rows)
  BY <1>1 DEF RowSet
<1>3. \A c \in Companies : Closeness[c] \in Nat
  BY InvoiceLookupAssumption
<1>4. PICK all : all = {Closeness[c] : c \in RowSet(rows)}
  OBVIOUS
<1>5. all \in SUBSET Nat /\ all # {}
  BY <1>2, <1>3, <1>4
<1>6. PICK closest : closest = Min(all)
  OBVIOUS
<1>7. closest \in all /\ \A c \in RowSet(rows) : closest <= Closeness[c]
  BY <1>4, <1>5, <1>6, LeastOf
<1>8. PICK first : first = {i \in DOMAIN rows : Closeness[rows[i]] = closest}
  OBVIOUS
<1>9. first \in SUBSET Nat /\ first # {}
  BY <1>1, <1>4, <1>7, <1>8 DEF RowSet
<1>10. Min(first) \in first
  BY <1>9, LeastOf
<1>11. PickBestMatch(rows) = rows[Min(first)]
  BY <1>4, <1>6, <1>8 DEF PickBestMatch
<1> QED
  BY <1>7, <1>8, <1>10, <1>11 DEF RowSet

\* No enquiry is an enquiry without an answer.
LEMMA NoEnquiryType ==
  /\ NoEnquiry \in Enquiry /\ NoEnquiry.at = "idle" /\ NoEnquiry.match = "none"
  /\ NoEnquiry.candidates = {} /\ NoEnquiry.rows = <<>> /\ NoEnquiry.unasked = {}
<1>1. <<>> \in Seq(Companies)
  OBVIOUS
<1> QED
  BY <1>1 DEF NoEnquiry, Enquiry

\* An answer names every company found, the closest as the match.
LEMMA AnswerKeeps ==
  ASSUME LookupInv, NEW k \in Lookups, NEW rows \in Seq(Companies),
         NEW provider \in {"chengshu", "mgtv"}, Answer(k, provider, rows),
         rows = <<>> => Unasked(k, provider) = {}
  PROVE  LookupInv'
<1>0. Unasked(k, provider) \in SUBSET {"chengshu", "mgtv"}
  BY DEF LookupInv, LookupTypeOK, Enquiry, Unasked
<1>1. CASE rows = <<>>
  <2> DEFINE t == [NoEnquiry EXCEPT !.at = "answered", !.unasked = Unasked(k, provider)]
  <2>1. /\ t \in Enquiry /\ t.match = "none" /\ t.candidates = {} /\ t.rows = <<>>
        /\ t.at = "answered" /\ t.unasked = {}
    BY <1>0, <1>1, NoEnquiryType DEF Enquiry
  <2>2. lookups' = [lookups EXCEPT ![k] = t]
    BY <1>1 DEF Answer
  <2> HIDE DEF t
  <2> QED
    BY <2>1, <2>2, LookupChanged
<1>2. CASE rows # <<>>
  <2>1. PICK match : match = PickBestMatch(rows)
    OBVIOUS
  <2>2. /\ match \in RowSet(rows) /\ RowSet(rows) \subseteq Companies
        /\ \A c \in RowSet(rows) : Closeness[match] <= Closeness[c]
    BY <1>2, <2>1, BestIsClosest DEF RowSet
  <2> DEFINE t == [at |-> "answered", unasked |-> Unasked(k, provider), rows |-> rows,
                   match |-> match, candidates |-> RowSet(rows) \ {match}]
  <2>3. /\ t \in Enquiry /\ t.match = match /\ t.candidates = RowSet(rows) \ {match}
        /\ t.rows = rows /\ t.at = "answered"
    BY <1>0, <2>2 DEF Enquiry
  <2>4. lookups' = [lookups EXCEPT ![k] = t]
    BY <1>2, <2>1 DEF Answer, Candidates
  <2> HIDE DEF t
  <2> QED
    BY <1>2, <2>2, <2>3, <2>4, LookupChanged
<1> QED
  BY <1>1, <1>2

\* Every step keeps look-ups honest.
LEMMA LookupStepKeeps ==
  ASSUME LookupInv, [Next]_vars
  PROVE  LookupInv'
<1>1. lookups \in [Lookups -> Enquiry]
  BY DEF LookupInv, LookupTypeOK
<1>2. ASSUME NEW k \in Lookups, AskFirst(k)
      PROVE  LookupInv'
  <2>1. PICK keyed \in BOOLEAN : lookups' = [lookups EXCEPT ![k] =
          [NoEnquiry EXCEPT !.at = IF keyed THEN "chengshu" ELSE "mgtv",
                            !.unasked = {"mgtv"} \cup (IF keyed THEN {"chengshu"} ELSE {})]]
    BY <1>2 DEF AskFirst
  <2> DEFINE t == [NoEnquiry EXCEPT !.at = IF keyed THEN "chengshu" ELSE "mgtv",
                                    !.unasked = {"mgtv"} \cup (IF keyed THEN {"chengshu"} ELSE {})]
  <2>2. t \in Enquiry /\ t.at # "answered" /\ (t.at = "mgtv" => t.unasked \subseteq {"mgtv"})
    BY NoEnquiryType DEF Enquiry
  <2>3. lookups' = [lookups EXCEPT ![k] = t]
    BY <2>1
  <2> HIDE DEF t
  <2> QED
    BY <2>2, <2>3, LookupChanged
<1>3. ASSUME NEW k \in Lookups, LookupChengshu(k)
      PROVE  LookupInv'
  <2>1. CASE lookups' = [lookups EXCEPT ![k].at = "mgtv", ![k].unasked = Unasked(k, "chengshu")]
    <3> DEFINE t == [lookups[k] EXCEPT !.at = "mgtv", !.unasked = Unasked(k, "chengshu")]
    <3>1. t \in Enquiry /\ t.at = "mgtv" /\ t.unasked \subseteq {"mgtv"}
      BY <1>1 DEF Enquiry, Unasked
    <3>2. lookups' = [lookups EXCEPT ![k] = t]
      BY <1>1, <2>1
    <3> HIDE DEF t
    <3> QED
      BY <3>1, <3>2, LookupChanged
  <2>2. CASE \E c \in Companies : Answer(k, "chengshu", <<c>>)
    <3>1. PICK c \in Companies : Answer(k, "chengshu", <<c>>)
      BY <2>2
    <3>2. <<c>> \in Seq(Companies) /\ <<c>> # <<>>
      OBVIOUS
    <3> QED
      BY <3>1, <3>2, AnswerKeeps
  <2> QED
    BY <1>3, <2>1, <2>2 DEF LookupChengshu
<1>4. ASSUME NEW k \in Lookups, LookupMgtv(k)
      PROVE  LookupInv'
  <2>0. PICK n \in 0 .. MaxRows : \E rows \in [1 .. n -> Companies] : Answer(k, "mgtv", rows)
    BY <1>4 DEF LookupMgtv
  <2>1. PICK rows \in [1 .. n -> Companies] : Answer(k, "mgtv", rows)
    BY <2>0
  <2>2. rows \in Seq(Companies)
    BY InvoiceLookupAssumption
  <2>3. Unasked(k, "mgtv") = {}
    BY <1>4 DEF LookupMgtv, LookupInv, SecondIsLast, Unasked
  <2> QED
    BY <2>1, <2>2, <2>3, AnswerKeeps
<1>5. CASE UNCHANGED lookups
  BY <1>5 DEF LookupInv, LookupTypeOK, LookupHonest, SecondIsLast
<1> QED
  BY <1>2, <1>3, <1>4, <1>5, Writers DEF LookUp, LookupStep

\* No company that was found gets lost, none is closer to the keyword than the match, and
\* nothing is found only if every provider there is a key for had nothing or failed.
THEOREM LookupsAreHonest == Spec => [](LookupTypeOK /\ LookupHonest)
<1>1. Init => LookupInv
  BY NoEnquiryType DEF Init, LookupInit, LookupInv, LookupTypeOK, LookupHonest, SecondIsLast
<1> QED
  BY <1>1, LookupStepKeeps, PTL DEF Spec, LookupInv

-----------------------------------------------------------------------------
(* Papers. *)

\* What a loop over the entries of arXiv has after n of them.
Entry(g, rows, n) ==
  IF n = 0 THEN <<>>
  ELSE IF rows[n] \in Titled THEN Append(g[n - 1], ArxivPaper(rows[n]))
  ELSE g[n - 1]

Loop(g, rows) == g = [n \in 0 .. Len(rows) |-> Entry(g, rows, n)]

\* There is such a function: one for up to n entries is one for n + 1 after one more step.
LEMMA LoopExists ==
  ASSUME NEW rows \in Seq(Papers)
  PROVE  \E g : Loop(g, rows)
<1> DEFINE Collected(g, n) == \A m \in 0 .. Len(rows) : m <= n => g[m] = Entry(g, rows, m)
           Bad == {n \in Nat : \A g : ~Collected(g, n)}
<1>1. Len(rows) \in Nat
  OBVIOUS
<1>2. Bad = {}
  <2> SUFFICES ASSUME Bad # {} PROVE FALSE
    OBVIOUS
  <2>1. PICK n \in Bad : \A m \in Bad : n <= m
    <3>1. Bad \in SUBSET Nat
      OBVIOUS
    <3> HIDE DEF Bad
    <3> QED
      BY <3>1, LeastNatural
  <2>2. CASE n = 0
    <3> DEFINE g == [m \in 0 .. Len(rows) |-> <<>>]
    <3>1. Collected(g, 0)
      BY DEF Entry
    <3> QED
      BY <2>1, <2>2, <3>1
  <2>3. CASE n # 0
    <3>1. n - 1 \in Nat /\ n - 1 \notin Bad
      <4>1. n \in Nat /\ n - 1 \in Nat /\ ~(n <= n - 1)
        BY <2>1, <2>3
      <4> HIDE DEF Bad
      <4> QED
        BY <2>1, <4>1
    <3>2. PICK g : Collected(g, n - 1)
      BY <3>1
    <3> DEFINE h == [m \in 0 .. Len(rows) |-> Entry(g, rows, m)]
    <3>3. \A m \in 0 .. Len(rows) : m <= n - 1 => h[m] = g[m]
      BY <3>2
    <3>4. Collected(h, n)
      <4> SUFFICES ASSUME NEW m \in 0 .. Len(rows), m <= n
                   PROVE  h[m] = Entry(h, rows, m)
        OBVIOUS
      <4>1. h[m] = Entry(g, rows, m)
        OBVIOUS
      <4>2. m # 0 => m - 1 \in 0 .. Len(rows) /\ m - 1 <= n - 1
        BY <1>1, <2>1
      <4>3. m # 0 => h[m - 1] = g[m - 1]
        BY <3>3, <4>2
      <4> QED
        BY <4>1, <4>3 DEF Entry
    <3> QED
      BY <2>1, <3>4
  <2> QED
    BY <2>2, <2>3
<1>3. PICK g : Collected(g, Len(rows))
  BY <1>1, <1>2
<1> DEFINE h == [n \in 0 .. Len(rows) |-> g[n]]
<1>4. ASSUME NEW n \in 0 .. Len(rows)
      PROVE  h[n] = Entry(h, rows, n)
  <2>1. h[n] = Entry(g, rows, n)
    BY <1>1, <1>3
  <2>2. n # 0 => n - 1 \in 0 .. Len(rows)
    BY <1>1
  <2>3. n # 0 => h[n - 1] = g[n - 1]
    BY <2>2
  <2> QED
    BY <2>1, <2>3 DEF Entry
<1>5. Loop(h, rows)
  BY <1>4 DEF Loop
<1> QED
  BY <1>5

\* The hits are what the loop has collected after the last row.
LEMMA ArxivUnfolded ==
  ASSUME NEW rows \in Seq(Papers)
  PROVE  \E g : Loop(g, rows) /\ ArxivHits(rows) = g[Len(rows)]
<1>1. \E g : /\ ArxivHits(rows) = g[Len(rows)]
             /\ g = CHOOSE h : h = [n \in 0 .. Len(rows) |->
                      IF n = 0 THEN <<>>
                      ELSE IF rows[n] \in Titled THEN Append(h[n - 1], ArxivPaper(rows[n]))
                      ELSE h[n - 1]]
  BY DEF ArxivHits
<1> QED
  BY <1>1, LoopExists DEF Loop, Entry

\* The first n rows that have a title, and where each is among the hits.
Entitled(rows, n) == {i \in 1 .. n : rows[i] \in Titled}

Placed(hits, rows, n, place) ==
  /\ hits \in Seq({ArxivPaper(p) : p \in Titled})
  /\ place \in [Entitled(rows, n) -> 1 .. Len(hits)]
  /\ \A i \in Entitled(rows, n) : hits[place[i]] = ArxivPaper(rows[i])
  /\ \A i, j \in Entitled(rows, n) : i < j => place[i] < place[j]
  /\ \A k \in 1 .. Len(hits) : \E i \in Entitled(rows, n) : place[i] = k

\* A further row with a title has its place behind the others.
LEMMA EntryPlaced ==
  ASSUME NEW rows \in Seq(Papers), NEW n \in 1 .. Len(rows), NEW hits, NEW place,
         Placed(hits, rows, n - 1, place), rows[n] \in Titled
  PROVE  \E next : Placed(Append(hits, ArxivPaper(rows[n])), rows, n, next)
<1>1. PICK S : S = {ArxivPaper(p) : p \in Titled}
  OBVIOUS
<1>2. PICK a \in S : a = ArxivPaper(rows[n])
  BY <1>1
<1>3. hits \in Seq(S) /\ place \in [Entitled(rows, n - 1) -> 1 .. Len(hits)]
  BY <1>1 DEF Placed
<1>4. PICK m \in Nat : m = Len(hits)
  BY <1>3
<1>5. PICK longer : longer = Append(hits, a)
  OBVIOUS
<1>6. /\ longer \in Seq(S) /\ Len(longer) = m + 1 /\ longer[m + 1] = a
      /\ \A k \in 1 .. m : longer[k] = hits[k]
  BY <1>3, <1>4, <1>5
<1>7. /\ n \in Nat /\ n \in Entitled(rows, n)
      /\ \A i \in Entitled(rows, n) : i \in Nat /\ i <= n
      /\ \A i \in Entitled(rows, n) : i # n => i \in Entitled(rows, n - 1) /\ i < n
      /\ \A i \in Entitled(rows, n - 1) : i \in Entitled(rows, n) /\ i # n
  BY DEF Entitled
<1> DEFINE next == [i \in Entitled(rows, n) |-> IF i = n THEN m + 1 ELSE place[i]]
<1>8. \A i \in Entitled(rows, n) : i # n => next[i] = place[i] /\ next[i] \in 1 .. m
  BY <1>3, <1>4, <1>7
<1>9. next[n] = m + 1
  BY <1>7
<1>10. next \in [Entitled(rows, n) -> 1 .. m + 1]
  BY <1>4, <1>8, <1>9
<1> HIDE DEF next
<1>11. \A i \in Entitled(rows, n) : longer[next[i]] = ArxivPaper(rows[i])
  <2>1. TAKE i \in Entitled(rows, n)
  <2>2. CASE i = n
    BY <1>2, <1>6, <1>9, <2>2
  <2>3. CASE i # n
    BY <1>6, <1>7, <1>8, <2>3 DEF Placed
  <2> QED
    BY <2>2, <2>3
<1>12. \A i, j \in Entitled(rows, n) : i < j => next[i] < next[j]
  <2>1. SUFFICES ASSUME NEW i \in Entitled(rows, n), NEW j \in Entitled(rows, n), i < j
                 PROVE  next[i] < next[j]
    OBVIOUS
  <2>2. i # n
    BY <1>7, <2>1
  <2>3. CASE j = n
    BY <1>4, <1>8, <1>9, <2>2, <2>3
  <2>4. CASE j # n
    BY <1>7, <1>8, <2>1, <2>2, <2>4 DEF Placed
  <2> QED
    BY <2>3, <2>4
<1>13. ASSUME NEW k \in 1 .. m + 1
       PROVE  \E i \in Entitled(rows, n) : next[i] = k
  <2>1. CASE k = m + 1
    BY <1>7, <1>9, <2>1
  <2>2. CASE k # m + 1
    <3>1. k \in 1 .. Len(hits)
      BY <1>4, <2>2
    <3>2. PICK i \in Entitled(rows, n - 1) : place[i] = k
      BY <3>1 DEF Placed
    <3> QED
      BY <1>7, <1>8, <3>2
  <2> QED
    BY <2>1, <2>2
<1>14. Placed(longer, rows, n, next)
  BY <1>1, <1>6, <1>10, <1>11, <1>12, <1>13 DEF Placed
<1> QED
  BY <1>2, <1>5, <1>14

\* Every row with a title has its place among the hits, and every hit its row.
LEMMA ArxivPlaces ==
  ASSUME NEW rows \in Seq(Papers)
  PROVE  \E place : Placed(ArxivHits(rows), rows, Len(rows), place)
<1>1. PICK g : Loop(g, rows) /\ ArxivHits(rows) = g[Len(rows)]
  BY ArxivUnfolded
<1>2. Len(rows) \in Nat
  OBVIOUS
<1>3. \A n \in 0 .. Len(rows) : g[n] = Entry(g, rows, n)
  BY <1>1 DEF Loop
<1> DEFINE Fits(n) == \E place : Placed(g[n], rows, n, place)
           Bad == {n \in Nat : n <= Len(rows) /\ ~Fits(n)}
<1>4. Bad = {}
  <2> SUFFICES ASSUME Bad # {} PROVE FALSE
    OBVIOUS
  <2>1. PICK n \in Bad : \A m \in Bad : n <= m
    <3>1. Bad \in SUBSET Nat
      OBVIOUS
    <3> HIDE DEF Bad
    <3> QED
      BY <3>1, LeastNatural
  <2>2. n \in 0 .. Len(rows) /\ ~Fits(n) /\ g[n] = Entry(g, rows, n)
    BY <1>2, <1>3, <2>1
  <2>3. CASE n = 0
    <3>1. g[n] = <<>> /\ Entitled(rows, n) = {}
      BY <1>2, <2>2, <2>3 DEF Entry, Entitled
    <3> DEFINE place == [i \in {} |-> 0]
    <3>2. Placed(<<>>, rows, n, place)
      <4>1. place \in [Entitled(rows, n) -> 1 .. 0]
        BY <3>1
      <4>2. Len(<<>>) = 0 /\ \A S : <<>> \in Seq(S)
        OBVIOUS
      <4> HIDE DEF place
      <4> QED
        BY <3>1, <4>1, <4>2 DEF Placed
    <3> QED
      BY <2>2, <3>1, <3>2
  <2>4. CASE n # 0
    <3>1. n \in 1 .. Len(rows) /\ n - 1 \in Nat /\ n - 1 <= Len(rows) /\ ~(n <= n - 1)
      BY <1>2, <2>2, <2>4
    <3>2. Fits(n - 1)
      <4>1. n - 1 \notin Bad
        <5> HIDE DEF Bad
        <5> QED
          BY <2>1, <3>1
      <4> QED
        BY <3>1, <4>1
    <3>3. PICK place : Placed(g[n - 1], rows, n - 1, place)
      BY <3>2
    <3>4. CASE rows[n] \in Titled
      <4>1. g[n] = Append(g[n - 1], ArxivPaper(rows[n]))
        BY <2>2, <2>4, <3>4 DEF Entry
      <4> QED
        BY <2>2, <3>1, <3>3, <3>4, <4>1, EntryPlaced
    <3>5. CASE rows[n] \notin Titled
      <4>1. g[n] = g[n - 1]
        BY <2>2, <2>4, <3>5 DEF Entry
      <4>2. Entitled(rows, n) = Entitled(rows, n - 1)
        BY <3>1, <3>5 DEF Entitled
      <4>3. Placed(g[n], rows, n, place)
        BY Zenon, <3>3, <4>1, <4>2 DEF Placed
      <4> QED
        BY <2>2, <4>3
    <3> QED
      BY <3>4, <3>5
  <2> QED
    BY <2>3, <2>4
<1> QED
  BY <1>1, <1>2, <1>4

\* What of a search's answer is a paper's.
PapersOf(hits) == [i \in DOMAIN hits |-> hits[i].paper]

\* The papers of arXiv's hits are the rows with a title, in their order.
LEMMA ArxivTitles ==
  ASSUME NEW rows \in Seq(Papers)
  PROVE  /\ SameTitles(rows, PapersOf(ArxivHits(rows)))
         /\ \A h \in ToSet(ArxivHits(rows)) : \E p \in ToSet(rows) : h = ArxivPaper(p)
<1>1. PICK hits : hits = ArxivHits(rows)
  OBVIOUS
<1>2. PICK place : Placed(hits, rows, Len(rows), place)
  BY <1>1, ArxivPlaces
<1>3. DOMAIN rows = 1 .. Len(rows) /\ WithTitle(rows) = Entitled(rows, Len(rows))
  BY DEF WithTitle, Entitled
<1>4. PICK papers : papers = PapersOf(hits)
  OBVIOUS
<1>5. DOMAIN hits = 1 .. Len(hits)
  BY <1>2 DEF Placed
<1>6. \A p : ArxivPaper(p).paper = p
  BY DEF ArxivPaper, Hit
<1>7. \A k \in 1 .. Len(hits) :
        \E i \in WithTitle(rows) : place[i] = k /\ hits[k] = ArxivPaper(rows[i])
  BY <1>2, <1>3 DEF Placed
<1>8. DOMAIN papers = 1 .. Len(hits) /\ \A k \in 1 .. Len(hits) : papers[k] = hits[k].paper
  BY <1>4, <1>5 DEF PapersOf
<1>9. WithTitle(papers) = 1 .. Len(hits)
  BY <1>6, <1>7, <1>8 DEF WithTitle
<1>10. place \in [WithTitle(rows) -> WithTitle(papers)]
  BY <1>2, <1>3, <1>9 DEF Placed
<1>11. \A i \in WithTitle(rows) : papers[place[i]] = rows[i]
  <2>1. TAKE i \in WithTitle(rows)
  <2>2. place[i] \in 1 .. Len(hits) /\ hits[place[i]] = ArxivPaper(rows[i])
    BY <1>2, <1>3 DEF Placed
  <2> QED
    BY <1>6, <1>8, <2>2
<1>12. \A i, j \in WithTitle(rows) : i < j => place[i] < place[j]
  BY <1>2, <1>3 DEF Placed
<1>13. WithTitle(papers) = {place[i] : i \in WithTitle(rows)}
  BY <1>7, <1>9, <1>10
<1>14. SameTitles(rows, papers)
  BY <1>10, <1>11, <1>12, <1>13 DEF SameTitles
<1>15. \A h \in ToSet(hits) : \E p \in ToSet(rows) : h = ArxivPaper(p)
  BY <1>5, <1>7 DEF ToSet, WithTitle
<1> QED
  BY <1>1, <1>4, <1>14, <1>15

\* The other two pass on what they get.
LEMMA PassedOn ==
  ASSUME NEW rows \in Seq(Papers), NEW hits,
         DOMAIN hits = DOMAIN rows, \A i \in DOMAIN rows : hits[i].paper = rows[i]
  PROVE  SameTitles(rows, PapersOf(hits))
<1>2. PICK papers : papers = PapersOf(hits)
  OBVIOUS
<1>3. DOMAIN papers = DOMAIN rows /\ \A i \in DOMAIN rows : papers[i] = rows[i]
  BY <1>2 DEF PapersOf
<1>4. WithTitle(papers) = WithTitle(rows) /\ WithTitle(rows) \subseteq DOMAIN rows
  BY <1>3 DEF WithTitle
<1> DEFINE place == [i \in WithTitle(rows) |-> i]
<1>5. /\ place \in [WithTitle(rows) -> WithTitle(papers)]
      /\ \A i \in WithTitle(rows) : papers[place[i]] = rows[i]
      /\ \A i, j \in WithTitle(rows) : i < j => place[i] < place[j]
      /\ WithTitle(papers) = {place[i] : i \in WithTitle(rows)}
  BY <1>3, <1>4
<1>6. SameTitles(rows, papers)
  BY <1>5 DEF SameTitles
<1> QED
  BY <1>2, <1>6

\* Two papers with one key are one, or of one archive.
LEMMA ArxivKeys ==
  ASSUME NEW p \in Papers, NEW q \in Papers, ArxivPaper(p).key = ArxivPaper(q).key
  PROVE  p = q \/ OldKin(p, q)
<1> DEFINE id(x) == IF ArxivId[x].archive # "" THEN ArxivId[x].archive ELSE ArxivId[x].number
<1>1. \A x : ArxivPaper(x).key[2] = id(x)
  BY DEF ArxivPaper, Hit
<1>2. id(p) = id(q)
  <2> HIDE DEF id
  <2> QED
    BY <1>1
<1>3. CASE ArxivId[p].archive # "" /\ ArxivId[q].archive # ""
  BY <1>2, <1>3 DEF OldKin
<1>4. CASE ArxivId[p].archive = "" /\ ArxivId[q].archive = ""
  <2>1. /\ ArxivId[p] \in [archive : STRING, number : STRING]
        /\ ArxivId[q] \in [archive : STRING, number : STRING]
    BY LiteratureAssumption
  <2>2. ArxivId[p].number = ArxivId[q].number /\ ArxivId[p].archive = ArxivId[q].archive
    BY <1>2, <1>4
  <2>3. ArxivId[p] = ArxivId[q]
    BY <2>1, <2>2
  <2> QED
    BY <2>3, LiteratureAssumption
<1>5. CASE (ArxivId[p].archive = "") # (ArxivId[q].archive = "")
  BY <1>2, <1>5, LiteratureAssumption
<1> QED
  BY <1>3, <1>4, <1>5

\* The same of every provider; and a key names one paper, old kin aside.
LEMMA HitsTrue ==
  ASSUME NEW s \in Search
  PROVE  /\ SameTitles(s.rows, PapersOf(Hits(s)))
         /\ ToSet(PapersOf(Hits(s))) \subseteq ToSet(s.rows)
         /\ \A g, h \in ToSet(Hits(s)) :
              g.key = h.key => g.paper = h.paper
                                 \/ (s.source = "arxiv" /\ OldKin(g.paper, h.paper))
<1>1. PICK rows \in Seq(Papers) : rows = s.rows
  BY DEF Search
<1>2. PICK hits : hits = Hits(s)
  OBVIOUS
<1>3. s.source \in Sources
  BY DEF Search
<1>4. ToSet(rows) \subseteq Papers
  BY DEF ToSet
<1>5. ASSUME \A h \in ToSet(hits) : h.paper \in ToSet(rows)
      PROVE  ToSet(PapersOf(hits)) \subseteq ToSet(rows)
  BY <1>5 DEF ToSet, PapersOf
<1>6. CASE s.source = "arxiv"
  <2>1. hits = ArxivHits(rows)
    BY <1>1, <1>2, <1>6 DEF Hits
  <2>2. /\ SameTitles(rows, PapersOf(hits))
        /\ \A h \in ToSet(hits) : \E p \in ToSet(rows) : h = ArxivPaper(p)
    BY <2>1, ArxivTitles
  <2>3. \A p : ArxivPaper(p).paper = p
    BY DEF ArxivPaper, Hit
  <2>4. ASSUME NEW g \in ToSet(hits), NEW h \in ToSet(hits), g.key = h.key
        PROVE  g.paper = h.paper \/ OldKin(g.paper, h.paper)
    <3>1. PICK p \in ToSet(rows), q \in ToSet(rows) : g = ArxivPaper(p) /\ h = ArxivPaper(q)
      BY <2>2
    <3> QED
      BY <1>4, <2>3, <2>4, <3>1, ArxivKeys
  <2> QED
    BY <1>1, <1>2, <1>5, <1>6, <2>2, <2>3, <2>4
<1>7. CASE s.source # "arxiv"
  <2>1. PICK source : /\ DOMAIN hits = DOMAIN rows
                      /\ \A i \in DOMAIN rows : hits[i] = Hit(source, rows[i], rows[i])
    <3>1. CASE s.source = "openalex"
      BY <1>1, <1>2, <3>1 DEF Hits, OpenAlexHits
    <3>2. CASE s.source = "semantic_scholar"
      BY <1>1, <1>2, <3>2 DEF Hits, SemanticScholarHits
    <3>3. s.source = "openalex" \/ s.source = "semantic_scholar"
      BY <1>3, <1>7 DEF Sources
    <3> QED
      BY Zenon, <3>1, <3>2, <3>3
  <2>2. /\ SameTitles(rows, PapersOf(hits))
        /\ \A h \in ToSet(hits) : \E p \in ToSet(rows) : h = Hit(source, p, p)
    <3>1. \A i \in DOMAIN rows : hits[i].paper = rows[i]
      BY <2>1 DEF Hit
    <3>2. SameTitles(rows, PapersOf(hits))
      BY <2>1, <3>1, PassedOn
    <3>3. \A h \in ToSet(hits) : \E p \in ToSet(rows) : h = Hit(source, p, p)
      BY <2>1 DEF ToSet
    <3> QED
      BY <3>2, <3>3
  <2>3. \A p : Hit(source, p, p).paper = p /\ Hit(source, p, p).key = <<source, p>>
    BY DEF Hit
  <2>4. ASSUME NEW g \in ToSet(hits), NEW h \in ToSet(hits), g.key = h.key
        PROVE  g.paper = h.paper
    BY <2>2, <2>3, <2>4
  <2> QED
    BY <1>1, <1>2, <1>5, <2>2, <2>3, <2>4
<1> QED
  BY <1>6, <1>7

\* A provider is asked for something, and for no more than it gives.
Asked(s) == s.at \in {"asked", "answered"} => s.limit \in 1 .. 100

SearchInv == LiteratureTypeOK /\ \A k \in Searches : Asked(searches[k])

\* One search's change keeps the searches true if its own is.
LEMMA SearchChanged ==
  ASSUME SearchInv, NEW k \in Searches, NEW s \in Search, Asked(s),
         searches' = [searches EXCEPT ![k] = s]
  PROVE  SearchInv'
<1>1. /\ searches' \in [Searches -> Search]
      /\ \A j \in Searches : Asked(searches'[j])
  BY DEF SearchInv, LiteratureTypeOK
<1> QED
  BY <1>1 DEF SearchInv, LiteratureTypeOK, Asked

\* No search is a search that asks for nothing.
LEMMA NoSearchType == NoSearch \in Search /\ NoSearch.at = "idle"
<1>1. <<>> \in Seq(Papers)
  OBVIOUS
<1> QED
  BY <1>1 DEF NoSearch, Search, Sources

\* Every step keeps searches true.
LEMMA SearchStepKeeps ==
  ASSUME MembersInv, SearchInv, [Next]_vars
  PROVE  SearchInv'
<1>1. searches \in [Searches -> Search] /\ \A k \in Searches : Asked(searches[k])
  BY DEF SearchInv, LiteratureTypeOK
<1>2. ASSUME NEW k \in Searches, NEW source \in Sources, NEW blank \in BOOLEAN, NEW size \in Int,
             SearchPapers(k, source, blank, size)
      PROVE  SearchInv'
  <2>1. PICK limit \in Nat : limit = IF blank THEN 0 ELSE NormalLimit(size)
    BY DEF NormalLimit
  <2>2. PICK at \in {"failed", "asked"} : at = IF blank THEN "failed" ELSE "asked"
    OBVIOUS
  <2>3. at = "asked" => limit \in 1 .. 100
    BY <2>1, <2>2 DEF NormalLimit
  <2> DEFINE s1 == [NoSearch EXCEPT !.at = at]
             s2 == [s1 EXCEPT !.source = source]
             s3 == [s2 EXCEPT !.limit = limit]
  <2>4. searches' = [searches EXCEPT ![k] = s3]
    BY <1>2, <2>1, <2>2 DEF SearchPapers
  <2>5. s1 \in Search /\ s2 \in Search /\ s3 \in Search
    BY NoSearchType DEF Search
  <2>6. s3.at = at /\ s3.limit = limit
    BY NoSearchType DEF Search
  <2> HIDE DEF s3
  <2> QED
    BY <2>2, <2>3, <2>4, <2>5, <2>6, SearchChanged DEF Asked
<1>3. ASSUME NEW k \in Searches, ProviderAnswers(k)
      PROVE  SearchInv'
  <2>1. PICK n \in 0 .. MaxPapers : \E rows \in [1 .. n -> Papers] :
          searches' = [searches EXCEPT ![k].at = "answered", ![k].rows = rows]
    BY <1>3 DEF ProviderAnswers
  <2>2. PICK rows \in [1 .. n -> Papers] :
          searches' = [searches EXCEPT ![k].at = "answered", ![k].rows = rows]
    BY <2>1
  <2>3. rows \in Seq(Papers) /\ searches[k].at = "asked"
    BY <1>3, LiteratureAssumption DEF ProviderAnswers
  <2> DEFINE s1 == [searches[k] EXCEPT !.at = "answered"]
             s2 == [s1 EXCEPT !.rows = rows]
  <2>4. searches' = [searches EXCEPT ![k] = s2]
    BY <1>1, <2>2
  <2>5. s1 \in Search /\ s2 \in Search /\ s2.limit = searches[k].limit
    BY <1>1, <2>3 DEF Search
  <2>6. Asked(s2)
    BY <1>1, <2>3, <2>5 DEF Asked
  <2> HIDE DEF s2
  <2> QED
    BY <2>4, <2>5, <2>6, SearchChanged
<1>4. ASSUME NEW k \in Searches, ProviderFails(k)
      PROVE  SearchInv'
  <2> DEFINE s == [searches[k] EXCEPT !.at = "failed"]
  <2>1. s \in Search /\ s.at = "failed"
    BY <1>1 DEF Search
  <2>2. searches' = [searches EXCEPT ![k] = s]
    BY <1>4 DEF ProviderFails
  <2> HIDE DEF s
  <2> QED
    BY <2>1, <2>2, SearchChanged DEF Asked
<1>5. CASE UNCHANGED searches
  BY <1>5 DEF SearchInv, LiteratureTypeOK, Asked
<1>6. ASSUME SearchLiterature
      PROVE  SearchInv'
  <2>1. coming.sizes \subseteq Int
    BY DEF MembersInv, Traffic
  <2> QED
    BY <1>2, <1>3, <1>4, <1>6, <2>1 DEF SearchLiterature, SearchStep
<1> QED
  BY <1>5, <1>6, Writers

\* At first there are no searches.
LEMMA SearchesAtFirst == Init => SearchInv
BY NoSearchType DEF Init, LiteratureInit, SearchInv, LiteratureTypeOK, Asked

\* Searches are true of what becomes of their rows.
LEMMA SearchesTrue == SearchInv => LiteratureTypeOK /\ LiteratureTrue
<1> SUFFICES ASSUME SearchInv PROVE LiteratureTrue
  BY DEF SearchInv
<1>1. ASSUME NEW k \in Searches
      PROVE  searches[k] \in Search /\ Asked(searches[k])
  BY DEF SearchInv, LiteratureTypeOK
<1> QED
  BY <1>1, HitsTrue DEF LiteratureTrue, Asked, PapersOf

\* Every paper with a title is a hit, in its order, and hits are papers that were found.
THEOREM SearchesAreTrue == Spec => [](LiteratureTypeOK /\ LiteratureTrue)
<1>1. SearchInv /\ MembersInv /\ [Next]_vars => SearchInv'
  BY SearchStepKeeps
<1> QED
  BY <1>1, SearchesAtFirst, SearchesTrue, MembersInvariant, PTL DEF Spec

-----------------------------------------------------------------------------
(* The whole. *)

\* The desks' invariant holds in every reachable state.
LEMMA DeskInvariant == Spec => []DeskInv
BY DeskInvInit, DeskInvNext, PTL DEF Spec

\* The components' invariants give the types of the whole.
LEMMA AllTyped ==
  ASSUME MembersInv, ListsInv, InboxTypeOK, RiseInv, DeskInv, TrackInv,
         CatalogueTypeOK, TutorialsTypeOK, LookupTypeOK, LiteratureTypeOK
  PROVE  TypeOK
<1>1. RegistrationTypeOK /\ SyncTypeOK /\ coming \in Traffic
  BY DEF MembersInv, RegInv, RegistrationInv, LevelInv
<1>2. ListsTypeOK
  BY DEF ListsInv, ListsTypeOK, Readings
<1>3. ProfileTypeOK /\ TrackingTypeOK
  BY DEF DeskInv, TrackInv
<1>4. silent \subseteq Ids
  BY DEF RiseInv
<1> QED
  BY <1>1, <1>2, <1>3, <1>4 DEF TypeOK

\* Every variable of the members' side keeps its type.
THEOREM MembersTyped == Spec => []TypeOK
<1>1. MembersInv /\ (ListsInv /\ InboxTypeOK) /\ RiseInv /\ DeskInv /\ TrackInv
        /\ (CatalogueTypeOK /\ CatalogueTrue) /\ (TutorialsTypeOK /\ TutorialsTrue)
        /\ (LookupTypeOK /\ LookupHonest) /\ (LiteratureTypeOK /\ LiteratureTrue)
      => TypeOK
  BY AllTyped
<1> QED
  BY <1>1, MembersInvariant, ListsInvariant, RiseInvariant, DeskInvariant, TrackInvariant, VisitsAreTrue,
     LessonsAreTrue, LookupsAreHonest, SearchesAreTrue, PTL
=============================================================================
