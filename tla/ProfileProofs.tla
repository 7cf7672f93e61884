--------------------------- MODULE ProfileProofs ---------------------------
(* Theorems about the requests of the profile in Members, for any members,   *)
(* desks, rows, passwords, failures and traffic.                             *)
EXTENDS Members, FiniteSetTheorems, TLAPS

-----------------------------------------------------------------------------
(* The invariant. *)

Active(d) == desk[d].at # "idle"

Concerns(d) == <<desk[d].user, Table(desk[d].op)>>

\* Nobody else interferes with what d is about to write.
Undisturbed(d) == Active(d) /\ Concerns(d) \notin disturbed

\* A clear belongs to a request that makes its row the default; two requests on the same rows
\* have disturbed each other; and what an undisturbed request has looked at still holds: its
\* row is the only one that can be the default, its team has no inquiry, its old password is
\* the member's.
DeskInv ==
  /\ ProfileTypeOK
  /\ \A d \in Desks : desk[d].at = "clear" =>
       desk[d].default /\ desk[d].op \in {"create", "update", "set"}
  /\ \A d, e \in Desks : Active(d) /\ Active(e) /\ Concerns(d) = Concerns(e) /\ d # e =>
       Concerns(d) \in disturbed
  /\ \A u \in Ids : <<u, "invoice">> \notin disturbed =>
       \A i, j \in Rows : invoices[u][i] = "default" /\ invoices[u][j] = "default" => i = j
  /\ \A d \in Desks : Undisturbed(d) /\ desk[d].at = "write" =>
       /\ Table(desk[d].op) = "invoice" /\ desk[d].default =>
            \A i \in Rows : invoices[desk[d].user][i] = "default" => i = desk[d].row
       /\ Table(desk[d].op) = "inquiry" => inquiries[desk[d].user].team = 0
       /\ Table(desk[d].op) = "password" => desk[d].old = password[desk[d].user]
  /\ OneInquiry

LEMMA AtMostOne ==
  ASSUME NEW S, \A i, j \in S : i = j
  PROVE  Cardinality(S) <= 1
<1>1. CASE S = {}
  BY <1>1, FS_EmptySet
<1>2. CASE S # {}
  <2>1. PICK i : i \in S
    BY <1>2
  <2>2. S = {i}
    BY <2>1, Zenon
  <2>3. Cardinality({i}) = 1
    BY FS_Singleton
  <2> QED
    BY <2>2, <2>3
<1> QED
  BY <1>1, <1>2

LEMMA DeskInvImplies == DeskInv => UndisturbedDesk
<1> SUFFICES ASSUME DeskInv PROVE UndisturbedDesk
  OBVIOUS
<1>1. OneDefault
  <2> SUFFICES ASSUME NEW u \in Ids, <<u, "invoice">> \notin disturbed
               PROVE  Cardinality(Defaults(u)) <= 1
    BY DEF OneDefault
  <2>1. \A i, j \in Defaults(u) : i = j
    BY DEF DeskInv, Defaults
  <2> QED
    BY <2>1, AtMostOne
<1>2. OldPasswordHolds
  BY DEF DeskInv, OldPasswordHolds, Undisturbed, Active, Concerns
<1> QED
  BY <1>1, <1>2 DEF DeskInv, UndisturbedDesk

LEMMA AnyRequest ==
  ASSUME DeskInv, NEW d \in Desks
  PROVE  desk[d] \in Request /\ Table(desk[d].op) \in {"invoice", "inquiry", "password"}
BY DEF DeskInv, ProfileTypeOK, Request, Table

-----------------------------------------------------------------------------
(* Requests are admitted. *)

\* A request that has looked at the rows as they are, and has not written yet.
LEMMA AdmitKeeps ==
  ASSUME DeskInv, NEW d \in Desks, NEW q \in Request, Admit(d, q), q.at # "idle",
         UNCHANGED <<invoices, inquiries, password>>,
         q.at = "clear" => q.default /\ q.op \in {"create", "update", "set"},
         q.at = "write" /\ Table(q.op) = "invoice" => ~q.default,
         Table(q.op) = "inquiry" => inquiries[q.user].team = 0,
         Table(q.op) = "password" => q.old = password[q.user]
  PROVE  DeskInv'
<1>1. \A e \in Desks : desk'[e] = IF e = d THEN q ELSE desk[e]
  BY DEF Admit, DeskInv, ProfileTypeOK
<1>2. disturbed \subseteq disturbed' /\ desk[d].at = "idle"
      /\ UNCHANGED <<invoices, inquiries, password>>
  BY DEF Admit
<1>3. ProfileTypeOK'
  <2>1. <<q.user, Table(q.op)>> \in Ids \X {"invoice", "inquiry", "password"}
    BY DEF Request, Table
  <2> QED
    BY <2>1 DEF Admit, DeskInv, ProfileTypeOK
<1>4. \A e \in Desks : desk'[e].at = "clear" =>
        desk'[e].default /\ desk'[e].op \in {"create", "update", "set"}
  BY <1>1 DEF DeskInv
<1>5. ASSUME NEW e \in Desks \ {d}, Active(e), Concerns(e) = <<q.user, Table(q.op)>>
      PROVE  <<q.user, Table(q.op)>> \in disturbed'
  BY <1>5 DEF Admit, Active, Concerns
<1>6. \A a, b \in Desks : (Active(a) /\ Active(b) /\ Concerns(a) = Concerns(b) /\ a # b =>
        Concerns(a) \in disturbed)'
  BY <1>1, <1>2, <1>5 DEF DeskInv, Active, Concerns
<1>7. \A u \in Ids : <<u, "invoice">> \notin disturbed' =>
        \A i, j \in Rows : invoices'[u][i] = "default" /\ invoices'[u][j] = "default" => i = j
  BY <1>2 DEF DeskInv
<1>8. \A e \in Desks : (Undisturbed(e) /\ desk[e].at = "write" =>
        /\ Table(desk[e].op) = "invoice" /\ desk[e].default =>
             \A i \in Rows : invoices[desk[e].user][i] = "default" => i = desk[e].row
        /\ Table(desk[e].op) = "inquiry" => inquiries[desk[e].user].team = 0
        /\ Table(desk[e].op) = "password" => desk[e].old = password[desk[e].user])'
  BY <1>1, <1>2 DEF DeskInv, Undisturbed, Active, Concerns
<1>9. OneInquiry'
  BY <1>2 DEF DeskInv, OneInquiry
<1> QED
  BY <1>3, <1>4, <1>6, <1>7, <1>8, <1>9 DEF DeskInv

LEMMA NoRequestType ==
  NoRequest \in Request /\ NoRequest.at = "idle"
BY FaultAssumption, ProfileAssumption DEF NoRequest, Request, AnyPassword

LEMMA DeskBeginKeeps ==
  ASSUME DeskInv, NEW d \in Desks, NEW u \in Ids, DeskBegin(d, u)
  PROVE  DeskInv'
<1>1. ASSUME NEW row \in Rows \cup {None}, NEW default \in BOOLEAN, SaveInvoice(d, u, row, default)
      PROVE  DeskInv'
  <2> DEFINE q == [NoRequest EXCEPT !.at = IF default THEN "clear" ELSE "write", !.user = u,
                     !.op = IF row = None THEN "create" ELSE "update",
                     !.row = row, !.default = default]
  <2>1. /\ q \in Request /\ q.user = u /\ q.default = default
        /\ q.at = (IF default THEN "clear" ELSE "write") /\ q.op \in {"create", "update"}
    BY NoRequestType DEF Request
  <2>2. Admit(d, q) /\ UNCHANGED <<invoices, inquiries, password>>
    BY <1>1 DEF SaveInvoice
  <2> HIDE DEF q
  <2>3. Table(q.op) = "invoice"
    BY <2>1 DEF Table
  <2> QED
    BY <2>1, <2>2, <2>3, AdmitKeeps
<1>2. ASSUME NEW row \in Rows, SetDefault(d, u, row)
      PROVE  DeskInv'
  <2> DEFINE q == [NoRequest EXCEPT !.at = "clear", !.user = u, !.op = "set", !.row = row,
                                    !.default = TRUE]
  <2>1. q \in Request /\ q.user = u /\ q.default /\ q.at = "clear" /\ q.op = "set"
    BY NoRequestType DEF Request
  <2>2. Admit(d, q) /\ UNCHANGED <<invoices, inquiries, password>>
    BY <1>2 DEF SetDefault
  <2> HIDE DEF q
  <2>3. Table(q.op) = "invoice"
    BY <2>1 DEF Table
  <2> QED
    BY <2>1, <2>2, <2>3, AdmitKeeps
<1>3. ASSUME SubmitInquiry(d, u)
      PROVE  DeskInv'
  <2> DEFINE q == [NoRequest EXCEPT !.at = "write", !.user = u, !.op = "inquiry"]
  <2>1. q \in Request /\ q.user = u /\ q.at = "write" /\ q.op = "inquiry"
    BY NoRequestType DEF Request
  <2>2. Admit(d, q) /\ UNCHANGED <<invoices, inquiries, password>> /\ ~HasInquiry(u)
    BY <1>3 DEF SubmitInquiry
  <2> HIDE DEF q
  <2>3. Table(q.op) = "inquiry"
    BY <2>1 DEF Table
  <2>4. inquiries[u].team = 0
    <3>1. inquiries[u].team \in Nat /\ inquiries[u].page \in Nat
      BY DEF DeskInv, ProfileTypeOK
    <3> QED
      BY <2>2, <3>1 DEF HasInquiry
  <2> QED
    BY <2>1, <2>2, <2>3, <2>4, AdmitKeeps
<1>4. ASSUME NEW old \in Passwords, NEW new \in Passwords, ChangePassword(d, u, old, new)
      PROVE  DeskInv'
  <2> DEFINE q == [NoRequest EXCEPT !.at = "write", !.user = u, !.op = "password",
                                    !.old = old, !.new = new]
  <2>1. q \in Request /\ q.user = u /\ q.at = "write" /\ q.op = "password" /\ q.old = old
    BY NoRequestType DEF Request
  <2>2. Admit(d, q) /\ UNCHANGED <<invoices, inquiries, password>> /\ old = password[u]
    BY <1>4 DEF ChangePassword, Accepts
  <2> HIDE DEF q
  <2>3. Table(q.op) = "password"
    BY <2>1 DEF Table
  <2> QED
    BY <2>1, <2>2, <2>3, AdmitKeeps
<1>5. ASSUME Login(d, u)
      PROVE  DeskInv'
  <2> DEFINE q == [NoRequest EXCEPT !.at = "write", !.user = u, !.op = "login",
                                    !.old = password[u], !.new = password[u]]
  <2>1. q \in Request /\ q.user = u /\ q.at = "write" /\ q.op = "login" /\ q.old = password[u]
    BY NoRequestType DEF Request, DeskInv, ProfileTypeOK
  <2>2. Admit(d, q) /\ UNCHANGED <<invoices, inquiries, password>>
    BY <1>5 DEF Login
  <2> HIDE DEF q
  <2>3. Table(q.op) = "password"
    BY <2>1 DEF Table
  <2> QED
    BY <2>1, <2>2, <2>3, AdmitKeeps
<1> QED
  BY <1>1, <1>2, <1>3, <1>4, <1>5 DEF DeskBegin

-----------------------------------------------------------------------------
(* Requests go on. *)

LEMMA SamePair ==
  \A a, b, c, e : <<a, b>> = <<c, e>> => a = c /\ b = e
OBVIOUS

\* A request goes on with a change to its own rows only, and if it is undisturbed they stay
\* as they must be.
LEMMA StepKeeps ==
  ASSUME DeskInv, NEW d \in Desks, NEW q \in Request, Active(d),
         desk' = [desk EXCEPT ![d] = q], q.user = desk[d].user, q.op = desk[d].op,
         q.at \in {"idle", "write"},
         disturbed' \subseteq Ids \X {"invoice", "inquiry", "password"}, disturbed \subseteq disturbed',
         invoices' \in [Ids -> [Rows -> {"none", "plain", "default"}]],
         inquiries' \in [Ids -> [team : Nat, page : Nat]],
         password' \in [Ids -> Passwords],
         \A u \in Ids : /\ <<u, "invoice">> # Concerns(d) => invoices'[u] = invoices[u]
                        /\ <<u, "inquiry">> # Concerns(d) => inquiries'[u] = inquiries[u]
                        /\ <<u, "password">> # Concerns(d) => password'[u] = password[u],
         Concerns(d) \notin disturbed' =>
           /\ Table(q.op) = "invoice" =>
                /\ \A i, j \in Rows :
                     invoices'[q.user][i] = "default" /\ invoices'[q.user][j] = "default" => i = j
                /\ q.at = "write" /\ q.default =>
                     \A i \in Rows : invoices'[q.user][i] = "default" => i = q.row
           /\ Table(q.op) = "inquiry" => q.at = "idle" /\ inquiries'[q.user].team <= 1
           /\ Table(q.op) = "password" => q.at = "idle"
  PROVE  DeskInv'
<1>1. \A e \in Desks : desk'[e] = IF e = d THEN q ELSE desk[e]
  BY DEF DeskInv, ProfileTypeOK
<1>2. Concerns(d) = <<q.user, Table(q.op)>> /\ q.user \in Ids
      /\ Table(q.op) \in {"invoice", "inquiry", "password"}
  BY AnyRequest DEF Concerns, Request
<1>3. ProfileTypeOK'
  BY DEF DeskInv, ProfileTypeOK
<1>4. \A e \in Desks : desk'[e].at = "clear" =>
        desk'[e].default /\ desk'[e].op \in {"create", "update", "set"}
  BY <1>1 DEF DeskInv
<1>5. \A e \in Desks : <<desk'[e].user, Table(desk'[e].op)>> = Concerns(e)
                       /\ (desk'[e].at # "idle" => Active(e))
  BY <1>1, <1>2 DEF Concerns, Active
<1>6. \A a, b \in Desks : (Active(a) /\ Active(b) /\ Concerns(a) = Concerns(b) /\ a # b =>
        Concerns(a) \in disturbed)'
  BY <1>5 DEF DeskInv, Active, Concerns
<1>7. ASSUME NEW u \in Ids, <<u, "invoice">> \notin disturbed', NEW i \in Rows, NEW j \in Rows,
             invoices'[u][i] = "default", invoices'[u][j] = "default"
      PROVE  i = j
  <2>1. CASE <<u, "invoice">> = Concerns(d)
    <3>1. <<u, "invoice">> = <<q.user, Table(q.op)>>
      BY <1>2, <2>1, Zenon
    <3>2. u = q.user /\ Table(q.op) = "invoice"
      BY <3>1, SamePair, Zenon
    <3>3. Concerns(d) \notin disturbed'
      BY <1>7, <2>1
    <3> QED
      BY <1>7, <3>2, <3>3
  <2>2. CASE <<u, "invoice">> # Concerns(d)
    BY <1>7, <2>2 DEF DeskInv
  <2> QED
    BY <2>1, <2>2
<1>8. ASSUME NEW e \in Desks, desk'[e].at = "write",
             <<desk'[e].user, Table(desk'[e].op)>> \notin disturbed'
      PROVE  /\ Table(desk'[e].op) = "invoice" /\ desk'[e].default =>
                  \A i \in Rows : invoices'[desk'[e].user][i] = "default" => i = desk'[e].row
             /\ Table(desk'[e].op) = "inquiry" => inquiries'[desk'[e].user].team = 0
             /\ Table(desk'[e].op) = "password" => desk'[e].old = password'[desk'[e].user]
  <2>1. CASE e = d
    <3>1. desk'[e] = q
      BY <1>1, <2>1
    <3>2. q.at = "write" /\ Concerns(d) \notin disturbed'
      BY <1>2, <1>8, <3>1
    <3>3. /\ Table(q.op) = "invoice" /\ q.default =>
               \A i \in Rows : invoices'[q.user][i] = "default" => i = q.row
          /\ Table(q.op) \notin {"inquiry", "password"}
      BY <3>2
    <3> QED
      BY <3>1, <3>3
  <2>2. CASE e # d
    <3>1. desk'[e] = desk[e] /\ desk[e].user \in Ids
      BY <1>1, <2>2, AnyRequest DEF Request
    <3>2. Undisturbed(e) /\ desk[e].at = "write"
      BY <1>5, <1>8, <3>1 DEF Undisturbed, Active
    <3>3. Concerns(e) # Concerns(d)
      BY <2>2, <3>2 DEF DeskInv, Undisturbed
    <3>4. /\ Table(desk[e].op) = "invoice" => invoices'[desk[e].user] = invoices[desk[e].user]
          /\ Table(desk[e].op) = "inquiry" => inquiries'[desk[e].user] = inquiries[desk[e].user]
          /\ Table(desk[e].op) = "password" => password'[desk[e].user] = password[desk[e].user]
      BY <3>1, <3>3 DEF Concerns
    <3> QED
      BY <3>1, <3>2, <3>4 DEF DeskInv
  <2> QED
    BY <2>1, <2>2
<1>9. ASSUME NEW u \in Ids, <<u, "inquiry">> \notin disturbed'
      PROVE  inquiries'[u].team <= 1
  <2>1. CASE <<u, "inquiry">> = Concerns(d)
    <3>1. <<u, "inquiry">> = <<q.user, Table(q.op)>>
      BY <1>2, <2>1, Zenon
    <3>2. u = q.user /\ Table(q.op) = "inquiry"
      BY <3>1, SamePair, Zenon
    <3>3. Concerns(d) \notin disturbed'
      BY <1>9, <2>1
    <3> QED
      BY <3>2, <3>3
  <2>2. CASE <<u, "inquiry">> # Concerns(d)
    BY <1>9, <2>2 DEF DeskInv, OneInquiry
  <2> QED
    BY <2>1, <2>2
<1>10. \A e \in Desks : (Undisturbed(e) /\ desk[e].at = "write" =>
        /\ Table(desk[e].op) = "invoice" /\ desk[e].default =>
             \A i \in Rows : invoices[desk[e].user][i] = "default" => i = desk[e].row
        /\ Table(desk[e].op) = "inquiry" => inquiries[desk[e].user].team = 0
        /\ Table(desk[e].op) = "password" => desk[e].old = password[desk[e].user])'
  BY <1>8 DEF Undisturbed, Concerns
<1>11. OneInquiry'
  BY <1>9 DEF OneInquiry
<1> QED
  BY <1>3, <1>4, <1>6, <1>7, <1>10, <1>11 DEF DeskInv

\* The same of a request for invoice configurations.
LEMMA InvoiceStepKeeps ==
  ASSUME DeskInv, NEW d \in Desks, NEW q \in Request, Active(d),
         desk' = [desk EXCEPT ![d] = q], q.user = desk[d].user, q.op = desk[d].op,
         q.at \in {"idle", "write"}, Table(q.op) = "invoice",
         UNCHANGED inquiries, UNCHANGED password, disturbed \subseteq disturbed',
         disturbed' \subseteq Ids \X {"invoice", "inquiry", "password"},
         NEW rows \in [Rows -> {"none", "plain", "default"}],
         invoices' = [invoices EXCEPT ![q.user] = rows],
         <<q.user, "invoice">> \notin disturbed' =>
           /\ \A i, j \in Rows : rows[i] = "default" /\ rows[j] = "default" => i = j
           /\ q.at = "write" /\ q.default => \A i \in Rows : rows[i] = "default" => i = q.row
  PROVE  DeskInv'
<1>1. /\ invoices \in [Ids -> [Rows -> {"none", "plain", "default"}]] /\ q.user \in Ids
      /\ inquiries \in [Ids -> [team : Nat, page : Nat]] /\ password \in [Ids -> Passwords]
  BY DEF DeskInv, ProfileTypeOK, Request
<1>2. /\ invoices' \in [Ids -> [Rows -> {"none", "plain", "default"}]]
      /\ invoices'[q.user] = rows
      /\ \A u \in Ids : u # q.user => invoices'[u] = invoices[u]
  BY <1>1
<1>3. Concerns(d) = <<q.user, "invoice">>
  BY DEF Concerns
<1>4. \A u \in Ids : /\ <<u, "invoice">> # Concerns(d) => invoices'[u] = invoices[u]
                     /\ inquiries'[u] = inquiries[u] /\ password'[u] = password[u]
  BY <1>2, <1>3
<1>5. Concerns(d) \notin disturbed' =>
        /\ \A i, j \in Rows :
             invoices'[q.user][i] = "default" /\ invoices'[q.user][j] = "default" => i = j
        /\ q.at = "write" /\ q.default =>
             \A i \in Rows : invoices'[q.user][i] = "default" => i = q.row
  BY <1>2, <1>3
<1>6. Table(q.op) # "inquiry" /\ Table(q.op) # "password"
  OBVIOUS
<1>7. /\ inquiries' \in [Ids -> [team : Nat, page : Nat]] /\ password' \in [Ids -> Passwords]
  BY <1>1
<1> QED
  BY <1>2, <1>4, <1>5, <1>6, <1>7, StepKeeps

\* The same of one that ends without a change to an invoice configuration.
LEMMA OtherStepKeeps ==
  ASSUME DeskInv, NEW d \in Desks, Active(d),
         desk' = [desk EXCEPT ![d].at = "idle"], UNCHANGED invoices, UNCHANGED disturbed,
         inquiries' \in [Ids -> [team : Nat, page : Nat]],
         password' \in [Ids -> Passwords],
         \A u \in Ids : /\ <<u, "inquiry">> # Concerns(d) => inquiries'[u] = inquiries[u]
                        /\ <<u, "password">> # Concerns(d) => password'[u] = password[u],
         Undisturbed(d) /\ Table(desk[d].op) = "inquiry" => inquiries'[desk[d].user].team <= 1
  PROVE  DeskInv'
<1> DEFINE q == [desk[d] EXCEPT !.at = "idle"]
<1>1. q \in Request /\ q.user = desk[d].user /\ q.op = desk[d].op /\ q.at = "idle"
  BY AnyRequest DEF Request
<1>2. desk' = [desk EXCEPT ![d] = q]
  BY DEF DeskInv, ProfileTypeOK
<1> HIDE DEF q
<1>3. /\ invoices' \in [Ids -> [Rows -> {"none", "plain", "default"}]] /\ q.user \in Ids
      /\ disturbed' \subseteq Ids \X {"invoice", "inquiry", "password"}
      /\ disturbed \subseteq disturbed'
  BY <1>1 DEF DeskInv, ProfileTypeOK, Request
<1>4. Concerns(d) = <<q.user, Table(q.op)>>
  BY <1>1 DEF Concerns
<1>5. Concerns(d) \notin disturbed' =>
        /\ Table(q.op) = "invoice" =>
             /\ \A i, j \in Rows :
                  invoices'[q.user][i] = "default" /\ invoices'[q.user][j] = "default" => i = j
             /\ q.at = "write" /\ q.default =>
                  \A i \in Rows : invoices'[q.user][i] = "default" => i = q.row
        /\ Table(q.op) = "inquiry" => q.at = "idle" /\ inquiries'[q.user].team <= 1
        /\ Table(q.op) = "password" => q.at = "idle"
  BY <1>1, <1>3, <1>4 DEF DeskInv, Undisturbed
<1>6. \A u \in Ids : /\ <<u, "invoice">> # Concerns(d) => invoices'[u] = invoices[u]
                     /\ <<u, "inquiry">> # Concerns(d) => inquiries'[u] = inquiries[u]
                     /\ <<u, "password">> # Concerns(d) => password'[u] = password[u]
  OBVIOUS
<1>7. q.at \in {"idle", "write"} /\ Active(d)
  BY <1>1
<1> QED
  BY <1>1, <1>2, <1>3, <1>5, <1>6, <1>7, StepKeeps

LEMMA DeskStepKeeps ==
  ASSUME DeskInv, NEW d \in Desks, DeskStep(d)
  PROVE  DeskInv'
<1>1. /\ desk[d] \in Request /\ desk[d].user \in Ids /\ desk[d].new \in Passwords
      /\ Table(desk[d].op) \in {"invoice", "inquiry", "password"}
  BY AnyRequest DEF Request
<1>2. /\ invoices \in [Ids -> [Rows -> {"none", "plain", "default"}]]
      /\ inquiries \in [Ids -> [team : Nat, page : Nat]] /\ password \in [Ids -> Passwords]
      /\ desk \in [Desks -> Request]
      /\ disturbed \subseteq Ids \X {"invoice", "inquiry", "password"}
  BY DEF DeskInv, ProfileTypeOK
<1>3. ASSUME desk[d].at = "clear"
      PROVE  Table(desk[d].op) = "invoice" /\ desk[d].default
  BY <1>3 DEF DeskInv, Table
<1>4. ASSUME Clear(d)
      PROVE  DeskInv'
  <2> DEFINE q == [desk[d] EXCEPT !.at = "write"]
  <2>1. /\ q \in Request /\ q.user = desk[d].user /\ q.op = desk[d].op /\ q.at = "write"
        /\ q.row = desk[d].row
    BY <1>1 DEF Request
  <2>2. /\ desk' = [desk EXCEPT ![d] = q] /\ Active(d)
        /\ UNCHANGED inquiries /\ UNCHANGED password /\ UNCHANGED disturbed
        /\ invoices' = [invoices EXCEPT ![desk[d].user] = Cleared(desk[d].user, desk[d].row)]
    BY <1>2, <1>4 DEF Clear, Active
  <2>3. Table(q.op) = "invoice"
    BY <1>3, <1>4, <2>1 DEF Clear
  <2> HIDE DEF q
  <2> DEFINE rows == Cleared(desk[d].user, desk[d].row)
  <2>4. rows \in [Rows -> {"none", "plain", "default"}]
    BY <1>1, <1>2 DEF Cleared
  <2>5. \A i \in Rows : rows[i] = "default" => i = q.row
    BY <2>1 DEF Cleared
  <2> HIDE DEF rows
  <2>6. invoices' = [invoices EXCEPT ![q.user] = rows]
    BY <2>1, <2>2 DEF rows
  <2>7. \A i, j \in Rows : rows[i] = "default" /\ rows[j] = "default" => i = j
    BY <2>5
  <2>8. /\ disturbed \subseteq disturbed'
        /\ disturbed' \subseteq Ids \X {"invoice", "inquiry", "password"}
        /\ q.at \in {"idle", "write"}
    BY <1>2, <2>1, <2>2
  <2> QED
    BY <2>1, <2>2, <2>3, <2>4, <2>5, <2>6, <2>7, <2>8, InvoiceStepKeeps
<1>5. ASSUME ClearFails(d)
      PROVE  DeskInv'
  <2> DEFINE q == [desk[d] EXCEPT !.at = IF desk[d].op = "set" THEN "idle" ELSE "write"]
  <2>1. /\ q \in Request /\ q.user = desk[d].user /\ q.op = desk[d].op
        /\ q.at = (IF desk[d].op = "set" THEN "idle" ELSE "write")
    BY <1>1 DEF Request
  <2>2. /\ desk' = [desk EXCEPT ![d] = q] /\ Active(d)
        /\ UNCHANGED inquiries /\ UNCHANGED password /\ UNCHANGED invoices
        /\ disturbed' = IF desk[d].op = "set" THEN disturbed
                        ELSE disturbed \cup {<<desk[d].user, "invoice">>}
    BY <1>2, <1>5 DEF ClearFails, Active
  <2>3. Table(q.op) = "invoice"
    BY <1>3, <1>5, <2>1 DEF ClearFails
  <2> HIDE DEF q
  <2> DEFINE rows == invoices[q.user]
  <2>4. rows \in [Rows -> {"none", "plain", "default"}]
        /\ invoices' = [invoices EXCEPT ![q.user] = rows]
    BY <1>1, <1>2, <2>1, <2>2
  <2>5. ASSUME <<q.user, "invoice">> \notin disturbed'
        PROVE  /\ \A i, j \in Rows : rows[i] = "default" /\ rows[j] = "default" => i = j
               /\ q.at = "idle"
    BY <1>1, <2>1, <2>2, <2>5 DEF DeskInv
  <2>6. disturbed \subseteq disturbed'
        /\ disturbed' \subseteq Ids \X {"invoice", "inquiry", "password"}
    BY <1>1, <1>2, <2>2
  <2>7. q.at \in {"idle", "write"}
    BY <2>1
  <2> HIDE DEF rows
  <2> QED
    BY <2>1, <2>2, <2>3, <2>4, <2>5, <2>6, <2>7, InvoiceStepKeeps
<1>6. ASSUME WriteInvoice(d)
      PROVE  DeskInv'
  <2> DEFINE q == [desk[d] EXCEPT !.at = "idle"]
  <2>1. q \in Request /\ q.user = desk[d].user /\ q.op = desk[d].op /\ q.at = "idle"
    BY <1>1 DEF Request
  <2>2. /\ desk' = [desk EXCEPT ![d] = q] /\ Active(d)
        /\ UNCHANGED inquiries /\ UNCHANGED password /\ UNCHANGED disturbed
        /\ desk[d].at = "write" /\ Table(desk[d].op) = "invoice"
    BY <1>2, <1>6 DEF WriteInvoice, Active
  <2>3. Table(q.op) = "invoice"
    BY <2>1, <2>2
  <2> HIDE DEF q
  <2>4. PICK i \in Rows :
          /\ IF desk[d].row = None THEN invoices[desk[d].user][i] = "none" ELSE i = desk[d].row
          /\ invoices' = [invoices EXCEPT
               ![desk[d].user][i] = IF desk[d].default THEN "default" ELSE "plain"]
    BY <1>6 DEF WriteInvoice
  <2> DEFINE rows == [invoices[desk[d].user] EXCEPT
                        ![i] = IF desk[d].default THEN "default" ELSE "plain"]
  <2>5. rows \in [Rows -> {"none", "plain", "default"}]
        /\ invoices' = [invoices EXCEPT ![q.user] = rows]
    BY <1>1, <1>2, <2>1, <2>4
  <2>6. ASSUME <<desk[d].user, "invoice">> \notin disturbed
        PROVE  /\ \A j, k \in Rows : invoices[desk[d].user][j] = "default"
                                     /\ invoices[desk[d].user][k] = "default" => j = k
               /\ desk[d].default =>
                    \A j \in Rows : invoices[desk[d].user][j] = "default" => j = desk[d].row
    <3>1. Undisturbed(d)
      BY <2>2, <2>6 DEF Undisturbed, Concerns
    <3> QED
      BY <1>1, <2>2, <2>6, <3>1 DEF DeskInv
  <2>7. \A j \in Rows :
          rows[j] = IF j = i THEN IF desk[d].default THEN "default" ELSE "plain"
                    ELSE invoices[desk[d].user][j]
    BY <1>1, <1>2
  <2> HIDE DEF rows
  <2>8. ASSUME <<desk[d].user, "invoice">> \notin disturbed
        PROVE  \A j, k \in Rows : rows[j] = "default" /\ rows[k] = "default" => j = k
    <3>1. CASE desk[d].default
      <4>1. \A j \in Rows : invoices[desk[d].user][j] = "default" => j = i
        BY <2>4, <2>6, <2>8, <3>1, ProfileAssumption
      <4> QED
        BY <2>7, <4>1
    <3>2. CASE ~desk[d].default
      BY <2>6, <2>7, <2>8, <3>2
    <3> QED
      BY <3>1, <3>2
  <2>9. /\ disturbed \subseteq disturbed'
        /\ disturbed' \subseteq Ids \X {"invoice", "inquiry", "password"}
        /\ q.at \in {"idle", "write"}
        /\ <<q.user, "invoice">> \notin disturbed' =>
           \A j, k \in Rows : rows[j] = "default" /\ rows[k] = "default" => j = k
    BY <1>2, <2>1, <2>2, <2>8
  <2> QED
    BY <2>1, <2>2, <2>3, <2>5, <2>9, InvoiceStepKeeps
<1>7. ASSUME WriteInquiry(d)
      PROVE  DeskInv'
  <2>1. /\ Active(d) /\ desk' = [desk EXCEPT ![d].at = "idle"] /\ desk[d].at = "write"
        /\ Table(desk[d].op) = "inquiry" /\ Concerns(d) = <<desk[d].user, "inquiry">>
        /\ inquiries' = [inquiries EXCEPT ![desk[d].user].team = @ + 1]
        /\ UNCHANGED invoices /\ UNCHANGED disturbed /\ UNCHANGED password
    BY <1>7 DEF WriteInquiry, Active, Table, Concerns
  <2>2. inquiries' \in [Ids -> [team : Nat, page : Nat]]
        /\ inquiries'[desk[d].user].team = inquiries[desk[d].user].team + 1
    BY <1>1, <1>2, <2>1
  <2>3. \A u \in Ids : <<u, "inquiry">> # Concerns(d) => inquiries'[u] = inquiries[u]
    BY <1>1, <1>2, <2>1
  <2>4. Undisturbed(d) => inquiries'[desk[d].user].team <= 1
    BY <2>1, <2>2 DEF DeskInv
  <2> QED
    BY <1>2, <2>1, <2>2, <2>3, <2>4, OtherStepKeeps
<1>8. ASSUME WritePassword(d)
      PROVE  DeskInv'
  <2>1. /\ Active(d) /\ desk' = [desk EXCEPT ![d].at = "idle"]
        /\ Table(desk[d].op) = "password" /\ Concerns(d) = <<desk[d].user, "password">>
        /\ password' = [password EXCEPT ![desk[d].user] = desk[d].new]
        /\ UNCHANGED invoices /\ UNCHANGED disturbed /\ UNCHANGED inquiries
    BY <1>8 DEF WritePassword, Active, Table, Concerns
  <2>2. password' \in [Ids -> Passwords]
    BY <1>1, <1>2, <2>1
  <2>3. \A u \in Ids : <<u, "password">> # Concerns(d) => password'[u] = password[u]
    BY <1>1, <1>2, <2>1
  <2> QED
    BY <1>2, <2>1, <2>2, <2>3, OtherStepKeeps
<1>9. ASSUME LoginAnswers(d) \/ RequestFails(d)
      PROVE  DeskInv'
  <2>1. /\ Active(d) /\ desk' = [desk EXCEPT ![d].at = "idle"]
        /\ UNCHANGED invoices /\ UNCHANGED disturbed
        /\ UNCHANGED inquiries /\ UNCHANGED password
    BY <1>9 DEF LoginAnswers, RequestFails, Active
  <2>2. Undisturbed(d) /\ Table(desk[d].op) = "inquiry" => inquiries'[desk[d].user].team <= 1
    BY <1>1, <1>2, <2>1 DEF DeskInv, OneInquiry, Undisturbed, Concerns
  <2> QED
    BY <1>2, <2>1, <2>2, OtherStepKeeps
<1> QED
  BY <1>4, <1>5, <1>6, <1>7, <1>8, <1>9 DEF DeskStep

\* The enterprise page adds to a count of its own.
LEMMA PageInquiryKeeps ==
  ASSUME DeskInv, NEW u \in Ids, PageInquiry(u)
  PROVE  DeskInv'
<1>1. /\ inquiries' = [inquiries EXCEPT ![u].page = 1]
      /\ UNCHANGED <<invoices, password, desk, disturbed>>
  BY DEF PageInquiry
<1>2. inquiries' \in [Ids -> [team : Nat, page : Nat]]
      /\ \A v \in Ids : inquiries'[v].team = inquiries[v].team
  BY <1>1 DEF DeskInv, ProfileTypeOK
<1>3. \A d \in Desks : desk[d].user \in Ids
  BY AnyRequest DEF Request
<1> QED
  BY <1>1, <1>2, <1>3
     DEF DeskInv, ProfileTypeOK, OneInquiry, Undisturbed, Active, Concerns

-----------------------------------------------------------------------------
(* The specification. *)

LEMMA DeskInvInit == Init => DeskInv
<1> SUFFICES ASSUME ProfileInit PROVE DeskInv
  BY DEF Init
<1>1. \A d \in Desks : desk[d] = NoRequest
  BY DEF ProfileInit
<1>2. ProfileTypeOK
  BY NoRequestType, ProfileAssumption DEF ProfileInit, ProfileTypeOK, AnyPassword
<1> QED
  BY <1>1, <1>2, NoRequestType
     DEF DeskInv, ProfileInit, Undisturbed, Active, OneInquiry

LEMMA OthersLeaveProfiles ==
  ASSUME [Next]_vars, ~Profiles
  PROVE  UNCHANGED profileVars
<1>1. CASE Registrations \/ Market \/ Reads
  BY <1>1 DEF Registrations, Market, Reads
<1>2. CASE Shop \/ Learn \/ LookUp \/ SearchLiterature \/ Usage \/ Flushes \/ Reports
  <2>1. UNCHANGED memberVars
    BY <1>2 DEF Shop, Learn, LookUp, SearchLiterature, Usage, Flushes, Reports
  <2> QED
    BY <2>1 DEF memberVars
<1>3. CASE \E r \in Replicas : JobStep(r) \/ JobFault(r)
  BY <1>3 DEF JobStep, JobFault
<1>4. CASE UNCHANGED vars
  BY <1>4 DEF vars, profileVars
<1> QED
  BY <1>1, <1>2, <1>3, <1>4 DEF Next

LEMMA DeskInvNext == DeskInv /\ [Next]_vars => DeskInv'
<1> SUFFICES ASSUME DeskInv, [Next]_vars PROVE DeskInv'
  OBVIOUS
<1>1. CASE Profiles
  <2>1. PICK d \in Desks, u \in Ids : DeskBegin(d, u) \/ PageInquiry(u) \/ DeskStep(d)
    BY <1>1, FaultAssumption DEF Profiles, Registered, Joined
  <2> QED
    BY <2>1, DeskBeginKeeps, PageInquiryKeeps, DeskStepKeeps
<1>2. CASE ~Profiles
  <2>1. UNCHANGED <<invoices, inquiries, password, desk, disturbed>>
    BY <1>2, OthersLeaveProfiles DEF profileVars
  <2> QED
    BY <2>1 DEF DeskInv, ProfileTypeOK, OneInquiry, Undisturbed, Active, Concerns
<1> QED
  BY <1>1, <1>2

\* However many members, configurations and requests: as long as a member's requests come
\* one after another, he has one default configuration at most, his team submits one inquiry
\* at most, and the password a change was admitted with is the one it replaces.
THEOREM DeskUndisturbed == Spec => []UndisturbedDesk
BY DeskInvInit, DeskInvNext, DeskInvImplies, PTL DEF Spec
=============================================================================
