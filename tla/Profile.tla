------------------------------- MODULE Profile -------------------------------
(***************************************************************************)
(* A member's login and what he changes about himself: his invoice         *)
(* configurations, of which one is the default, the inquiry of his         *)
(* enterprise, his password.  Each request looks at the rows and writes    *)
(* them in later statements, with no transaction, lock or key between.     *)
(***************************************************************************)
EXTENDS Faults

CONSTANTS
  Rows,       \* ids of user_invoice_config
  Passwords,
  Desks       \* requests at a time

ASSUME ProfileAssumption == None \notin Rows /\ Passwords # {}

VARIABLES
  invoices,   \* per member and row: is_default, or no row
  inquiries,  \* per member: inquiries of his team, and of the enterprise page
  password,
  desk,       \* the requests under way
  disturbed   \* member and table: two requests overlapped, or a clear was lost

profileVars == <<invoices, inquiries, password, desk, disturbed>>

\* A request; row is None for one that creates, old and new are passwords.
Request == [at : {"idle", "clear", "write"}, user : Ids,
            op : {"create", "update", "set", "inquiry", "password", "login"},
            row : Rows \cup {None}, default : BOOLEAN,
            old : Passwords, new : Passwords]

Table(op) ==
  CASE op \in {"create", "update", "set"} -> "invoice"
    [] op = "inquiry" -> "inquiry"
    [] op \in {"password", "login"} -> "password"

ProfileTypeOK ==
  /\ invoices \in [Ids -> [Rows -> {"none", "plain", "default"}]]
  /\ inquiries \in [Ids -> [team : Nat, page : Nat]]
  /\ password \in [Ids -> Passwords]
  /\ desk \in [Desks -> Request]
  /\ disturbed \subseteq Ids \X {"invoice", "inquiry", "password"}

AnyPassword == CHOOSE p \in Passwords : TRUE

NoRequest == [at |-> "idle", user |-> CHOOSE u \in Ids : TRUE, op |-> "create",
              row |-> None, default |-> FALSE, old |-> AnyPassword, new |-> AnyPassword]

ProfileInit ==
  /\ invoices = [u \in Ids |-> [i \in Rows |-> "none"]]
  /\ inquiries = [u \in Ids |-> [team |-> 0, page |-> 0]]
  /\ password = [u \in Ids |-> AnyPassword]
  /\ desk = [d \in Desks |-> NoRequest]
  /\ disturbed = {}

\* Bound: every row that is being created has an id.
Room(u) ==
  Cardinality({i \in Rows : invoices[u][i] = "none"})
    > Cardinality({d \in Desks : desk[d].at # "idle" /\ desk[d].user = u
                                /\ Table(desk[d].op) = "invoice" /\ desk[d].row = None})

Defaults(u) == {i \in Rows : invoices[u][i] = "default"}

\* The request goes on with its writes; it overlaps those on the same rows.
Admit(d, request) ==
  /\ desk[d].at = "idle"
  /\ desk' = [desk EXCEPT ![d] = request]
  /\ disturbed' = IF \E e \in Desks : /\ desk[e].at # "idle"
                                      /\ desk[e].user = request.user
                                      /\ Table(desk[e].op) = Table(request.op)
                  THEN disturbed \cup {<<request.user, Table(request.op)>>}
                  ELSE disturbed

\* Create and Update: a row that is to be the default clears the others first.
SaveInvoice(d, u, row, default) ==
  /\ IF row = None THEN Room(u) ELSE invoices[u][row] # "none"
  /\ Admit(d, [NoRequest EXCEPT !.at = IF default THEN "clear" ELSE "write",
                                !.user = u, !.op = IF row = None THEN "create" ELSE "update",
                                !.row = row, !.default = default])
  /\ UNCHANGED <<invoices, inquiries, password>> /\ NoFault

\* SetDefault, of a row that is not.
SetDefault(d, u, row) ==
  /\ invoices[u][row] = "plain"
  /\ Admit(d, [NoRequest EXCEPT !.at = "clear", !.user = u, !.op = "set",
                                !.row = row, !.default = TRUE])
  /\ UNCHANGED <<invoices, inquiries, password>> /\ NoFault

\* FAULT: the row itself is cleared, the others keep theirs.
Cleared_Itself(u, row) ==
  [invoices[u] EXCEPT ![row] = IF @ = "default" THEN "plain" ELSE @]

\* ClearDefaultForUser, of all rows but one.
Cleared(u, row) ==
  [i \in Rows |-> IF i # row /\ invoices[u][i] = "default" THEN "plain"
                  ELSE invoices[u][i]]

Clear(d) ==
  /\ desk[d].at = "clear"
  /\ invoices' = [invoices EXCEPT ![desk[d].user] = Cleared(desk[d].user, desk[d].row)]
  /\ desk' = [desk EXCEPT ![d].at = "write"]
  /\ UNCHANGED <<inquiries, password, disturbed>> /\ NoFault

\* SetDefault gives up; Create and Update do not look at the error.
ClearFails(d) ==
  /\ desk[d].at = "clear"
  /\ desk' = [desk EXCEPT ![d].at = IF desk[d].op = "set" THEN "idle" ELSE "write"]
  /\ disturbed' = IF desk[d].op = "set" THEN disturbed
                  ELSE disturbed \cup {<<desk[d].user, "invoice">>}
  /\ UNCHANGED <<invoices, inquiries, password>> /\ Fault

\* The insert or the update; the row of an update has is_default as requested.
WriteInvoice(d) ==
  /\ desk[d].at = "write" /\ Table(desk[d].op) = "invoice"
  /\ \E i \in Rows :
       /\ IF desk[d].row = None THEN invoices[desk[d].user][i] = "none" ELSE i = desk[d].row
       /\ invoices' = [invoices EXCEPT
            ![desk[d].user][i] = IF desk[d].default THEN "default" ELSE "plain"]
  /\ desk' = [desk EXCEPT ![d].at = "idle"]
  /\ UNCHANGED <<inquiries, password, disturbed>> /\ NoFault

\* FindLatestByOwnerUserID.
HasInquiry(u) == inquiries[u].team + inquiries[u].page > 0

\* SubmitEnterpriseInquiry of a member who has none.
SubmitInquiry(d, u) ==
  /\ ~HasInquiry(u)
  /\ Admit(d, [NoRequest EXCEPT !.at = "write", !.user = u, !.op = "inquiry"])
  /\ UNCHANGED <<invoices, inquiries, password>> /\ NoFault

WriteInquiry(d) ==
  /\ desk[d].at = "write" /\ desk[d].op = "inquiry"
  /\ inquiries' = [inquiries EXCEPT ![desk[d].user].team = @ + 1]
  /\ desk' = [desk EXCEPT ![d].at = "idle"]
  /\ UNCHANGED <<invoices, password, disturbed>> /\ NoFault

\* SubmitInquiry of the enterprise page inserts without asking; bound: once.
PageInquiry(u) ==
  /\ inquiries[u].page = 0
  /\ inquiries' = [inquiries EXCEPT ![u].page = 1]
  /\ UNCHANGED <<invoices, password, desk, disturbed>> /\ NoFault

\* The old password is right, and the new one differs.
Accepts(u, old, new) == old = password[u] /\ old # new

ChangePassword(d, u, old, new) ==
  /\ Accepts(u, old, new)
  /\ Admit(d, [NoRequest EXCEPT !.at = "write", !.user = u, !.op = "password",
                                !.old = old, !.new = new])
  /\ UNCHANGED <<invoices, inquiries, password>> /\ NoFault

WritePassword(d) ==
  /\ desk[d].at = "write" /\ desk[d].op = "password"
  /\ password' = [password EXCEPT ![desk[d].user] = desk[d].new]
  /\ desk' = [desk EXCEPT ![d].at = "idle"]
  /\ UNCHANGED <<invoices, inquiries, disturbed>> /\ NoFault

\* Login with the right password; who has another is refused.
Login(d, u) ==
  /\ Admit(d, [NoRequest EXCEPT !.at = "write", !.user = u, !.op = "login",
                                !.old = password[u], !.new = password[u]])
  /\ UNCHANGED <<invoices, inquiries, password>> /\ NoFault

\* last_login_at is written, or is not, and the token is issued.
LoginAnswers(d) ==
  /\ desk[d].at = "write" /\ desk[d].op = "login"
  /\ desk' = [desk EXCEPT ![d].at = "idle"]
  /\ UNCHANGED <<invoices, inquiries, password, disturbed>> /\ NoFault

\* A write fails, or the process dies.
RequestFails(d) ==
  /\ desk[d].at # "idle"
  /\ desk' = [desk EXCEPT ![d].at = "idle"]
  /\ UNCHANGED <<invoices, inquiries, password, disturbed>> /\ Fault

DeskBegin(d, u) ==
  \/ \E row \in Rows \cup {None}, default \in BOOLEAN : SaveInvoice(d, u, row, default)
  \/ \E row \in Rows : SetDefault(d, u, row)
  \/ SubmitInquiry(d, u)
  \/ \E old, new \in Passwords : ChangePassword(d, u, old, new)
  \/ Login(d, u)

DeskStep(d) == \/ Clear(d) \/ ClearFails(d) \/ WriteInvoice(d)
               \/ WriteInquiry(d) \/ WritePassword(d) \/ LoginAnswers(d)
               \/ RequestFails(d)

-----------------------------------------------------------------------------
(* Properties. *)

\* A member has one default configuration at most, unless two requests for his
\* configurations overlapped or a clear was lost.
OneDefault ==
  \A u \in Ids : <<u, "invoice">> \notin disturbed => Cardinality(Defaults(u)) <= 1

\* A member's team submits one inquiry at most, unless two requests for it overlapped.
OneInquiry ==
  \A u \in Ids : <<u, "inquiry">> \notin disturbed => inquiries[u].team <= 1

\* The password a change or a login was admitted with is still the member's when it is
\* replaced or the token issued, unless another change overlapped.
OldPasswordHolds ==
  \A d \in Desks :
    /\ desk[d].at = "write" /\ Table(desk[d].op) = "password"
    /\ <<desk[d].user, "password">> \notin disturbed
    => desk[d].old = password[desk[d].user]

\* As long as a member's requests come one after another, what must be single is single
\* and what a request has looked at still holds when it writes.
UndisturbedDesk == OneDefault /\ OneInquiry /\ OldPasswordHolds
=============================================================================
