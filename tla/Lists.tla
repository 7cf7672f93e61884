------------------------------- MODULE Lists -------------------------------
(***************************************************************************)
(* The lists a member reads, newest row first.  A page is two statements,  *)
(* the count and the rows, and a client asks for one page after another.   *)
(* The lists of invitees and team members are asked for in one request.    *)
(***************************************************************************)
EXTENDS Inbox

CONSTANT Readers  \* clients that read a list

\* Tables that only grow while they are read; the member's other lists are his inbox.
Tables == {"orders", "flows", "invoices", "records", "withdrawals", "invitees", "team"}

Kinds == Tables \cup {"messages", "unread"}

WholeLists == {"invitees", "team"}

VARIABLES
  ledger,   \* per member how many rows of each table are his
  reading   \* the clients

listVars == <<ledger, reading>>

\* A reading: the list and the limit asked for, the next of its statements (0 when
\* there is none), the page and the total counted; the rows there were when it began
\* and at its last statement, those it has shown, and whether the list changed between
\* the statements of a page or lost rows between any two.
Reading == [user : Ids, kind : Kinds, limit : Nat, statement : 0 .. 2, page : Nat,
            total : Nat, there : SUBSET Nat, last : SUBSET Nat, shown : SUBSET Nat,
            shifted : BOOLEAN]

ListsTypeOK ==
  /\ ledger \in [Ids -> [Tables -> Nat]]
  /\ reading \in [Readers -> Reading]

\* A reading that is about to execute a statement of its first page, and has seen nothing.
Asking(u, kind, limit, statement, rows) ==
  [user |-> u, kind |-> kind, limit |-> limit, statement |-> statement, page |-> 1,
   total |-> 0, there |-> rows, last |-> rows, shown |-> {}, shifted |-> FALSE]

NoReading == Asking(CHOOSE u \in Ids : TRUE, "orders", 0, 0, {})

\* rows: the rows every member has in a table at first.
ListsInit(rows) ==
  /\ ledger = [u \in Ids |-> rows]
  /\ reading = [c \in Readers |-> NoReading]

\* The rows a list is made of, by id.
RowsOf(u, kind) ==
  CASE kind = "messages" -> DOMAIN inbox[u]
    [] kind = "unread" -> Unread(u)
    [] OTHER -> 1 .. ledger[u][kind]

\* FAULT: the members are counted before they are listed.
Statements_CountFirst(kind) == IF kind = "team" THEN <<"rows">> ELSE <<"count", "rows">>

\* What a request asks the database, in order.
Statements(kind) ==
  CASE kind = "team" -> <<"rows">>
    [] kind = "invitees" -> <<"rows", "count">>
    [] OTHER -> <<"count", "rows">>

Begin(c, u, kind, limit) ==
  /\ reading[c].statement = 0
  /\ reading' = [reading EXCEPT ![c] = Asking(u, kind, limit, 1, RowsOf(u, kind))]

\* What a service makes of the page_size of a request.
PageSize(requested, default) ==
  IF requested < 1 THEN default ELSE IF requested > 100 THEN 100 ELSE requested

ListOrders(c, u, size) == Begin(c, u, "orders", PageSize(size, 10))

ListWalletFlows(c, u, size) == Begin(c, u, "flows", PageSize(size, 9))

ListInvoices(c, u, size) == Begin(c, u, "invoices", PageSize(size, 9))

RebatePage(size) == PageSize(size, 9)

ListCommissionRecords(c, u, size) == Begin(c, u, "records", RebatePage(size))

ListWithdrawals(c, u, size) == Begin(c, u, "withdrawals", RebatePage(size))

ListMessages(c, u, unread, size) ==
  Begin(c, u, IF unread THEN "unread" ELSE "messages", PageSize(size, 20))

ListMembers(c, u) == Begin(c, u, "invitees", 500)

ListTeamMembers(c, u) == Begin(c, u, "team", 500)

\* What a repository makes of a limit: one above its cap counts as none.
Clamped(limit, cap, default) == IF limit <= 0 \/ limit > cap THEN default ELSE limit

OrdersLimit(n) == Clamped(n, 100, 10)
FlowsLimit(n) == Clamped(n, 100, 9)
InvoicesLimit(n) == Clamped(n, 100, 9)
RecordsLimit(n) == Clamped(n, 100, 20)
WithdrawalsLimit(n) == Clamped(n, 100, 20)
InviteesLimit(n) == Clamped(n, 100, 20)
TeamLimit(n) == Clamped(n, 200, 50)

Limit(c) ==
  LET n == c.limit IN
  CASE c.kind = "orders" -> OrdersLimit(n)
    [] c.kind = "flows" -> FlowsLimit(n)
    [] c.kind = "invoices" -> InvoicesLimit(n)
    [] c.kind = "records" -> RecordsLimit(n)
    [] c.kind = "withdrawals" -> WithdrawalsLimit(n)
    [] c.kind = "invitees" -> InviteesLimit(n)
    [] c.kind = "team" -> TeamLimit(n)
    [] OTHER -> n

\* FAULT: pages are counted from zero in the query and from one by the client.
Offset_FromZero(c) == c.page * c.limit

Offset(c) == (c.page - 1) * c.limit

\* Ordered by id, descending: as many as there are newer rows are passed over.
Page(c) ==
  LET rows == RowsOf(c.user, c.kind)
      Newer(i) == Cardinality({j \in rows : j > i})
  IN {i \in rows : Newer(i) >= Offset(c) /\ Newer(i) < Offset(c) + Limit(c)}

\* After its last statement a request is answered; the client asks for the next page
\* until the total is covered.
Advanced(c) ==
  IF c.statement < Len(Statements(c.kind)) THEN [c EXCEPT !.statement = @ + 1]
  ELSE IF c.kind \in WholeLists \/ c.page * c.limit >= c.total THEN [c EXCEPT !.statement = 0]
  ELSE [c EXCEPT !.statement = 1, !.page = @ + 1]

\* One statement of a request.
ReadingStep(c) ==
  /\ reading[c].statement # 0
  /\ LET r == reading[c]
         rows == RowsOf(r.user, r.kind)
         gone == ~(r.last \subseteq rows)
     IN reading' = [reading EXCEPT ![c] = Advanced(
          IF Statements(r.kind)[r.statement] = "count"
          THEN [r EXCEPT !.total = Cardinality(rows), !.last = rows, !.shifted = @ \/ gone]
          ELSE [r EXCEPT !.shown = @ \cup Page(r), !.last = rows,
                         !.shifted = @ \/ gone \/ r.total # Cardinality(rows)])]

\* Another component writes a row of u's.
Grow(u, table) == ledger' = [ledger EXCEPT ![u][table] = @ + 1]

-----------------------------------------------------------------------------
(* Properties. *)

\* A client that has paged through a list has been shown every row that was in it
\* when it began, however many arrived meanwhile; unless one arrived between the two
\* statements of a page, or messages left a list of the unread.
WholeListRead ==
  \A c \in Readers :
    LET r == reading[c] IN
    r.kind \notin WholeLists /\ r.statement = 0 /\ ~r.shifted => r.there \subseteq r.shown

\* The list of invitees is cut short (see InviteesLimit), but never silently: it is
\* complete, or the total answered beside it is larger than the list, and never smaller,
\* whoever registers between its two statements.
MembersListHonest ==
  \A c \in Readers :
    LET r == reading[c] IN
    r.kind = "invitees" /\ r.statement = 0 =>
      /\ Cardinality(r.shown) <= r.total
      /\ r.there \subseteq r.shown \/ Cardinality(r.shown) < r.total
=============================================================================
