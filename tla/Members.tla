------------------------------ MODULE Members ------------------------------
(***************************************************************************)
(* The members' side of the mall: visitors register, the bot raises their  *)
(* levels and tells them, they read their lists, edit their profiles and   *)
(* look at the catalogue, the tutorials and companies' invoice data; all   *)
(* on the same users and with the same faults.                             *)
(***************************************************************************)
EXTENDS VipLevelSync, Lists, Profile, Tracking, Catalogue, Tutorials, InvoiceLookup,
        Literature

CONSTANT Days  \* bounds: for each behaviour who is a member at first, which tiers are
               \* enabled, and how much of what is to come; nobody has been raised yet

\* Requests and events that are to come: how many of each kind, who may register
\* where, what the tiers may be changed to, which lists are read with which page_size,
\* which pages are looked at, and whether usage is tracked.
Traffic == [registrations : Nat, visits : SUBSET (Ids \X Hosts), readings : Nat, changes : Nat,
            requests : Nat, orders : Nat, edits : Nat, offers : SUBSET SUBSET Tiers,
            lists : SUBSET Kinds, sizes : SUBSET Int, views : Nat, shelving : Nat,
            pages : SUBSET {"catalogue", "tutorials", "companies", "papers"},
            tracked : BOOLEAN]

ASSUME DaysAssumption ==
  \A day \in Days :
    /\ day.members \in [Ids -> User \cup {None}] /\ Numbered(day.members) /\ Forest(day.members)
    /\ \A u \in Joined(day.members) : ~Raised(day.members[u])
    /\ day.tiers \subseteq Tiers
    /\ day.rows \in [Tables -> Nat] /\ day.traffic \in Traffic

VARIABLE coming   \* what of the traffic is still to come

pageVars == <<catalogueVars, tutorialVars, lookups, searches>>

siteVars == <<pageVars, trackingVars>>

memberVars == <<registrationVars, inbox, listVars, syncVars, profileVars, failures>>

vars == <<users, coupons, register, inbox, ledger, reading, enabled, paid, sync, silent,
          invoices, inquiries, password, desk, disturbed,
          pageVars, trackingVars, failures, coming>>

TypeOK ==
  /\ RegistrationTypeOK /\ InboxTypeOK /\ ListsTypeOK /\ SyncTypeOK /\ ProfileTypeOK
  /\ CatalogueTypeOK /\ TutorialsTypeOK /\ LookupTypeOK /\ LiteratureTypeOK
  /\ TrackingTypeOK
  /\ silent \subseteq Ids
  /\ coming \in Traffic

Init ==
  \E day \in Days :
    /\ RegistrationInit(day.members) /\ InboxInit /\ ListsInit(day.rows)
    /\ SyncInit(day.tiers) /\ ProfileInit
    /\ CatalogueInit /\ TutorialsInit /\ LookupInit /\ LiteratureInit /\ TrackingInit
    /\ coming = day.traffic

\* One of a kind less to come.
Comes(kind) == coming[kind] > 0 /\ coming' = [coming EXCEPT ![kind] = @ - 1]

Registrations ==
  /\ \/ /\ Comes("registrations")
        /\ \E h \in Handlers, visit \in coming.visits : RegisterBegin(h, visit[1], visit[2])
     \/ coming' = coming /\ \E h \in Handlers : RegisterStep(h)
  /\ UNCHANGED <<inbox, listVars, syncVars, profileVars, siteVars>>

\* A replica goes on with the job.
JobStep(r) ==
  SyncStep(r) /\ UNCHANGED <<coupons, register, listVars, profileVars, siteVars, coming>>

JobFault(r) ==
  SyncFault(r) /\ UNCHANGED <<coupons, register, listVars, profileVars, siteVars, coming>>

\* What changes the levels the job works out.
Market ==
  /\ \/ Comes("orders") /\ \E u \in Ids : CompleteOrder(u)
     \/ Comes("edits") /\ \E tiers \in coming.offers : EditTiers(tiers)
  /\ UNCHANGED <<coupons, register, listVars, profileVars, siteVars>>

\* Another component tells a member something: the bot of module
\* SubscriptionLifecycle, a settled order, a transfer of commission.
Inform(u) == Len(inbox[u]) < MaxMessages /\ Deliver(u)

ReadBegin(c, u) ==
  \/ \E size \in coming.sizes :
       \/ "orders" \in coming.lists /\ ListOrders(c, u, size)
       \/ "flows" \in coming.lists /\ ListWalletFlows(c, u, size)
       \/ "invoices" \in coming.lists /\ ListInvoices(c, u, size)
       \/ "records" \in coming.lists /\ ListCommissionRecords(c, u, size)
       \/ "withdrawals" \in coming.lists /\ ListWithdrawals(c, u, size)
       \/ \E unread \in BOOLEAN : "messages" \in coming.lists /\ ListMessages(c, u, unread, size)
  \/ "invitees" \in coming.lists /\ ListMembers(c, u)
  \/ "team" \in coming.lists /\ ListTeamMembers(c, u)

ReadLists ==
  /\ \/ Comes("readings") /\ \E c \in Readers, u \in Registered : ReadBegin(c, u)
     \/ coming' = coming /\ \E c \in Readers : ReadingStep(c)
  /\ UNCHANGED <<inbox, ledger>>

\* What happens to a list while it is being read.
ListChanges ==
  /\ Comes("changes")
  /\ \E u \in Registered :
       \/ \E table \in Tables \cap coming.lists : Grow(u, table) /\ UNCHANGED inbox
       \/ "messages" \in coming.lists /\ (Inform(u) \/ Mark(u)) /\ UNCHANGED ledger
  /\ UNCHANGED reading

Reads ==
  /\ ReadLists \/ ListChanges
  /\ UNCHANGED <<registrationVars, syncVars, profileVars, siteVars, failures>>

Profiles ==
  /\ \/ /\ Comes("requests")
        /\ \E d \in Desks, u \in Registered : DeskBegin(d, u) \/ PageInquiry(u)
     \/ coming' = coming /\ \E d \in Desks : DeskStep(d)
  /\ UNCHANGED <<registrationVars, inbox, listVars, syncVars, siteVars>>

Shop ==
  /\ \/ Comes("views") /\ \E v \in Visitors : VisitBegin(v)
     \/ coming' = coming /\ \E v \in Visitors : VisitStep(v)
     \/ Comes("shelving") /\ EditShelf
  /\ "catalogue" \in coming.pages
  /\ UNCHANGED <<memberVars, tutorialVars, lookups, searches, trackingVars>>

Learn ==
  /\ \/ Comes("views") /\ \E r \in TutorialReaders, k \in Topics \cup {0} : ListTopics(r, k)
     \/ coming' = coming /\ \E r \in TutorialReaders : LessonStep(r)
     \/ Comes("shelving") /\ EditTutorials
  /\ "tutorials" \in coming.pages
  /\ UNCHANGED <<memberVars, catalogueVars, lookups, searches, trackingVars>>

LookUp ==
  /\ \/ Comes("views") /\ \E k \in Lookups : AskFirst(k)
     \/ coming' = coming /\ \E k \in Lookups : LookupStep(k)
  /\ "companies" \in coming.pages
  /\ UNCHANGED <<memberVars, catalogueVars, tutorialVars, searches, trackingVars>>

SearchLiterature ==
  /\ \/ /\ Comes("views")
        /\ \E k \in Searches, source \in Sources, blank \in BOOLEAN, limit \in coming.sizes :
             SearchPapers(k, source, blank, limit)
     \/ coming' = coming /\ \E k \in Searches : SearchStep(k)
  /\ "papers" \in coming.pages
  /\ UNCHANGED <<memberVars, catalogueVars, tutorialVars, lookups, trackingVars>>

Usage ==
  /\ coming.tracked /\ TrackingStep
  /\ UNCHANGED <<memberVars, pageVars, coming>>

Flushes == TimerFires /\ UNCHANGED <<memberVars, pageVars, coming>>

Reports == Report /\ UNCHANGED <<memberVars, pageVars, coming>>

Next ==
  \/ Registrations \/ Market \/ Reads \/ Profiles
  \/ Shop \/ Learn \/ LookUp \/ SearchLiterature \/ Usage \/ Flushes \/ Reports
  \/ \E r \in Replicas : JobStep(r) \/ JobFault(r)

Spec == Init /\ [][Next]_vars

\* The scheduler goes on running the job in every bot process, see EnabledTasksRun in
\* module Scheduler, and a run goes on until it ends; the browser fires the timers of
\* an open page, and a request that was sent is answered or fails.
FairSpec ==
  /\ Spec
  /\ \A r \in Replicas : WF_vars(JobStep(r))
  /\ WF_vars(Flushes) /\ WF_vars(Reports)

=============================================================================
