----------------------------- MODULE MCMembers -----------------------------
(* Three identities, three tiers, two of everything that runs at a time.     *)
EXTENDS Members, TLC

CONSTANTS boss, ann, bob, d1, d2, d3

MCIds == {boss, ann, bob}

MCDomains == {d1, d2, d3}

\* Tiers of growing rank; the second wants an invitee, the third two and an order.
MCRank == 1 :> 10 @@ 2 :> 20 @@ 3 :> 30
MCMinInvites == 1 :> 0 @@ 2 :> 1 @@ 3 :> 2
MCMinPaid == 1 :> 0 @@ 2 :> 0 @@ 3 :> 1

Row(nr, parent, domain) == [nr |-> nr, parent |-> parent, tier |-> 1, domain |-> domain]

Nobody == [i \in Ids |-> None]
Boss == boss :> Row(1, None, d1) @@ Nobody
BossAndAnn == ann :> Row(2, boss, d2) @@ Boss
Everyone == bob :> Row(3, boss, d3) @@ BossAndAnn

\* One product in each of four categories, the last one without a page.
MCProducts == {"OAI-GO-M", "ANT-PRO-M", "CUR-PRO-M", "NEW"}
MCShelf == "OAI-GO-M" :> 1 @@ "ANT-PRO-M" :> 2 @@ "CUR-PRO-M" :> 3 @@ "NEW" :> 4

\* Two topics and two articles; companies of every closeness to the keyword.
MCCompanies == {"A", "B", "C", "D"}
MCCloseness == "A" :> 1 @@ "B" :> 2 @@ "C" :> 3 @@ "D" :> 4

\* Two papers of one archive from before 2007, one later, and one without a title.
MCPapers == {"w", "x", "y", "z"}
MCArxivId ==
  LET id(archive, number) == [archive |-> archive, number |-> number]
  IN "w" :> id("hep-th", "9901001") @@ "x" :> id("hep-th", "9901002")
       @@ "y" :> id("", "2401.00001") @@ "z" :> id("", "2401.00002")

NoTraffic == [registrations |-> 0, visits |-> {}, readings |-> 0, changes |-> 0, requests |-> 0,
              orders |-> 0, edits |-> 0, offers |-> {}, lists |-> {}, sizes |-> {},
              views |-> 0, shelving |-> 0, pages |-> {}, tracked |-> FALSE]

NoRows == [t \in Tables |-> 0]

\* With no tier enabled the job does nothing.
Quiet(members, traffic) ==
  [members |-> members, tiers |-> {}, rows |-> NoRows, traffic |-> traffic]

\* On the domain of a member, on one that is nobody's, on an official root and on
\* one that is not configured.
Registering ==
  LET two == [NoTraffic EXCEPT !.registrations = 2, !.visits = {ann, bob} \X (Hosts \ {d3})]
  IN
  {Quiet(Nobody, two), Quiet(Boss, two)}

\* An invitee registers and an order is completed while the job runs; or tiers are edited
\* and an order is completed.
Levels ==
  LET day(members, traffic) ==
        [members |-> members, tiers |-> Tiers, rows |-> NoRows,
         traffic |-> [traffic EXCEPT !.orders = 1]]
  IN
  {day(BossAndAnn, [NoTraffic EXCEPT !.registrations = 1, !.visits = {<<bob, d1>>}]),
   day(Everyone, [NoTraffic EXCEPT !.edits = 1, !.offers = {{1}}])}

\* The inbox with pages of two; tables with more rows than a page has by default, and
\* than the largest page has.
Reading2 ==
  LET reads(kind, sizes, n) ==
        [Quiet(Boss, [NoTraffic EXCEPT !.readings = 2, !.changes = 3, !.lists = {kind},
                                       !.sizes = sizes])
          EXCEPT !.rows = [t \in Tables |-> IF t = kind THEN n ELSE 0]]
  IN
  {reads("messages", {0, 2}, 0), reads("team", {}, 51)}
    \cup {reads(t, {0, 101}, n) : t \in Tables \ {"team"}, n \in {0, 20, 101}}

Editing == {Quiet(Boss, [NoTraffic EXCEPT !.requests = 4])}

\* A page is looked at, twice or by two, while operators edit it: an article has to change
\* its topic and two topics have to be hidden to be in between under one that it has
\* neither before nor after.
Shopping ==
  {Quiet(Nobody, [NoTraffic EXCEPT !.views = 2, !.pages = {which},
                                   !.shelving = IF which = "tutorials" THEN 3 ELSE 2]) :
     which \in {"catalogue", "tutorials", "companies"}}

Searching ==
  {Quiet(Nobody, [NoTraffic EXCEPT !.views = 1, !.pages = {"papers"}, !.sizes = {-1, 2, 101}])}

Clicking == {Quiet(Nobody, [NoTraffic EXCEPT !.tracked = TRUE])}

MCDays == Registering \cup Levels \cup Reading2 \cup Editing \cup Shopping
            \cup Searching \cup Clicking
=============================================================================
