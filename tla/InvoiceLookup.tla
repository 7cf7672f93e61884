---------------------------- MODULE InvoiceLookup ----------------------------
(***************************************************************************)
(* Looking up a company's invoice data by a keyword: one provider is asked *)
(* and, when it fails or has nothing, another; the rows of the one that    *)
(* answered become a match and candidates.                                 *)
(***************************************************************************)
EXTENDS Integers, Sequences, FiniteSetsExt

CONSTANTS
  Companies,  \* pairs of title and tax number
  Closeness,  \* how each answers the keyword: 1 its tax number, 2 its title, 3 one
              \* of keyword and title contains the other, 4 neither
  MaxRows,    \* bound: rows a provider answers
  Lookups     \* requests at a time

ASSUME InvoiceLookupAssumption == Closeness \in [Companies -> 1 .. 4] /\ MaxRows \in Nat

VARIABLE lookups  \* the requests

\* A request: where it is, which providers have not yet failed it or answered (history), the
\* rows it was answered, what it answers.
Enquiry == [at : {"idle", "chengshu", "mgtv", "answered"},
            unasked : SUBSET {"chengshu", "mgtv"}, rows : Seq(Companies),
            match : Companies \cup {"none"}, candidates : SUBSET Companies]

LookupTypeOK == lookups \in [Lookups -> Enquiry]

NoEnquiry == [at |-> "idle", unasked |-> {}, rows |-> <<>>, match |-> "none", candidates |-> {}]

LookupInit == lookups = [k \in Lookups |-> NoEnquiry]

RowSet(rows) == {rows[i] : i \in DOMAIN rows}

\* pickBestMatch goes through the rows once for each kind of match.
PickBestMatch(rows) ==
  LET closest == Min({Closeness[c] : c \in RowSet(rows)})
  IN rows[Min({i \in DOMAIN rows : Closeness[rows[i]] = closest})]

\* The rows that differ from the match in title or tax number.
Candidates(rows) == RowSet(rows) \ {PickBestMatch(rows)}

\* The client: the first provider is asked if there is a key for it.
AskFirst(k) ==
  /\ lookups[k].at \in {"idle", "answered"}
  /\ \E keyed \in BOOLEAN :
       lookups' = [lookups EXCEPT ![k] =
         [NoEnquiry EXCEPT !.at = IF keyed THEN "chengshu" ELSE "mgtv",
                           !.unasked = {"mgtv"} \cup (IF keyed THEN {"chengshu"} ELSE {})]]

Unasked(k, provider) == lookups[k].unasked \ {provider}

\* Lookup, of the service, with the rows of the client, which a provider gave last.
Answer(k, provider, rows) ==
  lookups' = [lookups EXCEPT ![k] =
    IF rows = <<>> THEN [NoEnquiry EXCEPT !.at = "answered", !.unasked = Unasked(k, provider)]
    ELSE [at |-> "answered", unasked |-> Unasked(k, provider), rows |-> rows,
          match |-> PickBestMatch(rows), candidates |-> Candidates(rows)]]

\* FAULT: an answer without rows is an answer, too.
LookupChengshu_NoRows(k) ==
  /\ lookups[k].at = "chengshu"
  /\ \/ \E c \in Companies : Answer(k, "chengshu", <<c>>)
     \/ Answer(k, "chengshu", <<>>)
     \/ lookups' = [lookups EXCEPT ![k].at = "mgtv", ![k].unasked = Unasked(k, "chengshu")]

\* It has one company, or none, or fails: then the other one is asked.
LookupChengshu(k) ==
  /\ lookups[k].at = "chengshu"
  /\ \/ \E c \in Companies : Answer(k, "chengshu", <<c>>)
     \/ lookups' = [lookups EXCEPT ![k].at = "mgtv", ![k].unasked = Unasked(k, "chengshu")]

\* It has some, maybe one twice; no rows and a failure are the same to the caller.
LookupMgtv(k) ==
  /\ lookups[k].at = "mgtv"
  /\ \E n \in 0 .. MaxRows : \E rows \in [1 .. n -> Companies] : Answer(k, "mgtv", rows)

LookupStep(k) == LookupChengshu(k) \/ LookupMgtv(k)

-----------------------------------------------------------------------------
(* Properties. *)

\* No company that was found gets lost: each is the match or a candidate, once; none
\* answers the keyword better than the match; and nothing is found only if every provider
\* there is a key for had nothing or failed.
LookupHonest ==
  \A k \in Lookups :
    LET t == lookups[k] IN
      t.at = "answered" =>
        /\ {t.match} \cup t.candidates = (IF t.rows = <<>> THEN {"none"} ELSE RowSet(t.rows))
        /\ t.match \notin t.candidates
        /\ \A c \in t.candidates : Closeness[t.match] <= Closeness[c]
        /\ t.rows = <<>> => t.unasked = {}
=============================================================================
