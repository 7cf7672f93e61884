------------------------------ MODULE Literature ------------------------------
(***************************************************************************)
(* The literature search: a query and a limit are passed on to one of      *)
(* three providers, and the papers it answers become hits with a key.      *)
(***************************************************************************)
EXTENDS Integers, SequencesExt

CONSTANTS
  Papers,     \* what the providers know
  Titled,     \* those that come with a title
  ArxivId,    \* a paper's identifier at arXiv: its archive, "" since 2007, and number,
              \* which is no name of an archive
  MaxPapers,  \* bound: papers in an answer
  Searches    \* requests at a time

ASSUME LiteratureAssumption ==
  /\ Titled \subseteq Papers /\ MaxPapers \in Nat
  /\ ArxivId \in [Papers -> [archive : STRING, number : STRING]]
  /\ \A p, q \in Papers : ArxivId[p] = ArxivId[q] => p = q
  /\ \A p, q \in Papers : ArxivId[p].archive # ArxivId[q].number

VARIABLE searches  \* the requests

Sources == {"arxiv", "openalex", "semantic_scholar"}

\* A request: where it is, whom it asks for how many papers, and the papers that the
\* provider has answered.
Search == [at : {"idle", "asked", "answered", "failed"}, source : Sources, limit : Nat,
           rows : Seq(Papers)]

LiteratureTypeOK == searches \in [Searches -> Search]

NoSearch == [at |-> "idle", source |-> "arxiv", limit |-> 0, rows |-> <<>>]

LiteratureInit == searches = [k \in Searches |-> NoSearch]

\* normalizeLiteratureQuery.
NormalLimit(limit) == IF limit <= 0 THEN 20 ELSE IF limit > 100 THEN 100 ELSE limit

\* A query of blanks alone is refused.
SearchPapers(k, source, blank, limit) ==
  /\ searches[k].at # "asked"
  /\ searches' = [searches EXCEPT ![k] =
       [NoSearch EXCEPT !.at = IF blank THEN "failed" ELSE "asked", !.source = source,
                        !.limit = IF blank THEN 0 ELSE NormalLimit(limit)]]

\* The provider answers no more papers than it was asked for.
ProviderAnswers(k) ==
  /\ searches[k].at = "asked"
  /\ \E n \in 0 .. MaxPapers : n <= searches[k].limit /\
       \E rows \in [1 .. n -> Papers] :
         searches' = [searches EXCEPT ![k].at = "answered", ![k].rows = rows]

\* No connection, no time left, another status than 200, or no JSON or XML.
ProviderFails(k) ==
  /\ searches[k].at = "asked"
  /\ searches' = [searches EXCEPT ![k].at = "failed"]

SearchStep(k) == ProviderAnswers(k) \/ ProviderFails(k)

-----------------------------------------------------------------------------
(* What becomes of the rows. *)

Hit(source, key, p) == [key |-> <<source, key>>, paper |-> p]

\* idFromURLRe takes what is between "abs/" and the next slash.
ArxivPaper(p) ==
  Hit("arxiv", IF ArxivId[p].archive # "" THEN ArxivId[p].archive ELSE ArxivId[p].number, p)

\* FAULT: an entry without a title ends the loop.
ArxivHits_Break(rows) ==
  LET kept == {n \in DOMAIN rows : \A i \in 1 .. n : rows[i] \in Titled}
  IN [n \in kept |-> ArxivPaper(rows[n])]

\* Entries without a title are left out.
ArxivHits(rows) ==
  LET hits[n \in 0 .. Len(rows)] ==
        IF n = 0 THEN <<>>
        ELSE IF rows[n] \in Titled THEN Append(hits[n - 1], ArxivPaper(rows[n]))
        ELSE hits[n - 1]
  IN hits[Len(rows)]

OpenAlexHits(rows) == [i \in DOMAIN rows |-> Hit("openalex", rows[i], rows[i])]

SemanticScholarHits(rows) == [i \in DOMAIN rows |-> Hit("s2", rows[i], rows[i])]

\* What the request is answered.
Hits(s) ==
  CASE s.source = "arxiv" -> ArxivHits(s.rows)
    [] s.source = "openalex" -> OpenAlexHits(s.rows)
    [] s.source = "semantic_scholar" -> SemanticScholarHits(s.rows)

-----------------------------------------------------------------------------
(* Properties. *)

\* Papers whose identifier at arXiv is of the old style and of one archive.
OldKin(p, q) == ArxivId[p].archive # "" /\ ArxivId[p].archive = ArxivId[q].archive

WithTitle(papers) == {i \in DOMAIN papers : papers[i] \in Titled}

\* The papers with a title are the rows with a title, in their order.
SameTitles(rows, papers) ==
  \E place \in [WithTitle(rows) -> WithTitle(papers)] :
    /\ \A i \in WithTitle(rows) : papers[place[i]] = rows[i]
    /\ \A i, j \in WithTitle(rows) : i < j => place[i] < place[j]
    /\ WithTitle(papers) = {place[i] : i \in WithTitle(rows)}

\* Every paper with a title that the provider has found is a hit, in its order, and a
\* hit is one that was found; a provider is never asked for nothing or for more than
\* it gives; and a key names one paper, but for arXiv's identifiers of the old style,
\* which lose their number.
LiteratureTrue ==
  \A k \in Searches :
    LET s == searches[k]
        hits == Hits(s)
        papers == [i \in DOMAIN hits |-> hits[i].paper]
    IN
    /\ s.at \in {"asked", "answered"} => s.limit \in 1 .. 100
    /\ s.at = "answered" =>
         /\ SameTitles(s.rows, papers)
         /\ ToSet(papers) \subseteq ToSet(s.rows)
         /\ \A g, h \in ToSet(hits) :
              g.key = h.key => g.paper = h.paper
                                 \/ (s.source = "arxiv" /\ OldKin(g.paper, h.paper))
=============================================================================
