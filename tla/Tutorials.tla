------------------------------ MODULE Tutorials ------------------------------
(***************************************************************************)
(* The tutorials: a page lists the active topics, read first, and the      *)
(* published articles, read second, each with its topic; an article opened *)
(* from it is looked up anew, and then its topic.  Operators edit both.    *)
(***************************************************************************)
EXTENDS Integers

CONSTANTS
  Topics,    \* tutorial_category
  Articles,  \* tutorial_article, by slug
  TutorialReaders

ASSUME TutorialsAssumption == Topics \subseteq Nat \ {0} /\ Topics # {}

VARIABLES
  topics,    \* the active topics
  articles,  \* per article its topic and whether it is published
  tutorials  \* what the readers see

tutorialVars == <<topics, articles, tutorials>>

Article == [topic : Topics, published : BOOLEAN]

\* A reader: the topics read and the filter of the request (0 for none), what was there
\* when it began, what is listed, what of it was missed, and the article opened last.
\* Topic 0 is the empty name.
Lesson == [at : {"idle", "articles", "listed", "topic", "open"}, filter : Topics \cup {0},
           topics : SUBSET Topics, there : SUBSET (Articles \X (Topics \cup {0})),
           listed : SUBSET (Articles \X (Topics \cup {0})),
           missed : SUBSET (Articles \X (Topics \cup {0})),
           topic : Topics \cup {0}]

TutorialsTypeOK ==
  /\ topics \subseteq Topics
  /\ articles \in [Articles -> Article]
  /\ tutorials \in [TutorialReaders -> Lesson]

NoLesson == [at |-> "idle", filter |-> 0, topics |-> {}, there |-> {},
             listed |-> {}, missed |-> {}, topic |-> 0]

TutorialsInit ==
  /\ topics = Topics
  /\ articles = [a \in Articles |-> [topic |-> CHOOSE k \in Topics : TRUE, published |-> TRUE]]
  /\ tutorials = [r \in TutorialReaders |-> NoLesson]

\* ListPublished; a filter joins the active topics.
ListPublished(filter) ==
  {a \in Articles : articles[a].published
                    /\ (filter # 0 => articles[a].topic = filter /\ filter \in topics)}

\* mapArticleItem: the topic by its id, if it is among those read.
Named(a, read) == <<a, IF articles[a].topic \in read THEN articles[a].topic ELSE 0>>

\* What a request that read both at once would list.
Present(filter) == {Named(a, topics) : a \in ListPublished(filter)}

\* What of the rows is not listed; one without a topic may be listed under any.
Missed(rows, listed) ==
  {g \in rows : \A h \in listed : h[1] = g[1] => g[2] \notin {0, h[2]}}

ListTopics(r, filter) ==
  /\ tutorials[r].at \in {"idle", "listed", "open"}
  /\ tutorials' = [tutorials EXCEPT ![r] =
       [NoLesson EXCEPT !.at = "articles", !.filter = filter, !.topics = topics,
                        !.there = Present(filter)]]
  /\ UNCHANGED <<topics, articles>>

\* FAULT: an article whose topic was not read is left out, as a product is.
ListArticles_NamedOnly(r) ==
  /\ tutorials[r].at = "articles"
  /\ LET t == tutorials[r]
         listed == {Named(a, t.topics) :
                      a \in {b \in ListPublished(t.filter) : articles[b].topic \in t.topics}}
     IN tutorials' = [tutorials EXCEPT
          ![r].at = "listed", ![r].listed = listed,
          ![r].missed = Missed(t.there \cap Present(t.filter), listed)]
  /\ UNCHANGED <<topics, articles>>

ListArticles(r) ==
  /\ tutorials[r].at = "articles"
  /\ LET t == tutorials[r]
         listed == {Named(a, t.topics) : a \in ListPublished(t.filter)}
     IN tutorials' = [tutorials EXCEPT
          ![r].at = "listed", ![r].listed = listed,
          ![r].missed = Missed(t.there \cap Present(t.filter), listed)]
  /\ UNCHANGED <<topics, articles>>

\* FindPublishedBySlug, from the list; what is gone is not found.
FindArticle(r, a) ==
  /\ tutorials[r].at = "listed" /\ a \in {g[1] : g \in tutorials[r].listed}
  /\ tutorials' = [tutorials EXCEPT
       ![r].at = IF articles[a].published THEN "topic" ELSE "listed",
       ![r].topic = articles[a].topic]
  /\ UNCHANGED <<topics, articles>>

\* GetByID finds the topic, active or not; rows are never removed.
GetTopic(r) ==
  /\ tutorials[r].at = "topic"
  /\ tutorials' = [tutorials EXCEPT ![r].at = "open"]
  /\ UNCHANGED <<topics, articles>>

\* Operators edit the tutorials.
EditTutorials ==
  /\ \/ \E k \in Topics :
          /\ topics' = IF k \in topics THEN topics \ {k} ELSE topics \cup {k}
          /\ UNCHANGED articles
     \/ \E a \in Articles, k \in Topics, published \in BOOLEAN :
          /\ articles' = [articles EXCEPT ![a] = [topic |-> k, published |-> published]]
          /\ UNCHANGED topics
  /\ UNCHANGED tutorials

LessonStep(r) == ListArticles(r) \/ GetTopic(r) \/ \E a \in Articles : FindArticle(r, a)

-----------------------------------------------------------------------------
(* Properties. *)

\* What both the beginning of a request and its end would list, with its topic, is
\* listed with its topic, whatever operators edit between the two reads; what both
\* would list without one is listed, maybe with the topic it had in between; with a
\* filter nothing is listed under another topic.
TutorialsTrue ==
  \A r \in TutorialReaders :
    LET t == tutorials[r] IN
      /\ t.missed = {}
      /\ t.filter # 0 => \A g \in t.listed : g[2] \in {0, t.filter}
=============================================================================
