------------------------------ MODULE Catalogue ------------------------------
(***************************************************************************)
(* The catalogue and the menu a visitor sees are put together from two     *)
(* statements, the active categories and then the products on sale, while  *)
(* operators edit both; a link of theirs is followed later still.          *)
(* Products are named by their SKU code, categories numbered in order.     *)
(***************************************************************************)
EXTENDS Integers, Sequences, FiniteSets

CONSTANTS
  Categories,  \* products_category, in the order of sort and id
  Products,    \* SKU codes
  Shelf,       \* the category each is in at first, 0 for none
  Visitors

\* The pages of single products, as the front end's productRoutes has them.
SlugToSku ==
  [slug \in {"gpt-go", "chatgpt-plus", "chatgpt-pro-5x", "chatgpt-pro-20x", "claude-pro",
             "claude-max-5x", "grok-super", "gemini-pro", "cursor-pro", "cursor-pro-plus",
             "perplexity-pro"} |->
     CASE slug = "gpt-go" -> "OAI-GO-M" [] slug = "chatgpt-plus" -> "OAI-PLUS-M"
       [] slug = "chatgpt-pro-5x" -> "OAI-PRO5-M" [] slug = "chatgpt-pro-20x" -> "OAI-PRO20-M"
       [] slug = "claude-pro" -> "ANT-PRO-M" [] slug = "claude-max-5x" -> "ANT-MAX-M"
       [] slug = "grok-super" -> "XAI-GROK-M" [] slug = "gemini-pro" -> "GEM-PRO-M"
       [] slug \in {"cursor-pro", "cursor-pro-plus"} -> "CUR-PRO-M"
       [] slug = "perplexity-pro" -> "PPX-PRO-M"]

SkuToSlug ==
  [sku \in {"OAI-GO-M", "OAI-PLUS-M", "OAI-PRO5-M", "OAI-PRO20-M", "ANT-PRO-M", "ANT-MAX-M",
            "XAI-GROK-M", "GEM-PRO-M", "CUR-PRO-M", "PPX-PRO-M"} |->
     CASE sku = "OAI-GO-M" -> "gpt-go" [] sku = "OAI-PLUS-M" -> "chatgpt-plus"
       [] sku = "OAI-PRO5-M" -> "chatgpt-pro-5x" [] sku = "OAI-PRO20-M" -> "chatgpt-pro-20x"
       [] sku = "ANT-PRO-M" -> "claude-pro" [] sku = "ANT-MAX-M" -> "claude-max-5x"
       [] sku = "XAI-GROK-M" -> "grok-super" [] sku = "GEM-PRO-M" -> "gemini-pro"
       [] sku = "CUR-PRO-M" -> "cursor-pro" [] sku = "PPX-PRO-M" -> "perplexity-pro"]

\* A SKU code is in capitals, a slug is not.
ASSUME CatalogueAssumption ==
  /\ Categories \subseteq Nat \ {0}
  /\ Shelf \in [Products -> Categories \cup {0}]
  /\ Products \cap DOMAIN SlugToSku = {}

VARIABLES
  active,  \* the active categories
  goods,   \* per product its category (0 for none) and whether it is on sale
  visits   \* what the visitors see

catalogueVars == <<active, goods, visits>>

Good == [category : Categories \cup {0}, onSale : BOOLEAN]

\* A visit: the categories read and the filter of the request (0 for none), what was
\* on display when it began, what is shown and what of it was missed; the link followed
\* last, the page it led to, and whether its product was on sale then.
Sight == [at : {"idle", "products", "shown"}, menu : BOOLEAN, filter : Categories \cup {0},
          categories : SUBSET Categories, there : SUBSET (Products \X Categories),
          shown : SUBSET Products, missed : SUBSET Products,
          link : Products \cup {"none"}, page : Products \cup {"none"}, sold : BOOLEAN]

CatalogueTypeOK ==
  /\ active \subseteq Categories
  /\ goods \in [Products -> Good]
  /\ visits \in [Visitors -> Sight]

NoVisit == [at |-> "idle", menu |-> FALSE, filter |-> 0, categories |-> {}, there |-> {},
            shown |-> {}, missed |-> {}, link |-> "none", page |-> "none", sold |-> FALSE]

CatalogueInit ==
  /\ active = Categories
  /\ goods = [p \in Products |-> [category |-> Shelf[p], onSale |-> TRUE]]
  /\ visits = [v \in Visitors |-> NoVisit]

\* ListOnSale, of one category or of all.
OnSale(filter) ==
  {p \in Products : goods[p].onSale /\ (filter # 0 => goods[p].category = filter)}

\* What a request that read both at once would show.
OnDisplay(filter) ==
  {<<p, goods[p].category>> : p \in {q \in OnSale(filter) : goods[q].category \in active}}

\* List, and NavMenu; ListActive is the first statement of both.
OpenCatalogue(v, menu, filter) ==
  /\ visits[v].at # "products"
  /\ menu => filter = 0
  /\ visits' = [visits EXCEPT ![v] =
       [NoVisit EXCEPT !.at = "products", !.menu = menu, !.filter = filter,
                       !.categories = active, !.there = OnDisplay(filter)]]
  /\ UNCHANGED <<active, goods>>

\* buildProductCatalog: the products of the categories read.
Shelved(categories, rows) == {p \in rows : goods[p].category \in categories}

\* FAULT: the limit of three brand menus ends the loop that fills the mega menu, too.
Columns_TopThree(categories, rows) ==
  LET filled == {goods[p].category : p \in Shelved(categories, rows)} IN
  {p \in Shelved(categories, rows) :
     Cardinality({c \in filled : c < goods[p].category}) < 3}

\* buildNavMenu: the mega menu has a column for every category with something in it.
Columns(categories, rows) == Shelved(categories, rows)

ListProducts(v) ==
  /\ visits[v].at = "products"
  /\ LET t == visits[v]
         shown == IF t.menu THEN Columns(t.categories, OnSale(t.filter))
                  ELSE Shelved(t.categories, OnSale(t.filter))
         still == {g[1] : g \in t.there \cap OnDisplay(t.filter)}
     IN visits' = [visits EXCEPT ![v].at = "shown", ![v].shown = shown,
                                 ![v].missed = still \ shown]
  /\ UNCHANGED <<active, goods>>

\* productDetailHref; the page made of an SKU that has none is in no table.
Href(sku) == IF sku \in DOMAIN SkuToSlug THEN SkuToSlug[sku] ELSE sku

\* skuFromSlug and FindOnSaleBySKUCode.
Detail(slug) ==
  IF slug \in DOMAIN SlugToSku /\ SlugToSku[slug] \in OnSale(0) THEN SlugToSku[slug] ELSE "none"

DetailBySlug(v, p) ==
  /\ visits[v].at = "shown" /\ p \in visits[v].shown
  /\ visits' = [visits EXCEPT ![v].link = p, ![v].page = Detail(Href(p)),
                              ![v].sold = goods[p].onSale]
  /\ UNCHANGED <<active, goods>>

\* Operators edit the catalogue.
EditShelf ==
  /\ \/ \E c \in Categories :
          /\ active' = IF c \in active THEN active \ {c} ELSE active \cup {c}
          /\ UNCHANGED goods
     \/ \E p \in Products, c \in Categories \cup {0} :
          /\ goods' = [goods EXCEPT ![p].category = c]
          /\ UNCHANGED active
     \/ \E p \in Products :
          /\ goods' = [goods EXCEPT ![p].onSale = ~@]
          /\ UNCHANGED active
  /\ UNCHANGED visits

VisitBegin(v) == \E menu \in BOOLEAN, filter \in Categories \cup {0} : OpenCatalogue(v, menu, filter)

VisitStep(v) == ListProducts(v) \/ \E p \in Products : DetailBySlug(v, p)

-----------------------------------------------------------------------------
(* Properties. *)

\* What was on display when a visitor asked and still is, in the same category, when
\* the products are read, is shown to him; and a link shown leads to its product for as
\* long as that is on sale, to no other, unless its SKU has no page.
CatalogueTrue ==
  \A v \in Visitors :
    LET t == visits[v] IN
      /\ t.missed = {}
      /\ t.link # "none" /\ t.link \in DOMAIN SkuToSlug =>
           t.page = (IF t.sold THEN t.link ELSE "none")
      /\ t.link # "none" /\ t.link \notin DOMAIN SkuToSlug => t.page = "none"
=============================================================================
