-------------------------- MODULE ProviderCatalog --------------------------
(***************************************************************************)
(* What the commerce provider keeps in memory about its catalog            *)
(* (src/app/commerce_provider/core.py, catalog.py): the categories minted  *)
(* at run time, whose place in the list is their SKU address, and two      *)
(* caches, the stock that searches display and the published taxonomy.     *)
(* SQLite keeps the minted rows, the receipts and the stock.  Handlers     *)
(* interleave at every await; a restart loses what is in memory.  The      *)
(* second half is the catalog itself, which is computed.                   *)
(***************************************************************************)
EXTENDS Integers, Sequences, FiniteSets, SequencesExt

CONSTANTS MintCalls,   \* mint requests, in the order of their arrival or not
          MintKey,     \* request key of a mint request
          MintName,    \* category name it proposes
          Curated,     \* names of the curated categories
          CatLimit,    \* dynamic_category_limit
          Readers,     \* searches and taxonomy reads under way
          MaxSales,    \* orders that take stock (bound)
          NoCat        \* no value

ASSUME MintAssumption ==
    /\ CatLimit \in Nat
    /\ MintName \in [MintCalls -> STRING]
    /\ NoCat \notin Nat /\ NoCat \notin MintCalls

VARIABLES catRows,        \* dynamic_categories, by seq: the names minted
          minted,      \* receipts of mint operations: request key -> seq
          registered,  \* seqs in the order they joined the in-memory catalog
          mint,        \* program state of each mint request
          mintLock,    \* _mint_lock
          stock,       \* number of sales committed to stock_deltas
          stockCache,  \* _stock_delta_cache
          taxonomy,    \* _registry_taxonomy: number of minted categories it shows
          selling,     \* a sale has committed, its invalidation is still to come
          reader       \* program state of each reader

mintVars == <<catRows, minted, registered, mint, mintLock>>
cacheVars == <<stock, stockCache, selling, reader>>
catalogVars == <<mintVars, taxonomy, cacheVars>>

Waiting == [pc |-> "new", answer |-> NoCat]
Resting == [pc |-> "rest", got |-> NoCat]

CatalogInit ==
    /\ catRows = <<>>
    /\ minted = [k \in {MintKey[r] : r \in MintCalls} |-> NoCat]
    /\ registered = <<>>
    /\ mint = [r \in MintCalls |-> Waiting]
    /\ mintLock = NoCat
    /\ stock = 0
    /\ stockCache = NoCat
    /\ taxonomy = NoCat
    /\ selling = FALSE
    /\ reader = [x \in Readers |-> Resting]

Registered(name) == name \in Curated \/ \E i \in DOMAIN registered : catRows[registered[i]] = name

Existing(name) ==
    IF name \in Curated THEN NoCat ELSE CHOOSE i \in DOMAIN catRows : catRows[i] = name

\* The seq a mint request is answered with (none for a refusal and for a
\* curated category), and the end of its handler.
Answer(r, a) ==
    /\ mint' = [mint EXCEPT ![r] = [pc |-> "done", answer |-> a]]
    /\ mintLock' = NoCat

-----------------------------------------------------------------------------
\* Mutant: no lock.
AcquireMintFreely(r) ==
    /\ mint[r].pc = "new"
    /\ mint' = [mint EXCEPT ![r].pc = "look"]
    /\ UNCHANGED <<mintLock, catRows, minted, registered, taxonomy, cacheVars>>

(* propose_category.  The lock covers everything from the first look at    *)
(* the receipts to the registration in memory.                             *)
AcquireMint(r) ==
    /\ mint[r].pc = "new"
    /\ mintLock = NoCat
    /\ mintLock' = r
    /\ mint' = [mint EXCEPT ![r].pc = "look"]
    /\ UNCHANGED <<catRows, minted, registered, taxonomy, cacheVars>>

\* A repeated key is answered from its receipt, a known name by its category.
LookUpMint(r) ==
    LET seq == minted[MintKey[r]]
        name == MintName[r]
    IN  /\ mint[r].pc = "look"
        /\ \/ /\ seq # NoCat
              /\ IF catRows[seq] = name
                 THEN mint' = [mint EXCEPT ![r] = [pc |-> "register", answer |-> seq]]
                      /\ UNCHANGED mintLock
                 ELSE Answer(r, NoCat)
           \/ seq = NoCat /\ Registered(name) /\ Answer(r, Existing(name))
           \/ /\ seq = NoCat /\ ~Registered(name)
              /\ mint' = [mint EXCEPT ![r].pc = "write"]
              /\ UNCHANGED mintLock
        /\ UNCHANGED <<catRows, minted, registered, taxonomy, cacheVars>>

\* One transaction: the receipt, the limit and the unique name, then the row.
CommitMint(r) ==
    /\ mint[r].pc = "write"
    /\ CASE minted[MintKey[r]] # NoCat ->
              /\ IF catRows[minted[MintKey[r]]] = MintName[r]
                 THEN mint' = [mint EXCEPT ![r] = [pc |-> "register", answer |-> minted[MintKey[r]]]]
                      /\ UNCHANGED mintLock
                 ELSE Answer(r, NoCat)
              /\ UNCHANGED <<catRows, minted>>
         [] minted[MintKey[r]] = NoCat /\ (Len(catRows) >= CatLimit \/ Contains(catRows, MintName[r])) ->
              Answer(r, NoCat) /\ UNCHANGED <<catRows, minted>>
         [] OTHER ->
              /\ catRows' = Append(catRows, MintName[r])
              /\ minted' = [minted EXCEPT ![MintKey[r]] = Len(catRows) + 1]
              /\ mint' = [mint EXCEPT ![r] = [pc |-> "register", answer |-> Len(catRows) + 1]]
              /\ UNCHANGED mintLock
    /\ UNCHANGED <<registered, taxonomy, cacheVars>>

\* envelope: the category joins the catalog in memory unless it is there.
RegisterMint(r) ==
    LET seq == mint[r].answer
    IN  /\ mint[r].pc = "register"
        /\ IF ~Contains(registered, seq)
           THEN registered' = Append(registered, seq) /\ taxonomy' = NoCat
           ELSE UNCHANGED <<registered, taxonomy>>
        /\ Answer(r, seq)
        /\ UNCHANGED <<catRows, minted, cacheVars>>

\* The rows are reloaded in the order of their seq.
LoadDynamicCategories == [i \in 1..Len(catRows) |-> i]

\* The process is stopped and started: everything else in memory is gone.
RestartProvider ==
    /\ registered' = LoadDynamicCategories
    /\ mint' = [r \in MintCalls |-> IF mint[r].pc = "done" THEN mint[r] ELSE Waiting]
    /\ mintLock' = NoCat
    /\ taxonomy' = NoCat
    /\ stockCache' = NoCat
    /\ selling' = FALSE
    /\ reader' = [x \in Readers |-> Resting]
    /\ UNCHANGED <<catRows, minted, stock>>

-----------------------------------------------------------------------------
(* The stock that searches display.  A sale commits in a worker thread and *)
(* the handler then drops the cache; a search that finds no cache reads    *)
(* the totals in a worker thread and then stores them.                     *)
Sell ==
    /\ ~selling
    /\ stock < MaxSales
    /\ stock' = stock + 1
    /\ selling' = TRUE
    /\ UNCHANGED <<mintVars, taxonomy, stockCache, reader>>

InvalidateStockCache ==
    /\ selling
    /\ selling' = FALSE
    /\ stockCache' = NoCat
    /\ UNCHANGED <<mintVars, taxonomy, stock, reader>>

ReadStock(x) ==
    /\ reader[x].pc = "rest"
    /\ stockCache = NoCat
    /\ reader' = [reader EXCEPT ![x] = [pc |-> "stock", got |-> stock]]
    /\ UNCHANGED <<mintVars, taxonomy, stock, stockCache, selling>>

StoreStock(x) ==
    /\ reader[x].pc = "stock"
    /\ stockCache' = reader[x].got
    /\ reader' = [reader EXCEPT ![x] = Resting]
    /\ UNCHANGED <<mintVars, taxonomy, stock, selling>>

\* catalog_categories fills the other cache in the same two steps.
ReadTaxonomy(x) ==
    /\ reader[x].pc = "rest"
    /\ taxonomy = NoCat
    /\ reader' = [reader EXCEPT ![x] = [pc |-> "taxonomy", got |-> Len(registered)]]
    /\ UNCHANGED <<mintVars, taxonomy, stock, stockCache, selling>>

StoreTaxonomy(x) ==
    /\ reader[x].pc = "taxonomy"
    /\ taxonomy' = reader[x].got
    /\ reader' = [reader EXCEPT ![x] = Resting]
    /\ UNCHANGED <<mintVars, stock, stockCache, selling>>

CatalogNext ==
    \/ \E r \in MintCalls : AcquireMint(r) \/ LookUpMint(r) \/ CommitMint(r) \/ RegisterMint(r)
    \/ \E x \in Readers : ReadStock(x) \/ StoreStock(x) \/ ReadTaxonomy(x) \/ StoreTaxonomy(x)
    \/ Sell \/ InvalidateStockCache \/ RestartProvider

CatalogSpec == CatalogInit /\ [][CatalogNext]_catalogVars

-----------------------------------------------------------------------------
(* A mint that was answered has its category in the catalog, once, at the  *)
(* place of its seq, and no two rows share a name: retries with the same   *)
(* key, rivals with the same name and restarts included (core.py,          *)
(* propose_category and its envelope).                                     *)
AnsweredMintsAreListed ==
    /\ \A r \in MintCalls : mint[r].pc = "done" /\ mint[r].answer # NoCat =>
          /\ mint[r].answer \in DOMAIN registered
          /\ registered[mint[r].answer] = mint[r].answer
          /\ catRows[mint[r].answer] = MintName[r]
    /\ \A i, j \in DOMAIN catRows : catRows[i] = catRows[j] => i = j

(* "the registration order always equals the committed seq order; SKU      *)
(* addressing for dynamic categories stays stable across restarts": after  *)
(* every step what was answered is listed, and a category that has an      *)
(* address keeps it, whatever is minted meanwhile and however often the    *)
(* provider is restarted (core.py, _mint_lock).                            *)
MintedCategoriesStay ==
    [][/\ AnsweredMintsAreListed'
       /\ \A i \in DOMAIN registered :
             i \in DOMAIN registered' /\ registered'[i] = registered[i]]_catalogVars

-----------------------------------------------------------------------------
(***************************************************************************)
(* The generated catalog (catalog.py): no product is stored, a SKU number  *)
(* is taken apart into a pair (a category and a brand), a model and a      *)
(* variant, and a search walks the pairs a query selects.  Categories are  *)
(* minted at run time, also between two pages of one search.               *)
(*                                                                         *)
(* Names and attributes are left out: a filter is the set of variants it   *)
(* admits, and so is a word of the query that names nothing in the catalog *)
(* and is then looked for in the descriptions.  The stock shown stays the  *)
(* same while a customer pages.  This half shares no variable with the other one: a *)
(* category joins the shelf when it is registered.                         *)
(***************************************************************************)
CONSTANTS CuratedCats,           \* number of curated categories
          BrandCount, ModelsPerPair, VariantsPerModel, SeriesCount,
          Queries,           \* what customers search for, and how it is sorted
          UnitPrice(_, _),   \* price of a model of a pair
          StyleCounts,       \* sizes of a minted category's own matrix of styles
          WindowMin, MaxWindow, ScanLimit, PageSizes,
          MaxMinted          \* categories minted (bound)

ASSUME CatalogSizes ==
    /\ {BrandCount, ModelsPerPair, VariantsPerModel, SeriesCount} \subseteq Nat \ {0}
    /\ Queries \subseteq [category : Nat, brand : Nat \cup {-1}, series : SUBSET Nat,
                          variants : SUBSET (0 .. VariantsPerModel - 1),
                          mentions : SUBSET (0 .. VariantsPerModel - 1),
                          sort : {"relevance", "price_asc", "price_desc", "newest"}]
    /\ StyleCounts \subseteq 1 .. ModelsPerPair
    /\ {CuratedCats, WindowMin, MaxWindow, ScanLimit} \subseteq Nat
    /\ PageSizes \subseteq Nat \ {0}

VARIABLES shelf,   \* the categories, in order: how many styles each brings
          paging   \* a customer paging through the answer to one query

shelfVars == <<shelf, paging>>

----------------------------------------------------------------------------
(* Addresses.                                                              *)

\* A category without styles of its own has one pair for every brand.
Grid(styles) == styles = 0

Width(styles) == IF Grid(styles) THEN BrandCount ELSE 1

Categories == DOMAIN shelf

PairStart(c) ==
    LET before == 1 .. c - 1
    IN BrandCount * Cardinality({d \in before : Grid(shelf[d])})
         + Cardinality({d \in before : ~Grid(shelf[d])})

PairsOf(c) == PairStart(c) .. PairStart(c) + Width(shelf[c]) - 1

PairCount == PairStart(Len(shelf) + 1)

CategoryOfPair(p) == CHOOSE c \in Categories : p \in PairsOf(c)

BrandOfPair(p) == p % BrandCount

Sku(p, m, v) == (p * ModelsPerPair + m) * VariantsPerModel + v

Decompose(n) ==
    LET rest == n % (ModelsPerPair * VariantsPerModel)
    IN [pair |-> n \div (ModelsPerPair * VariantsPerModel),
        model |-> rest \div VariantsPerModel,
        variant |-> rest % VariantsPerModel]

TotalSkus == PairCount * ModelsPerPair * VariantsPerModel

\* A product: a number whose model its category really has.
Describe(n) ==
    LET at == Decompose(n)
        c == CategoryOfPair(at.pair)
    IN [category |-> c, styled |-> ~Grid(shelf[c]), model |-> at.model,
        brand |-> IF Grid(shelf[c]) THEN BrandOfPair(at.pair) ELSE at.model,
        variant |-> at.variant]

ModelsOf(p) ==
    LET styles == shelf[CategoryOfPair(p)]
    IN IF Grid(styles) THEN 0 .. ModelsPerPair - 1 ELSE 0 .. styles - 1

Products == {n \in 0 .. TotalSkus - 1 : Decompose(n).model \in ModelsOf(Decompose(n).pair)}

----------------------------------------------------------------------------
(* Search.  A query names a category (or none, 0), a brand (or none, -1),  *)
(* perhaps some series, and admits some variants.                          *)

BrandPairs(b) == {PairStart(c) + b : c \in {d \in Categories : Grid(shelf[d])}}

CategoryPairs(c) == IF c \in Categories THEN PairsOf(c) ELSE {}

\* What each name of the query selects.
PairSets(q) ==
    {CategoryPairs(c) : c \in {q.category} \ {0}}
    \cup {BrandPairs(b) : b \in {q.brand} \ {-1}}

Planned(q, p) == \A pairs \in PairSets(q) \ {{}} : p \in pairs

\* A name nothing in the catalog bears yet is a text term: it selects no pair
\* and asks for the variants whose description mentions it.
TextTerm(q) == {} \in PairSets(q)
Admitted(q, v) == v \in q.variants /\ (TextTerm(q) => v \in q.mentions)

\* Models are told apart by series in the grid only.
Wanted(q, p, m) ==
    /\ m \in ModelsOf(p)
    /\ Grid(shelf[CategoryOfPair(p)]) /\ q.series # {} => m % SeriesCount \in q.series

UpTo(n) == [i \in 1 .. n |-> i - 1]

\* s[a:b] of Python: what there is of it.
Slice(s, a, b) == SubSeq(s, a + 1, IF b < Len(s) THEN b ELSE Len(s))

\* The scan visits the models of the planned pairs in order and gives up
\* after ScanLimit of them; of each it takes the variants admitted.
Found(q) ==
    LET visits(k) == LET p == (k \div ModelsPerPair)
                     IN Planned(q, p) /\ Wanted(q, p, k % ModelsPerPair)
        scanned == Slice(SelectSeq(UpTo(PairCount * ModelsPerPair), visits), 0, ScanLimit)
        admits(v) == Admitted(q, v)
        variants == SelectSeq(UpTo(VariantsPerModel), admits)
        width == Len(variants)
    IN [i \in 1 .. Len(scanned) * width |->
            scanned[((i - 1) \div width) + 1] * VariantsPerModel + variants[((i - 1) % width) + 1]]

\* Mutant: the window is not widened for later pages.
NeededFirst(offset, size) == WindowMin

Needed(offset, size) ==
    LET wanted == IF offset + 2 * size > WindowMin THEN offset + 2 * size ELSE WindowMin
    IN IF wanted > MaxWindow THEN MaxWindow ELSE wanted

\* The order asked for; products of one price come by their number.
Before(q, a, b) ==
    LET price(n) == UnitPrice(Decompose(n).pair, Decompose(n).model)
    IN  CASE q.sort = "newest" -> a > b
          [] price(a) = price(b) -> a < b
          [] q.sort = "price_asc" -> price(a) < price(b)
          [] OTHER -> price(a) > price(b)

\* The window is sorted as a whole, and anew for each page.
Ordered(q, window) ==
    LET before(a, b) == Before(q, a, b)
    IN  IF q.sort = "relevance" THEN window ELSE SortSeq(window, before)

Matches(q, offset, size) == Ordered(q, Slice(Found(q), 0, Needed(offset, size)))

\* Mutant: each page is sorted by itself.
PageSortedAlone(q, offset, size) ==
    LET all == Slice(Found(q), 0, Needed(offset, size))
    IN [items |-> Ordered(q, Slice(all, offset, offset + size)), more |-> offset + size < Len(all)]

PageOf(q, offset, size) ==
    LET all == Matches(q, offset, size)
    IN [items |-> Slice(all, offset, offset + size), more |-> offset + size < Len(all)]

----------------------------------------------------------------------------
\* Besides the token: what the customer has seen, how many products the
\* answer had at the last page, and categories at the first (history).
NotPaging == [query |-> <<>>, size |-> 0, offset |-> 0, seen |-> <<>>, more |-> FALSE, found |-> 0,
              shelved |-> 0]

VirtualCatalogInit ==
    /\ shelf = [c \in 1 .. CuratedCats |-> 0]
    /\ paging = NotPaging

\* The token carries the query and the offset; the first page needs none.
Search(q, size) ==
    /\ paging.size = 0
    /\ LET page == PageOf(q, 0, size) IN
       paging' = [query |-> q, size |-> size, offset |-> size, seen |-> page.items,
                  more |-> page.more, found |-> Len(Found(q)), shelved |-> Len(shelf)]
    /\ UNCHANGED shelf

\* Beyond the deepest window the token is refused.
NextPage ==
    /\ paging.more
    /\ paging.offset + paging.size <= MaxWindow
    /\ LET page == PageOf(paging.query, paging.offset, paging.size) IN
       paging' = [paging EXCEPT !.offset = @ + paging.size, !.seen = @ \o page.items,
                                !.more = page.more, !.found = Len(Found(paging.query))]
    /\ UNCHANGED shelf

\* register_dynamic: a category with a matrix of styles, or a legacy one.
RegisterDynamic(styles) ==
    /\ Len(shelf) < CuratedCats + MaxMinted
    /\ shelf' = Append(shelf, styles)
    /\ UNCHANGED paging

VirtualCatalogNext ==
    \/ \E q \in Queries, size \in PageSizes : Search(q, size)
    \/ NextPage
    \/ \E styles \in StyleCounts \cup {0} : RegisterDynamic(styles)

VirtualCatalogSpec == VirtualCatalogInit /\ [][VirtualCatalogNext]_shelfVars

----------------------------------------------------------------------------
\* The words of the query still mean what they meant on the first page.
SameMeaning == paging.query.category \notin paging.shelved + 1 .. Len(shelf)

\* Every page so far was cut from the same window, or from the whole answer,
\* and nothing was minted meanwhile.
SameWindow ==
    LET least == Needed(0, paging.size)
    IN  /\ Len(shelf) = paging.shelved
        /\ Needed(paging.offset - paging.size, paging.size) = least \/ paging.found <= least

(* Paging on shows every product of the answer once and in order, and the  *)
(* last page is the last of what is then found or of the deepest window,   *)
(* although the window is computed anew for each page and categories may   *)
(* be minted between two pages, as long as that gives the query no new     *)
(* meaning.  A sort orders only the window ("Price and newest ordering are *)
(* approximate", catalog.py), which grows with the offset beyond its least *)
(* size: until it does so, the pages show the sorted window, each product  *)
(* once.  A page that a token promised is never empty, sorted or not       *)
(* (_search, _plan_tokens).                                                *)
PagesPartitionTheAnswer ==
    LET q == paging.query
        sorted == q.sort # "relevance"
        answer == IF sorted THEN Matches(q, 0, paging.size) ELSE Found(q)
    IN  paging.size # 0 /\ SameMeaning =>
            /\ paging.offset > paging.size => Len(paging.seen) > paging.offset - paging.size
            /\ (sorted => SameWindow)
               => /\ IsPrefix(paging.seen, answer)
                  /\ IsInjective(paging.seen)
                  /\ \/ paging.more /\ Len(paging.seen) = paging.offset
                     \/ ~paging.more /\ Len(paging.seen) \in {paging.found} \cup MaxWindow .. paging.offset
=============================================================================
