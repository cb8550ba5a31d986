----------------------------- MODULE ShoppingTurn -----------------------------
(****************************************************************************)
(* One turn of the shopping agent after another: what its tools let the      *)
(* model do within a turn, which candidates the customer ends up seeing, and *)
(* what the next turn still knows of them.                                   *)
(*                                                                           *)
(* PublicChat has the locks and streams around a turn, Purchase what a cart, *)
(* an order and a payment do, ProviderCatalog how a category is minted.      *)
(* Here a purchase is its number, stage and version, a product its SKU, and  *)
(* a page is a sequence of SKUs in the provider's order.  Every operation on *)
(* the purchase succeeds (Purchase has the failures) and counts as one       *)
(* version.  The model's choice of tools, its prose, prices, filters and     *)
(* sorting are left out.                                                     *)
(****************************************************************************)
EXTENDS Naturals, Sequences, FiniteSets, SequencesExt

CONSTANTS
    Ranking,         \* for each query the provider's products, in rank order
    Mintable,        \* queries the provider mints a category for when asked
    MintedRanking,   \* for each mintable query the products it has from then on
    Domains,         \* labels of unsupported domains the model may conclude
    ShownMax,        \* candidates one turn may show
    EmptyMax,        \* distinct queries that may come back empty in a turn
    MemoryMax,       \* unsupported domains a conversation remembers
    PageSize,        \* products of a provider page
    StepsMax,        \* bound: tool calls of one turn
    TurnsMax         \* bound: turns of one conversation

ShopQueries == DOMAIN Ranking

ASSUME ShoppingAssumption ==
    /\ \A q \in ShopQueries : IsInjective(Ranking[q])
    /\ Mintable \subseteq ShopQueries /\ DOMAIN MintedRanking = Mintable
    /\ {ShownMax, EmptyMax, MemoryMax, PageSize, StepsMax, TurnsMax} \subseteq Nat \ {0}

VARIABLES
    purchase,    \* number, stage and version of the current purchase
    shelves,     \* minted queries: they have products now
    said,        \* the last stored reply: purchase, page, products named, catalog asked
    turns,       \* turns begun
    memory,      \* unsupported domains remembered, oldest first
    shopTurn         \* the turn in progress

shoppingVars == <<purchase, shelves, said, turns, memory, shopTurn>>
----------------------------------------------------------------------------
NoPage == <<"none">>   \* no catalog block in the view

NoPurchase == [no |-> 0, stage |-> "none", version |-> 0]

NoShopTurn ==
    [on |-> FALSE, step |-> 0, current |-> NoPurchase, context |-> NoPage,
     batches |-> <<>>, searches |-> 0, empty |-> {}, minted |-> {}, decided |-> <<>>,
     shown |-> NoPurchase, view |-> NoPage, catalog |-> FALSE]

NoReply == [of |-> NoPurchase, page |-> NoPage, told |-> <<>>, asked |-> FALSE]

ShoppingInit ==
    /\ purchase = NoPurchase
    /\ shelves = {}
    /\ said = NoReply /\ turns = 0 /\ memory = <<>>
    /\ shopTurn = NoShopTurn

\* An order ends the selection: views of the purchase list no products from then on.
Ordered(p) == p.stage \in {"awaiting_payment", "paid"}

\* Mutant: a purchase that is still shopping comes with a default page.
DefaultPage == IF purchase.stage = "shopping" THEN Ranking[CHOOSE q \in ShopQueries : Ranking[q] # <<>>] ELSE NoPage

\* What a read of the purchase shows: a page is attached to search results only.
StatusPage == NoPage

\* The candidates the model is reminded of: those last shown for this purchase and
\* version, as far as the current view lists them too.  Versions only grow, so that
\* no reply older than the last one counts.
ContextPage ==
    IF <<said.of.no, said.of.version>> # <<purchase.no, purchase.version>> \/ said.page = NoPage \/ StatusPage = NoPage
    THEN StatusPage
    ELSE SelectSeq(said.page, LAMBDA i : i \in ToSet(StatusPage))

LastOf(s, n) == SubSeq(s, (IF Len(s) > n THEN Len(s) - n ELSE 0) + 1, Len(s))

\* A shopping turn was accepted: tools are bound to the purchase as it now stands, and their
\* counters are new.
BeginTurn ==
    /\ ~shopTurn.on /\ turns < TurnsMax /\ turns' = turns + 1
    /\ shopTurn' = [NoShopTurn EXCEPT !.on = TRUE, !.current = purchase, !.context = ContextPage,
                       !.shown = purchase, !.view = StatusPage]
    /\ UNCHANGED <<purchase, shelves, said, memory>>
----------------------------------------------------------------------------
(* Search. *)

Slice(s, from, to) == SubSeq(s, from, IF to < Len(s) THEN to ELSE Len(s))

Products(q) == IF q \in shelves THEN MintedRanking[q] ELSE Ranking[q]

\* The page a cursor leads to; cursors start at 0 and move by the page size.
PageFrom(q, cursor, size) == Slice(Products(q), cursor + 1, cursor + size)

Batch(q, batches) ==
    LET n == {k \in DOMAIN batches : batches[k].query = q}
    IN  IF n = {} THEN <<>> ELSE batches[CHOOSE k \in n : TRUE].skus

\* A cursor comes from an earlier page of the query that had more behind it.
Issued(q, cursor) == cursor = 0 \/ (Batch(q, shopTurn.batches) # <<>> /\ cursor < Len(Products(q)))

SeenIn(batches) == UNION {ToSet(batches[k].skus) : k \in DOMAIN batches}

\* Products not seen yet in this turn are put behind those of the same query.
Filed(batches, q, page) ==
    LET new == SelectSeq(page, LAMBDA i : i \notin SeenIn(batches))
    IN  IF \E k \in DOMAIN batches : batches[k].query = q
        THEN [k \in DOMAIN batches |->
                 IF batches[k].query = q THEN [batches[k] EXCEPT !.skus = @ \o new] ELSE batches[k]]
        ELSE Append(batches, [query |-> q, skus |-> new])

\* Rank d of every query, in the order the queries were first searched.
DomainRow(batches, d) ==
    LET having == SelectSeq(batches, LAMBDA b : d <= Len(b.skus))
    IN  [k \in DOMAIN having |-> having[k].skus[d]]

AtMost(s) == Slice(s, 1, ShownMax)

\* Mutant: one query after the other.
QueryAfterQuery(batches) == AtMost(FlattenSeq([k \in DOMAIN batches |-> batches[k].skus]))

\* Round robin over the queries, best ranks first.
Balanced(batches) ==
    AtMost(FlattenSeq([d \in 1..Cardinality(SeenIn(batches)) |-> DomainRow(batches, d)]))

\* Mutant: a minted name does not matter, and nor does the number of empty searches.
AnySearch(q, cursor) == TRUE

\* Once enough queries came back empty, only they, minted names and further pages may be asked.
MaySearch(q, cursor) ==
    cursor > 0 \/ Cardinality(shopTurn.empty) < EmptyMax \/ q \in shopTurn.empty \cup shopTurn.minted

Call == shopTurn.on /\ shopTurn.step < StepsMax

\* The purchase a search works for: the open one, or a new one after the last was paid.
Started == IF purchase.stage \in {"none", "paid"}
           THEN [no |-> purchase.no + 1, stage |-> "shopping", version |-> 0] ELSE purchase

\* The first search is shown as it came; later ones are merged into one page.  A purchase
\* that has an order finds nothing.
SearchCatalog(q, cursor, size) ==
    /\ Call /\ MaySearch(q, cursor)
    /\ LET page == IF Ordered(Started) THEN <<>> ELSE PageFrom(q, cursor, size)
           filed == Filed(shopTurn.batches, q, page)
       IN  shopTurn' = [shopTurn EXCEPT
               !.step = @ + 1, !.searches = @ + 1, !.batches = filed, !.catalog = TRUE,
               !.empty = IF cursor = 0 /\ page = <<>> THEN @ \cup {q} ELSE @, !.shown = Started,
               !.view = IF shopTurn.searches > 0 THEN Balanced(filed)
                        ELSE IF Ordered(Started) THEN NoPage ELSE page]
    /\ purchase' = Started
    /\ UNCHANGED <<shelves, said, turns, memory>>

\* The tool refuses; the model is told why.
SearchRefused(q, cursor) ==
    /\ Call /\ ~MaySearch(q, cursor)
    /\ shopTurn' = [shopTurn EXCEPT !.step = @ + 1, !.catalog = TRUE]
    /\ UNCHANGED <<purchase, shelves, said, turns, memory>>

\* Arguments that are no prices, filters, lines or labels: the tool, whichever it is, raises
\* before it does anything, and still counts as executed.
ArgumentsRefused(ofCatalogTool) ==
    /\ Call
    /\ shopTurn' = [shopTurn EXCEPT !.step = @ + 1, !.catalog = @ \/ ofCatalogTool]
    /\ UNCHANGED <<purchase, shelves, said, turns, memory>>
----------------------------------------------------------------------------
(* The other tools. *)

\* The provider's categories are listed: no purchase is begun and no view staged.
DiscoverCatalog ==
    /\ Call
    /\ shopTurn' = [shopTurn EXCEPT !.step = @ + 1]
    /\ UNCHANGED <<purchase, shelves, said, turns, memory>>

\* The product graph is asked for context, likewise.
GraphContext ==
    /\ Call
    /\ shopTurn' = [shopTurn EXCEPT !.step = @ + 1]
    /\ UNCHANGED <<purchase, shelves, said, turns, memory>>

\* One product of the provider is shown alone.
Product(i) ==
    /\ Call /\ purchase # NoPurchase
    /\ shopTurn' = [shopTurn EXCEPT !.step = @ + 1, !.shown = purchase, !.catalog = TRUE,
                            !.view = IF Ordered(purchase) THEN NoPage ELSE <<i>>]
    /\ UNCHANGED <<purchase, shelves, said, turns, memory>>

\* A step of the purchase the caller named a version of: it moves on from one of the stages,
\* or the tool refuses.
Advance(version, from, to, ofCatalogTool) ==
    LET next == [purchase EXCEPT !.stage = to, !.version = @ + 1]
        ok == version = purchase.version /\ purchase.stage \in from
    IN  /\ Call
        /\ purchase' = IF ok THEN next ELSE purchase
        /\ shopTurn' = [shopTurn EXCEPT !.step = @ + 1, !.catalog = @ \/ ofCatalogTool,
                                !.shown = IF ok THEN next ELSE @,
                                !.view = IF ok THEN StatusPage ELSE @]
        /\ UNCHANGED <<shelves, said, turns, memory>>

\* The cart is replaced; the view of the purchase has no page.
CartLines(version) == Advance(version, {"shopping", "cart", "quoted"}, "cart", TRUE)

\* The cart is quoted.
PrepareCheckout(version) == Advance(version, {"cart", "quoted"}, "quoted", FALSE)

PurchaseStatus ==
    /\ Call /\ purchase # NoPurchase
    /\ shopTurn' = [shopTurn EXCEPT !.step = @ + 1, !.shown = purchase, !.view = StatusPage]
    /\ UNCHANGED <<purchase, shelves, said, turns, memory>>

\* Mutant: the irreversible tools act on the purchase as it is when they are called.
OnWhatThereIs == purchase

\* What the irreversible tools act on: the purchase the turn began with.
Bound == shopTurn.current

\* Ordering is offered only to a turn that began with a quote, paying only to one that began
\* with an unpaid order.
Offered(what) == Bound.stage = IF what = "order" THEN "quoted" ELSE "awaiting_payment"

\* The step happens if the purchase is still the one the turn began with; if it has happened,
\* the tool answers with the purchase as it became; otherwise it refuses.
DecideOn(what) ==
    LET next == [Bound EXCEPT !.stage = IF what = "order" THEN "awaiting_payment" ELSE "paid",
                              !.version = @ + 1]
        again == \E d \in ToSet(shopTurn.decided) : d = [what |-> what, on |-> Bound]
    IN  /\ Call /\ Offered(what)
        /\ purchase' = IF purchase = Bound THEN next ELSE purchase
        /\ shopTurn' = [shopTurn EXCEPT
               !.step = @ + 1,
               !.decided = IF purchase = Bound THEN Append(@, [what |-> what, on |-> Bound]) ELSE @,
               !.shown = IF purchase = Bound \/ again THEN next ELSE @,
               !.view = IF purchase = Bound \/ again THEN StatusPage ELSE @]
        /\ UNCHANGED <<shelves, said, turns, memory>>

CommitCheckout == DecideOn("order")

MockPay == DecideOn("pay")

\* What the tool takes for a new category: the schema's required facts in their bounds.
Proposable(q) == q \in Mintable

\* A new category, or the twin the provider already has; its name may be searched from now on.
ProposeCategory(q) ==
    /\ Call /\ Proposable(q)
    /\ shelves' = shelves \cup {q}
    /\ shopTurn' = [shopTurn EXCEPT !.step = @ + 1, !.minted = @ \cup {q}]
    /\ UNCHANGED <<purchase, said, turns, memory>>

\* Mutant: a repeated conclusion is stored again.
Piled(domains, d) == LastOf(Append(domains, d), MemoryMax)

\* A domain concluded again moves to the end; the oldest give way.
Remembered(domains, d) == LastOf(Append(SelectSeq(domains, LAMBDA e : e # d), d), MemoryMax)

RememberUnsupported(d) ==
    /\ Call
    /\ memory' = Remembered(memory, d)
    /\ shopTurn' = [shopTurn EXCEPT !.step = @ + 1]
    /\ UNCHANGED <<purchase, shelves, said, turns>>
----------------------------------------------------------------------------
(* The reply. *)

\* A page of a selection that found nothing.
EmptyCatalog == shopTurn.shown.stage = "shopping" /\ shopTurn.view = <<>>

\* The products the provider's facts name: those of the view's page, if it has one.
Described == IF shopTurn.view = NoPage THEN <<>> ELSE AtMost(shopTurn.view)

\* Facts go under the reply when a tool ran and there is a choice to make among what a
\* catalog tool found, or the purchase is past the choosing.
TellsFacts ==
    /\ shopTurn.step > 0 /\ ~EmptyCatalog
    /\ shopTurn.catalog \/ shopTurn.shown.stage \notin {"none", "shopping"}

\* The agent answers, or its steps are used up; the reply is stored with the last view.
Respond ==
    /\ shopTurn.on
    /\ said' = [of |-> shopTurn.shown, page |-> shopTurn.view, asked |-> shopTurn.catalog,
                told |-> IF TellsFacts THEN Described ELSE <<>>]
    /\ shopTurn' = NoShopTurn
    /\ UNCHANGED <<purchase, shelves, turns, memory>>

\* The turn fails before its reply is stored: what its tools did stays.
TurnFails ==
    /\ shopTurn.on /\ shopTurn' = NoShopTurn
    /\ UNCHANGED <<purchase, shelves, said, turns, memory>>

ShoppingNext ==
    \/ BeginTurn \/ Respond \/ TurnFails \/ PurchaseStatus
    \/ DiscoverCatalog \/ GraphContext \/ CommitCheckout \/ MockPay
    \/ \E b \in BOOLEAN : ArgumentsRefused(b)
    \/ \E q \in ShopQueries, cursor \in {0, PageSize} :
          Issued(q, cursor) /\ (SearchCatalog(q, cursor, PageSize) \/ SearchRefused(q, cursor))
    \/ \E q \in ShopQueries : ProposeCategory(q)
    \/ \E i \in SeenIn(shopTurn.batches) : Product(i)
    \/ \E v \in {purchase.version} \cup {0} : CartLines(v) \/ PrepareCheckout(v)
    \/ \E d \in Domains : RememberUnsupported(d)

ShoppingSpec == ShoppingInit /\ [][ShoppingNext]_shoppingVars
----------------------------------------------------------------------------
Shown(q, batches) == ToSet(shopTurn.view) \cap ToSet(Batch(q, batches))

(* Several searches end in one short page without repetitions, in which no   *)
(* query is more than one product ahead of another that has more to show:    *)
(* the last category searched neither hides the others nor is hidden         *)
(* (balanced_catalog_candidates).                                            *)
CandidatesAreBalanced ==
    shopTurn.searches > 1 /\ Len(shopTurn.view) > 1 =>
        /\ Len(shopTurn.view) <= ShownMax /\ IsInjective(shopTurn.view)
        /\ \A q, r \in ShopQueries :
              Shown(q, shopTurn.batches) # ToSet(Batch(q, shopTurn.batches)) =>
                 Cardinality(Shown(r, shopTurn.batches)) <= Cardinality(Shown(q, shopTurn.batches)) + 1

(* However the model goes about it, no more than the allowed number of       *)
(* queries comes back empty in a turn, minted names apart (search).          *)
EmptySearchesAreBounded == Cardinality(shopTurn.empty \ shopTurn.minted) <= EmptyMax

(* A reply shows or names products only when the customer's turn asked the   *)
(* catalog, and names no other than it shows: a turn that read nothing but   *)
(* the purchase pitches none (_view, describe, and the choice of facts in    *)
(* respond).                                                                 *)
NothingIsPitchedUnasked ==
    /\ said.page \notin {NoPage, <<>>} => said.asked
    /\ said.told # <<>> => IsPrefix(said.told, said.page) /\ said.asked

(* Whatever the model strings together in a turn, it orders or pays at most  *)
(* once, and then exactly what stood there when the customer wrote: a quote  *)
(* or an order made in the same turn is never decided on (the closures       *)
(* commit and pay, bound to the purchase as the turn began).                 *)
DecidesOnWhatStood ==
    /\ Len(shopTurn.decided) <= 1
    /\ \A d \in ToSet(shopTurn.decided) :
          d.on = shopTurn.current /\ d.on.stage \in {"quoted", "awaiting_payment"}

(* The conversation remembers a bounded number of unsupported domains and no *)
(* repetition pushes another out (_remember_unsupported_domain).             *)
MemoryHasRoom == IsInjective(memory) /\ Len(memory) <= MemoryMax

ShoppingTurnsAreFair ==
    /\ CandidatesAreBalanced /\ EmptySearchesAreBounded /\ NothingIsPitchedUnasked
    /\ DecidesOnWhatStood /\ MemoryHasRoom

===============================================================================
