----------------------------- MODULE MockCommerce -----------------------------
(****************************************************************************)
(* The commerce provider inside the service (MockCommercePort), the one a    *)
(* deployment has when no external provider is configured.  CommerceProvider *)
(* is the service of its own that takes its place, Purchase the caller of    *)
(* either.                                                                   *)
(*                                                                           *)
(* Unlike that service it has no exclusive transaction: a call looks for the *)
(* receipt of its request key in one transaction and works in another, which *)
(* reads committed rows, checks them and at the end writes only where the    *)
(* rows still have the version it read.  What other calls commit in between  *)
(* is the point of this module.                                              *)
(*                                                                           *)
(* An object is named by the request key that made it (the code draws a      *)
(* uuid).  Prices are constants of the catalog and left out, and so are the  *)
(* rows of other owners, which every read hides.  What is left of a SKU only *)
(* falls, so it stands for the version of its row.                           *)
(****************************************************************************)
EXTENDS Naturals, FiniteSets, SequencesExt

CONSTANTS
    MockCallers,    \* turns of one customer that may call the provider at once
    Skus, Stock, MaxOrder,
    Baskets,    \* cart contents that are asked for
    Budgets,    \* bound: how many calls of each kind an instance makes, and how many
                \* walks through the catalog, proposals and restarts it has
    HouseNames, \* names of the categories the shop has of its own
    Wishes,     \* names a category is proposed under
    WindowSize, \* products of a page
    NoObject

Kinds == {"update_cart", "quote", "order", "payment", "mock_pay"}

ASSUME MockAssumption ==
    /\ Stock \in [Skus -> Nat] /\ MaxOrder \in [Skus -> Nat]
    /\ Baskets \subseteq [Skus -> Nat]
    /\ Budgets \subseteq [Kinds \cup {"catalog"} -> Nat]
    /\ WindowSize \in Nat \ {0}

VARIABLES
    left,       \* available_quantity of each SKU
    carts, quotes, orders, payments,   \* the other rows of commerce_mock_objects
    receipts,   \* request keys that have a receipt
    late,       \* quotes whose time is over
    added,      \* in memory: the categories minted since the start, with their numbers
    browse,     \* a customer's walk through the pages of the shelf
    budget,     \* calls still to be made, of each kind (bound, and source of keys)
    call        \* the last call of each caller

mockRows == <<left, carts, quotes, orders, payments, receipts>>
browseVars == <<added, browse>>
mockVars == <<mockRows, late, budget, call, browseVars>>

Calls(b) == MapThenSumSet(LAMBDA k : b[k], Kinds)
Keys == UNION {1..Calls(b) : b \in Budgets}
Statuses == {"awaiting_payment", "processing", "paid", "failed"}
CartRows == [version : Nat, lines : Baskets, order : Keys \cup {NoObject}]

Becoming(table, id, row) == [i \in DOMAIN table \cup {id} |-> IF i = id THEN row ELSE table[i]]

NoCall == [at |-> "idle", kind |-> "none", key |-> 0, target |-> NoObject,
           version |-> 0, lines |-> NoObject, seen |-> NoObject, answer |-> "none"]

\* No page asked for yet; the token is the offset of the next page, 0 when there is none.
NotBrowsing == [on |-> FALSE, stocked |-> FALSE, listed |-> <<>>, token |-> 0]

MockTypeOK ==
    /\ left \in [Skus -> Nat]
    /\ \A k \in DOMAIN carts : carts[k] \in CartRows
    /\ receipts \subseteq Keys /\ late \subseteq DOMAIN quotes
    /\ \A c \in MockCallers :
        /\ call[c].at \in {"idle", "asking", "working", "answered"}
        /\ call[c].answer \in {"none", "done", "rejected", "unknown"}

MockInit ==
    /\ left = Stock
    /\ carts = <<>> /\ quotes = <<>> /\ orders = <<>> /\ payments = <<>>
    /\ receipts = {} /\ late = {}
    /\ budget \in Budgets
    /\ added = <<>> /\ browse = NotBrowsing
    /\ call = [c \in MockCallers |-> NoCall]

----------------------------------------------------------------------------
(* A call and the receipt of its key.                                       *)

\* A caller asks for something under a key of its own.
RequestOp(c, kind, target, version, lines) ==
    /\ call[c].at \in {"idle", "answered"}
    /\ budget[kind] > 0
    /\ call' = [call EXCEPT ![c] = [NoCall EXCEPT
            !.at = "asking", !.kind = kind, !.key = Calls(budget),
            !.target = target, !.version = version, !.lines = lines]]
    /\ budget' = [budget EXCEPT ![kind] = @ - 1]
    /\ UNCHANGED <<mockRows, late, browseVars>>

AskCart(c, lines) ==
    \/ RequestOp(c, "update_cart", NoObject, 0, lines)
    \/ \E cart \in DOMAIN carts : RequestOp(c, "update_cart", cart, carts[cart].version, lines)

AskQuote(c) == \E cart \in DOMAIN carts : RequestOp(c, "quote", cart, carts[cart].version, NoObject)
AskOrder(c) == \E quote \in DOMAIN quotes : RequestOp(c, "order", quote, 0, NoObject)
AskPayment(c) == \E order \in DOMAIN orders : RequestOp(c, "payment", order, 0, NoObject)
AskPay(c) == \E payment \in DOMAIN payments : RequestOp(c, "mock_pay", payment, 0, NoObject)

\* The same request once more, after an answer that did not come.
AskAgain(c) ==
    /\ call[c].at = "answered" /\ call[c].answer = "unknown"
    /\ call' = [call EXCEPT ![c].at = "asking", ![c].answer = "none"]
    /\ UNCHANGED <<mockRows, late, budget, browseVars>>

AnswerCall(c, answer) == call' = [call EXCEPT ![c].at = "answered", ![c].seen = NoObject,
                                          ![c].answer = answer]

\* A key with a receipt is answered from it, and nothing is written.
Replay(c) ==
    /\ call[c].at = "asking" /\ call[c].key \in receipts
    /\ AnswerCall(c, "done")
    /\ UNCHANGED <<mockRows, late, budget, browseVars>>

\* A fault of the sandbox: the request is refused before any work.
Refuse(c) ==
    /\ call[c].at = "asking" /\ call[c].key \notin receipts
    /\ AnswerCall(c, "rejected")
    /\ UNCHANGED <<mockRows, late, budget, browseVars>>

----------------------------------------------------------------------------
(* The work: what it reads and checks.                                      *)

NeededFor(lines) == {s \in Skus : lines[s] > 0}
InStock(lines) == \A s \in Skus : lines[s] <= left[s]
StockSeen(lines) == [s \in NeededFor(lines) |-> left[s]]

MayFill(target, version, lines) ==
    /\ \A s \in Skus : lines[s] <= MaxOrder[s]
    /\ InStock(lines)
    /\ IF target = NoObject THEN version = 0
       ELSE carts[target].order = NoObject /\ carts[target].version = version

MayQuote(cart, version) ==
    /\ carts[cart].version = version /\ carts[cart].order = NoObject
    /\ InStock(carts[cart].lines)

MayOrder(quote) ==
    LET q == quotes[quote]
    IN /\ quote \notin late
       /\ carts[q.cart].version = q.version /\ carts[q.cart].order = NoObject
       /\ InStock(q.lines)

MayPay(payment) == payments[payment].status \in {"awaiting_payment", "paid"}

Accepts(r) == CASE r.kind = "update_cart" -> MayFill(r.target, r.version, r.lines)
                [] r.kind = "quote" -> MayQuote(r.target, r.version)
                [] r.kind = "order" -> MayOrder(r.target)
                [] r.kind = "payment" -> TRUE
                [] r.kind = "mock_pay" -> MayPay(r.target)

\* The versions the later writes are guarded with.
Read(r) == CASE r.kind = "order" -> StockSeen(quotes[r.target].lines)
             [] r.kind = "quote" -> carts[r.target].lines
             [] r.kind = "payment" -> orders[r.target].status
             [] OTHER -> NoObject

Work(c) ==
    /\ call[c].at = "asking" /\ call[c].key \notin receipts
    /\ IF Accepts(call[c])
       THEN call' = [call EXCEPT ![c].at = "working", ![c].seen = Read(call[c])]
       ELSE AnswerCall(c, "rejected")
    /\ UNCHANGED <<mockRows, late, budget, browseVars>>

----------------------------------------------------------------------------
(* The writes, and the receipt with them.                                   *)

\* Mutant: an order looks at the stock only when it begins.
UnmovedCart(r) == r.kind = "order" =>
    LET q == quotes[r.target]
    IN carts[q.cart].version = q.version /\ carts[q.cart].order = NoObject

\* Mutant: the writes of an order are guarded by the stock alone.
UnmovedStock(r) == r.kind = "order" => StockSeen(quotes[r.target].lines) = r.seen

\* Every guarded row must still have the version that was read.
Unmoved(r) ==
    /\ r.kind = "update_cart" /\ r.target # NoObject => carts[r.target].version = r.version
    /\ r.kind = "order" =>
        LET q == quotes[r.target]
        IN /\ carts[q.cart].version = q.version
           /\ StockSeen(q.lines) = r.seen

\* Mutant: payments may share a parent.
TwinOrder(r) == r.kind = "order" /\ \E o \in DOMAIN orders : orders[o].quote = r.target

\* A quote has one order and an order one payment: the parent is unique.
Twin(r) == CASE r.kind = "order" -> \E o \in DOMAIN orders : orders[o].quote = r.target
             [] r.kind = "payment" -> \E p \in DOMAIN payments : payments[p].order = r.target
             [] OTHER -> FALSE

CommitCart(r) ==
    LET id == IF r.target = NoObject THEN r.key ELSE r.target
    IN /\ carts' = Becoming(carts, id, [version |-> r.version + 1, lines |-> r.lines, order |-> NoObject])
       /\ UNCHANGED <<left, quotes, orders, payments>>

CommitQuote(r) ==
    /\ quotes' = Becoming(quotes, r.key, [cart |-> r.target, version |-> r.version, lines |-> r.seen])
    /\ UNCHANGED <<left, carts, orders, payments>>

CommitOrder(r) ==
    LET q == quotes[r.target]
    IN /\ carts' = [carts EXCEPT ![q.cart].version = @ + 1, ![q.cart].order = r.key]
       /\ left' = [s \in Skus |-> left[s] - q.lines[s]]
       /\ orders' = Becoming(orders, r.key, [quote |-> r.target, status |-> "awaiting_payment"])
       /\ UNCHANGED <<quotes, payments>>

CommitPayment(r) ==
    /\ payments' = Becoming(payments, r.key, [order |-> r.target, status |-> r.seen])
    /\ UNCHANGED <<left, carts, quotes, orders>>

\* Mutant: only the payment is told.
PaysAlone(r, status) ==
    /\ payments' = [payments EXCEPT ![r.target].status = status]
    /\ UNCHANGED <<left, carts, quotes, orders>>

\* Both rows get the new status, whatever they have by now.
CommitPay(r, status) ==
    /\ payments' = [payments EXCEPT ![r.target].status = status]
    /\ orders' = [orders EXCEPT ![payments[r.target].order].status = status]
    /\ UNCHANGED <<left, carts, quotes>>

\* The transaction commits; its answer may be lost (accepted_timeout).
Commit(c, answer) ==
    LET r == call[c]
    IN /\ r.at = "working" /\ Unmoved(r) /\ ~Twin(r)
       /\ \/ r.kind = "update_cart" /\ CommitCart(r)
          \/ r.kind = "quote" /\ CommitQuote(r)
          \/ r.kind = "order" /\ CommitOrder(r)
          \/ r.kind = "payment" /\ CommitPayment(r)
          \/ r.kind = "mock_pay" /\ \E status \in {"paid", "processing"} : CommitPay(r, status)
       /\ receipts' = receipts \cup {r.key}
       /\ AnswerCall(c, answer)
       /\ UNCHANGED <<late, budget, browseVars>>

\* A row has moved: the whole transaction is given up and the call refused.
\* A twin or a failing database leaves the answer open.
GiveUp(c) ==
    /\ call[c].at = "working"
    /\ IF Unmoved(call[c]) THEN AnswerCall(c, "unknown") ELSE AnswerCall(c, "rejected")
    /\ UNCHANGED <<mockRows, late, budget, browseVars>>

\* The sandbox settles a payment that is processing; a quote's time runs out.
Settle(payment, status) ==
    /\ payments[payment].status = "processing"
    /\ payments' = [payments EXCEPT ![payment].status = status]
    /\ orders' = [orders EXCEPT ![payments[payment].order].status = status]
    /\ UNCHANGED <<left, carts, quotes, receipts, late, budget, call, browseVars>>

ExpireQuote(quote) ==
    /\ quote \notin late
    /\ late' = late \cup {quote}
    /\ UNCHANGED <<mockRows, budget, call, browseVars>>

----------------------------------------------------------------------------
(* The shelf: pages of what the stock rows say, and categories on demand.   *)

\* In the order of their ids; with the filter only those that are left.
Matched(stocked) == SelectSeq(SetToSeq(Skus), LAMBDA i : stocked => left[i] > 0)

\* Mutant: the last product of a page comes again on the next.
Overlapping(matched, offset) ==
    SubSeq(matched, IF offset = 0 THEN 1 ELSE offset, Min({offset + WindowSize, Len(matched)}))

Window(matched, offset) == SubSeq(matched, offset + 1, Min({offset + WindowSize, Len(matched)}))

\* A page is cut out of the rows as they are when it is asked for.
Browse(stocked, offset, before) ==
    LET matched == Matched(stocked)
        end == offset + WindowSize
    IN  browse' = [on |-> TRUE, stocked |-> stocked, listed |-> before \o Window(matched, offset),
                   token |-> IF end < Len(matched) THEN end ELSE 0]

Spend == budget["catalog"] > 0 /\ budget' = [budget EXCEPT !["catalog"] = @ - 1]

FirstPage(stocked) ==
    /\ Spend /\ Browse(stocked, 0, <<>>)
    /\ UNCHANGED <<mockRows, late, call, added>>

TurnPage ==
    /\ browse.token > 0 /\ Browse(browse.stocked, browse.token, browse.listed)
    /\ UNCHANGED <<mockRows, late, budget, call, added>>

\* Mutant: a name that has been minted is minted again.
Anew(name) == name \notin HouseNames

\* The categories the shop answers with when it is asked for them.
ShopCategories == HouseNames \cup DOMAIN added

IsNew(name) == name \notin ShopCategories

\* A category of this name is in the shop already, or there is one from now on; the fixed
\* products stay the only ones.
Mint(name) ==
    /\ added' = IF IsNew(name) THEN Becoming(added, name, Cardinality(DOMAIN added) + 1) ELSE added
    /\ Spend /\ UNCHANGED <<mockRows, late, call, browse>>

\* The process ends with the calls it was working on and the categories it had in memory.
PortRestarts ==
    /\ call' = [c \in MockCallers |-> NoCall]
    /\ added' = <<>>
    /\ Spend /\ UNCHANGED <<mockRows, late, browse>>

MockNext ==
    \/ \E stocked \in BOOLEAN : FirstPage(stocked)
    \/ \E name \in Wishes : Mint(name)
    \/ TurnPage \/ PortRestarts
    \/ \E c \in MockCallers :
        \/ \E lines \in Baskets : AskCart(c, lines)
        \/ AskQuote(c) \/ AskOrder(c) \/ AskPayment(c) \/ AskPay(c) \/ AskAgain(c)
        \/ Replay(c) \/ Refuse(c) \/ Work(c) \/ GiveUp(c)
        \/ \E answer \in {"done", "unknown"} : Commit(c, answer)
    \/ \E payment \in DOMAIN payments, status \in {"paid", "failed"} : Settle(payment, status)
    \/ \E quote \in DOMAIN quotes : ExpireQuote(quote)

MockSpec == MockInit /\ [][MockNext]_mockVars

----------------------------------------------------------------------------
(* Properties.                                                              *)

\* However calls overlap, every piece of stock that is gone is in an order,
\* and every order has a cart of its own that names it and holds what was
\* ordered (mock_port.py, create_order: the versions its updates ask for).
OrdersAddUp ==
    /\ \A s \in Skus :
        left[s] + MapThenSumSet(LAMBDA o : quotes[orders[o].quote].lines[s], DOMAIN orders) = Stock[s]
    /\ \A o \in DOMAIN orders :
        LET cart == carts[quotes[orders[o].quote].cart]
        IN cart.order = o /\ cart.lines = quotes[orders[o].quote].lines

\* A refusal is definite: nothing was done under its key.  An answer means
\* that there is a receipt (port.py, ProviderRejected and ProviderUnknown;
\* mock_port.py, _run writes the receipt with the work).
AnswersAreDefinite ==
    \A c \in MockCallers : /\ call[c].answer = "done" => call[c].key \in receipts
                       /\ call[c].answer = "rejected" => call[c].key \notin receipts

\* An order and its only payment agree on the money, although two calls may
\* write both rows without looking at their versions (mock_port.py, mock_pay
\* and settle_payment).
PaymentsAgree ==
    \A p \in DOMAIN payments :
        /\ payments[p].status = orders[payments[p].order].status
        /\ \A q \in DOMAIN payments : payments[q].order = payments[p].order => p = q

\* A customer who turns the pages sees no product twice while others buy, and
\* without the filter every product there is: rows are never taken away, and
\* with the filter products only drop out (mock_port.py, search_products: the
\* token is an offset into the answer as it is by then).
ShelfIsListedOnce ==
    /\ IsInjective(browse.listed)
    /\ browse.on /\ browse.token = 0 /\ ~browse.stocked => ToSet(browse.listed) = Skus

\* No name has two categories and no number two names, whoever proposed them
\* (mock_port.py, propose_category).
NamesAreMintedOnce ==
    /\ {added[n] : n \in DOMAIN added} = 1..Cardinality(DOMAIN added)
    /\ DOMAIN added \cap HouseNames = {}

MockKeepsItsBooks ==
    /\ ShelfIsListedOnce /\ NamesAreMintedOnce
    /\ OrdersAddUp /\ AnswersAreDefinite /\ PaymentsAgree
=============================================================================
