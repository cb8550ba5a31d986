-------------------------- MODULE CommerceProvider --------------------------
(***************************************************************************)
(* The internal commerce provider (src/app/commerce_provider): a service   *)
(* of its own, with a SQLite database that holds every commerce fact.      *)
(* Each mutation runs in one BEGIN IMMEDIATE transaction, so it is one     *)
(* action here, and it leaves a receipt under the caller's request key in  *)
(* the same transaction.  A cart, quote, order or payment is named by the  *)
(* request key that created it (the code draws a fresh uuid).              *)
(*                                                                         *)
(* Prices are constants of the catalog, so the re-check that a stored line *)
(* still has the catalog's price cannot fail and is left out.  The         *)
(* stock_deltas table is kept as its total per SKU, with the sign turned.  *)
(***************************************************************************)
EXTENDS Integers, FiniteSets, FiniteSetsExt

CONSTANTS Keys,      \* request keys callers may use
          Owners,    \* owner_user_id values
          Skus,      \* the catalog
          Stock,     \* base availability of a SKU
          MaxOrder,  \* purchase limit of a SKU
          Price,     \* unit_price_minor of a SKU
          NULL

ASSUME CatalogAssumption ==
    /\ Stock \in [Skus -> Nat]
    /\ MaxOrder \in [Skus -> Nat]

VARIABLES carts, quotes, orders, payments, sold, receipts, expired

providerVars == <<carts, quotes, orders, payments, sold, receipts, expired>>

Lines == [Skus -> Nat]
NoLines == [s \in Skus |-> 0]
Total(lines) == MapThenSumSet(LAMBDA s : lines[s] * Price[s], Skus)
PayStatuses == {"awaiting_payment", "processing", "paid", "failed"}

CartRows == [owner : Owners, version : Nat, lines : Lines, order : Keys \union {NULL}]
QuoteRows == [owner : Owners, cart : Keys, version : Nat, lines : Lines,
              status : {"open", "consumed"}]
OrderRows == [owner : Owners, quote : Keys, status : PayStatuses]
PaymentRows == [owner : Owners, order : Keys, status : PayStatuses]
Kinds == {"update_cart", "quote", "order", "payment", "mock_pay"}
Receipts == [owner : Owners, kind : Kinds, id : Keys, version : Nat,
             lines : Lines, status : PayStatuses]

\* NULL is no key and no row.
ASSUME NullAssumption ==
    NULL \notin Keys \union CartRows \union QuoteRows \union OrderRows \union PaymentRows
               \union Receipts

ProviderInit ==
    /\ carts = [k \in Keys |-> NULL]
    /\ quotes = [k \in Keys |-> NULL]
    /\ orders = [k \in Keys |-> NULL]
    /\ payments = [k \in Keys |-> NULL]
    /\ receipts = [k \in Keys |-> NULL]
    /\ sold = NoLines
    /\ expired = {}

-----------------------------------------------------------------------------
(* The transaction first re-reads the receipt: a key that has one is       *)
(* answered from it and nothing is written.  The two fields a receipt does *)
(* not need for its kind hold their neutral value.                         *)
Receipt(owner, kind, id, version, lines, status) ==
    [owner |-> owner, kind |-> kind, id |-> id, version |-> version,
     lines |-> lines, status |-> status]

Mutate(key, receipt) ==
    /\ receipts[key] = NULL
    /\ receipts' = [receipts EXCEPT ![key] = receipt]

\* Mutant: the stock is not looked at.
AvailableUnchecked(lines) == \A s \in Skus : lines[s] <= MaxOrder[s]

\* Every line is within the purchase limit and the stock that is left.
Available(lines) ==
    \A s \in Skus : lines[s] <= MaxOrder[s] /\ (lines[s] > 0 => lines[s] + sold[s] <= Stock[s])

Owned(rows, id, owner) == id \in Keys /\ rows[id] # NULL /\ rows[id].owner = owner

-----------------------------------------------------------------------------
(* cart/update: makes a cart, or replaces all lines of one that has not    *)
(* been ordered and still has the version the caller saw.                  *)
CartAccepts(owner, cart, version, lines) ==
    /\ Available(lines)
    /\ IF cart = NULL
       THEN version = NULL
       ELSE /\ Owned(carts, cart, owner)
            /\ carts[cart].order = NULL
            /\ carts[cart].version = version

UpdateCart(key, owner, cart, version, lines) ==
    LET id == IF cart = NULL THEN key ELSE cart
        next == IF cart = NULL THEN 1 ELSE version + 1
    IN  /\ CartAccepts(owner, cart, version, lines)
        /\ carts' = [carts EXCEPT ![id] =
                [owner |-> owner, version |-> next, lines |-> lines, order |-> NULL]]
        /\ Mutate(key, Receipt(owner, "update_cart", id, next, lines, "awaiting_payment"))
        /\ UNCHANGED <<quotes, orders, payments, sold, expired>>

(* checkout: an unexpired open quote of this very cart version is handed   *)
(* out again, otherwise a new one is written.                              *)
QuoteAccepts(owner, cart, version) ==
    /\ Owned(carts, cart, owner)
    /\ carts[cart].order = NULL
    /\ carts[cart].version = version
    /\ carts[cart].lines # NoLines
    /\ Available(carts[cart].lines)

LiveQuotes(owner, cart, version) ==
    {q \in Keys \ expired : /\ Owned(quotes, q, owner)
                            /\ quotes[q].cart = cart
                            /\ quotes[q].version = version
                            /\ quotes[q].status = "open"}

PrepareCheckout(key, owner, cart, version) ==
    LET live == LiveQuotes(owner, cart, version)
    IN  /\ QuoteAccepts(owner, cart, version)
        /\ \/ /\ live = {}
              /\ quotes' = [quotes EXCEPT ![key] =
                    [owner |-> owner, cart |-> cart, version |-> version,
                     lines |-> carts[cart].lines, status |-> "open"]]
              /\ Mutate(key, Receipt(owner, "quote", key, version,
                                     carts[cart].lines, "awaiting_payment"))
           \/ \E q \in live :
                /\ Mutate(key, Receipt(owner, "quote", q, version,
                                       quotes[q].lines, "awaiting_payment"))
                /\ UNCHANGED quotes
        /\ UNCHANGED <<carts, orders, payments, sold, expired>>

(* orders: consumes the quote, closes the cart and takes the stock, all in *)
(* the transaction that re-checks the quote against the cart.              *)
OrderAccepts(owner, quote) ==
    /\ Owned(quotes, quote, owner)
    /\ quotes[quote].status = "open"
    /\ quote \notin expired
    /\ LET cart == carts[quotes[quote].cart]
       IN  cart # NULL /\ cart.version = quotes[quote].version /\ cart.order = NULL
    /\ Available(quotes[quote].lines)

CreateOrder(key, owner, quote) ==
    /\ OrderAccepts(owner, quote)
    /\ orders' = [orders EXCEPT ![key] =
            [owner |-> owner, quote |-> quote, status |-> "awaiting_payment"]]
    /\ quotes' = [quotes EXCEPT ![quote].status = "consumed"]
    /\ carts' = [carts EXCEPT ![quotes[quote].cart].order = key,
                              ![quotes[quote].cart].version = @ + 1]
    /\ sold' = [s \in Skus |-> sold[s] + quotes[quote].lines[s]]
    /\ Mutate(key, Receipt(owner, "order", key, 0, quotes[quote].lines, "awaiting_payment"))
    /\ UNCHANGED <<payments, expired>>

\* payments: one payment record for an order that awaits payment.
PaymentAccepts(owner, order) ==
    /\ Owned(orders, order, owner)
    /\ orders[order].status = "awaiting_payment"
    /\ \A p \in Keys : payments[p] # NULL => payments[p].order # order

OrderLines(order) == quotes[orders[order].quote].lines

CreatePayment(key, owner, order) ==
    /\ PaymentAccepts(owner, order)
    /\ payments' = [payments EXCEPT ![key] =
            [owner |-> owner, order |-> order, status |-> "awaiting_payment"]]
    /\ Mutate(key, Receipt(owner, "payment", key, 0, OrderLines(order), "awaiting_payment"))
    /\ UNCHANGED <<carts, quotes, orders, sold, expired>>

(* sandbox-pay: pays at once, or parks the payment as processing (the      *)
(* processing_payment fault).  A payment already paid is paid "again".     *)
PayAccepts(owner, payment) ==
    /\ Owned(payments, payment, owner)
    /\ payments[payment].status \notin {"processing", "failed"}

MockPay(key, owner, payment, status) ==
    /\ PayAccepts(owner, payment)
    /\ status \in {"paid", "processing"}
    /\ payments' = [payments EXCEPT ![payment].status = status]
    /\ orders' = [orders EXCEPT ![payments[payment].order].status = status]
    /\ Mutate(key, Receipt(owner, "mock_pay", payment, 0,
                           OrderLines(payments[payment].order), status))
    /\ UNCHANGED <<carts, quotes, sold, expired>>

\* An asynchronous provider event settles a payment that is processing.
SettlePayment(payment, status) ==
    /\ payments[payment] # NULL
    /\ payments[payment].status = "processing"
    /\ status \in {"paid", "failed"}
    /\ payments' = [payments EXCEPT ![payment].status = status]
    /\ orders' = [orders EXCEPT ![payments[payment].order].status = status]
    /\ UNCHANGED <<carts, quotes, sold, receipts, expired>>

\* The deadline of a quote passes.
ExpireQuote(q) ==
    /\ quotes[q] # NULL
    /\ q \notin expired
    /\ expired' = expired \union {q}
    /\ UNCHANGED <<carts, quotes, orders, payments, sold, receipts>>

-----------------------------------------------------------------------------
(* The provider on its own, serving any caller.                            *)
ProviderNext ==
    \/ \E key \in Keys, owner \in Owners :
        \/ \E cart \in Keys \union {NULL}, version \in Nat \union {NULL}, lines \in Lines :
              UpdateCart(key, owner, cart, version, lines)
        \/ \E cart \in Keys, version \in Nat : PrepareCheckout(key, owner, cart, version)
        \/ \E quote \in Keys : CreateOrder(key, owner, quote)
        \/ \E order \in Keys : CreatePayment(key, owner, order)
        \/ \E payment \in Keys, status \in PayStatuses : MockPay(key, owner, payment, status)
    \/ \E payment \in Keys, status \in PayStatuses : SettlePayment(payment, status)
    \/ \E q \in Keys : ExpireQuote(q)

ProviderSpec == ProviderInit /\ [][ProviderNext]_providerVars

-----------------------------------------------------------------------------
ProviderTypeOK ==
    /\ carts \in [Keys -> CartRows \union {NULL}]
    /\ quotes \in [Keys -> QuoteRows \union {NULL}]
    /\ orders \in [Keys -> OrderRows \union {NULL}]
    /\ payments \in [Keys -> PaymentRows \union {NULL}]
    /\ receipts \in [Keys -> Receipts \union {NULL}]
    /\ sold \in Lines
    /\ expired \subseteq Keys

(* However orders of several customers are interleaved with their carts    *)
(* and quotes, the stock that create_order takes is never more than there  *)
(* is, and a cart is never ordered twice: every order consumed a quote of  *)
(* its own, and the cart of that quote names that order and no other.      *)
NothingOversold ==
    /\ \A s \in Skus : sold[s] <= Stock[s]
    /\ \A k \in Keys : orders[k] # NULL =>
        LET q == orders[k].quote
        IN  /\ quotes[q] # NULL
            /\ quotes[q].status = "consumed"
            /\ carts[quotes[q].cart] # NULL
            /\ carts[quotes[q].cart].order = k

(* An order and its payment agree on where the money stands, and an order  *)
(* has at most one payment: mock_pay and settle_payment write both rows.   *)
PaymentsMatchOrders ==
    \A p \in Keys : payments[p] # NULL =>
        /\ orders[payments[p].order] # NULL
        /\ orders[payments[p].order].status = payments[p].status
        /\ \A p2 \in Keys : payments[p2] # NULL /\ payments[p2].order = payments[p].order => p2 = p

(* Stock, quotes, orders and payments tell one story (create_order,        *)
(* create_payment, mock_pay, settle_payment).                              *)
BooksBalance == NothingOversold /\ PaymentsMatchOrders
=============================================================================
