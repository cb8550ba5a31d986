--------------------------- MODULE PurchaseProofs ---------------------------
(***************************************************************************)
(* The purchase (src/app/services/commerce) and the provider it drives     *)
(* (src/app/commerce_provider): the provider keeps its books; nothing it   *)
(* committed is lost on the customer; a purchase has one order and one     *)
(* charge, both as confirmed, after a pause to confirm.                    *)
(*                                                                         *)
(* None of this is inductive by itself.  The invariant says what each row  *)
(* of the purchase's tables knows about the provider's (ServiceInv), and   *)
(* what a caller still holds between two of its transactions: a version it *)
(* read is current or older, and what it decided on it is true as long as  *)
(* the version is still the purchase's (ReadInv).  The steps of a caller   *)
(* are proved apart from what they write, because every writer raises the  *)
(* version (Progress).                                                     *)
(***************************************************************************)
EXTENDS Purchase, TLAPS

-----------------------------------------------------------------------------
(* What the provider's tables tell on their own. *)

\* A row of the provider was made under a request key that has a receipt.
Keyed ==
    \A k \in Keys : carts[k] # NULL \/ quotes[k] # NULL \/ orders[k] # NULL \/ payments[k] # NULL
                      => receipts[k] # NULL

BooksInv == ProviderTypeOK /\ BooksBalance /\ Keyed

-----------------------------------------------------------------------------
Irreversible == {"order", "payment", "mock_pay"}

\* What the operation a purchase waits for may rely on.
ActiveInv(i) ==
    LET row == purchases[i]
        op == ops[row.active]
    IN  /\ op # NULL
        /\ op.purchase = i
        /\ op.status \in {"reserved", "unknown"}
        /\ op.kind \in {"update_cart", "quote"} => row.order = NULL
        /\ op.kind = "order" => op.target = row.quote
        /\ op.kind \in {"payment", "mock_pay"} => row.order # NULL

RowInv(i) ==
    LET row == purchases[i]
    IN  /\ row.conf # NULL => confs[row.conf] # NULL /\ confs[row.conf].quote = row.quote
        /\ row.order # NULL => orders[row.order] # NULL /\ orders[row.order].quote = row.quote
        /\ row.payment # NULL => /\ row.order # NULL
                                 /\ payments[row.payment] # NULL
                                 /\ ops[row.payment] # NULL /\ ops[row.payment].purchase = i
        /\ row.stage = "paid" =>
              row.payment # NULL /\ payments[row.payment].status = "paid"
        /\ row.active # NULL => ActiveInv(i)

\* Confirmations an operation may have consumed.
ConsumedBy(k, quote) ==
    \E q \in Keys : confs[q] # NULL /\ confs[q].op = k /\ confs[q].quote = quote

OpInv(k) ==
    LET op == ops[k]
        row == purchases[op.purchase]
    IN  /\ Exists(op.purchase)
        /\ op.status \in {"reserved", "unknown"} => row.active = k
        /\ op.status = "failed" => receipts[k] = NULL /\ wire[k] # "sent"
        /\ op.status = "completed" => receipts[k] # NULL
        /\ op.kind \in Irreversible /\ op.status = "completed" => row.order # NULL
        /\ op.kind \in Irreversible /\ op.status # "failed" => op.generation = row.generation
        /\ op.kind = "order" => ConsumedBy(k, op.target)
        /\ op.kind = "mock_pay" => /\ op.target # NULL
                                   /\ payments[op.target] # NULL
                                   /\ ops[op.target] # NULL /\ ops[op.target].purchase = op.purchase

\* The unique (purchase, kind, generation) of the irreversible kinds.
Unique ==
    \A k1, k2 \in Keys :
        /\ ops[k1] # NULL /\ ops[k2] # NULL
        /\ ops[k1].kind \in Irreversible
        /\ ops[k1].purchase = ops[k2].purchase /\ ops[k1].kind = ops[k2].kind
        /\ ops[k1].generation = ops[k2].generation
        => k1 = k2

\* Which receipt an operation of each kind can have.
ReceiptInv(k) ==
    LET op == ops[k]
        r == receipts[k]
    IN  /\ op # NULL
        /\ op.kind = "order" =>
              r.id = k /\ orders[k] # NULL /\ r.status = "awaiting_payment"
        /\ op.kind = "payment" =>
              r.id = k /\ payments[k] # NULL /\ r.status = "awaiting_payment"
        /\ op.kind = "mock_pay" =>
              /\ r.id = op.target
              /\ r.status = "paid" => payments[r.id].status = "paid"

MadeInv(k) ==
    /\ receipts[k] # NULL => ReceiptInv(k)
    /\ orders[k] # NULL => /\ ops[k] # NULL /\ ops[k].kind = "order"
                           /\ orders[k].quote = ops[k].target
    /\ payments[k] # NULL => ops[k] # NULL /\ ops[k].kind = "payment"
    /\ payments[k] # NULL /\ payments[k].status # "awaiting_payment" =>
          \E m \in Keys : receipts[m] # NULL /\ ops[m] # NULL /\ ops[m].kind = "mock_pay" /\ ops[m].target = k
    /\ confs[k] # NULL => ops[k] # NULL /\ ops[k].status = "completed"

WireInv(k) ==
    /\ wire[k] # "none" => ops[k] # NULL
    /\ wire[k] \in {"sent", "rejected"} => receipts[k] = NULL
    /\ wire[k] \in {"ok", "unknown"} => receipts[k] # NULL

ServiceInv ==
    /\ \A i \in Ids : Exists(i) => RowInv(i)
    /\ \A k \in Keys : ops[k] # NULL => OpInv(k)
    /\ \A k \in Keys : MadeInv(k) /\ WireInv(k)
    /\ Unique

-----------------------------------------------------------------------------
\* What a caller in state one read still holds if the version has not moved.
ReadInv(one) ==
    LET row == purchases[one.p]
        kind == one.req.kind
    IN  /\ one.pc \in {"reserve", "swap"} => one.version <= row.version
        /\ one.pc = "reserve" /\ row.version = one.version =>
              /\ kind # "none"
              /\ kind = "order" => row.conf # NULL /\ one.req.target = row.quote
              /\ kind = "payment" => row.order # NULL
              /\ kind = "mock_pay" => row.payment # NULL /\ one.req.target = row.payment
        /\ one.pc = "swap" => one.status # NULL
        /\ one.pc = "swap" /\ row.version = one.version =>
              /\ row.payment # NULL
              /\ one.status = "paid" => payments[row.payment].status = "paid"

\* It works on a purchase that exists, and waits for an operation that exists.
HoldsInv(one) ==
    /\ one.cur # NULL => one.curP # NULL /\ Exists(one.curP)
    /\ \/ one.pc \in {"lookup", "poll", "swap", "reserve", "call"}
       \/ one.pc = "act" /\ one.todo # "start"
       => one.p # NULL /\ Exists(one.p)
    /\ one.pc = "call" => one.op # NULL /\ ops[one.op] # NULL

\* One irreversible kind per turn: the one of the stage the turn began at.
PauseInv(one) ==
    /\ "order" \in one.did => one.cur = "quoted"
    /\ "mock_pay" \in one.did => one.cur = "awaiting_payment"
    /\ one.todo = "begin" => one.did = {} /\ one.pc # "reserve"
    /\ one.todo = "commit" \/ one.req.kind = "order" => one.cur = "quoted"
    /\ one.todo \in {"mock_pay", "pay"} \/ one.next = "pay" \/ one.req.kind = "mock_pay" =>
          one.cur = "awaiting_payment"

CallersInv ==
    \A c \in Callers : HoldsInv(caller[c]) /\ ReadInv(caller[c]) /\ PauseInv(caller[c])

\* What no step does: a purchase, an operation or a paid payment is not lost,
\* and a purchase is not written without a new version.
Progress ==
    /\ \A i \in Ids : Exists(i) =>
          /\ purchases'[i] # NULL
          /\ purchases'[i] = purchases[i] \/ purchases'[i].version > purchases[i].version
    /\ \A k \in Keys : ops[k] # NULL => ops'[k] # NULL
    /\ \A k \in Keys : payments[k] # NULL /\ payments[k].status = "paid" =>
                         payments'[k].status = "paid"

PurchaseInv == PurchaseTypeOK /\ BooksInv /\ ServiceInv /\ CallersInv

-----------------------------------------------------------------------------
(* The provider's transactions keep its books.                             *)

LEMMA BooksStart == ProviderInit => BooksInv
BY CatalogAssumption, NullAssumption
   DEF ProviderInit, BooksInv, ProviderTypeOK, BooksBalance, NothingOversold,
       PaymentsMatchOrders, Keyed, NoLines, Lines

LEMMA BooksCart ==
    ASSUME BooksInv, NEW key \in Keys, NEW owner \in Owners, NEW cart \in Keys \union {NULL},
           NEW version, NEW lines \in Lines, UpdateCart(key, owner, cart, version, lines)
    PROVE  BooksInv' /\ receipts'[key] # NULL
<1> DEFINE id == IF cart = NULL THEN key ELSE cart
           next == IF cart = NULL THEN 1 ELSE version + 1
           row == [owner |-> owner, version |-> next, lines |-> lines, order |-> NULL]
<1>1. /\ id \in Keys
      /\ next \in Nat
      /\ carts[id] # NULL => carts[id].order = NULL
      /\ cart # NULL => receipts[cart] # NULL
  BY NullAssumption DEF BooksInv, ProviderTypeOK, Keyed, UpdateCart, CartAccepts, Owned, Mutate, CartRows
<1>2. /\ row \in CartRows /\ row # NULL /\ row.order = NULL
  BY <1>1, NullAssumption DEF CartRows
<1>3. /\ carts' = [carts EXCEPT ![id] = row]
      /\ UNCHANGED <<quotes, orders, payments, sold, expired>>
  BY DEF UpdateCart
<1>4. PICK r \in Receipts : receipts[key] = NULL /\ receipts' = [receipts EXCEPT ![key] = r]
  <2>1. Receipt(owner, "update_cart", id, next, lines, "awaiting_payment") \in Receipts
    BY <1>1 DEF Receipt, Receipts, Kinds, PayStatuses
  <2> QED BY <2>1 DEF UpdateCart, Mutate
<1> HIDE DEF id, next, row
<1>5. ProviderTypeOK'
  BY <1>1, <1>2, <1>3, <1>4 DEF BooksInv, ProviderTypeOK
<1>6. NothingOversold'
  <2> SUFFICES ASSUME NEW k \in Keys, orders[k] # NULL
               PROVE  LET q == orders[k].quote
                      IN  /\ quotes[q] # NULL
                          /\ quotes[q].status = "consumed"
                          /\ carts'[quotes[q].cart] # NULL
                          /\ carts'[quotes[q].cart].order = k
    BY <1>3 DEF BooksInv, BooksBalance, NothingOversold
  <2>1. /\ quotes[orders[k].quote] # NULL /\ quotes[orders[k].quote].status = "consumed"
        /\ carts[quotes[orders[k].quote].cart] # NULL
        /\ carts[quotes[orders[k].quote].cart].order = k
    BY DEF BooksInv, BooksBalance, NothingOversold
  <2>2. quotes[orders[k].quote].cart # id
    BY <1>1, <2>1, NullAssumption
  <2> QED BY <1>1, <1>3, <2>1, <2>2 DEF BooksInv, ProviderTypeOK
<1>7. PaymentsMatchOrders' /\ Keyed'
  <2>1. receipts[key] = NULL /\ r # NULL
    BY <1>4, NullAssumption
  <2>2. receipts'[id] # NULL
    BY <1>1, <1>4, <2>1 DEF id, BooksInv, ProviderTypeOK
  <2>3. \A k \in Keys : receipts[k] # NULL => receipts'[k] # NULL
    BY <1>4, <2>1 DEF BooksInv, ProviderTypeOK
  <2>4. \A k \in Keys : k # id => carts'[k] = carts[k]
    BY <1>1, <1>3 DEF BooksInv, ProviderTypeOK
  <2> QED BY <1>3, <2>2, <2>3, <2>4 DEF BooksInv, BooksBalance, PaymentsMatchOrders, Keyed
<1>8. receipts'[key] # NULL
  BY <1>4, NullAssumption DEF BooksInv, ProviderTypeOK
<1> QED BY <1>5, <1>6, <1>7, <1>8 DEF BooksInv, BooksBalance

LEMMA BooksQuote ==
    ASSUME BooksInv, NEW key \in Keys, NEW owner \in Owners, NEW cart, NEW version,
           PrepareCheckout(key, owner, cart, version)
    PROVE  BooksInv' /\ receipts'[key] # NULL
<1>1. /\ cart \in Keys /\ carts[cart] \in CartRows
      /\ version \in Nat
      /\ receipts[key] = NULL /\ quotes[key] = NULL
  BY NullAssumption DEF BooksInv, ProviderTypeOK, Keyed, PrepareCheckout, QuoteAccepts, Owned, Mutate, CartRows
<1>2. UNCHANGED <<carts, orders, payments, sold, expired>>
  BY DEF PrepareCheckout
<1>3. PICK r \in Receipts : receipts' = [receipts EXCEPT ![key] = r]
  <2>1. \A id \in Keys, lines \in Lines :
          Receipt(owner, "quote", id, version, lines, "awaiting_payment") \in Receipts
    BY <1>1 DEF Receipt, Receipts, Kinds, PayStatuses
  <2>2. /\ carts[cart].lines \in Lines
        /\ \A q \in LiveQuotes(owner, cart, version) : q \in Keys /\ quotes[q].lines \in Lines
    BY <1>1, NullAssumption DEF BooksInv, ProviderTypeOK, CartRows, QuoteRows, LiveQuotes, Owned
  <2> QED BY <2>1, <2>2 DEF PrepareCheckout, Mutate
<1>4. \/ UNCHANGED quotes
      \/ \E row \in QuoteRows : quotes' = [quotes EXCEPT ![key] = row]
  <2>1. [owner |-> owner, cart |-> cart, version |-> version,
         lines |-> carts[cart].lines, status |-> "open"] \in QuoteRows
    BY <1>1 DEF CartRows, QuoteRows
  <2> QED BY <2>1 DEF PrepareCheckout
<1>5. ProviderTypeOK'
  BY <1>2, <1>3, <1>4 DEF BooksInv, ProviderTypeOK
<1>6. \A k \in Keys : quotes[k] # NULL => quotes'[k] = quotes[k]
  BY <1>1, <1>4 DEF BooksInv, ProviderTypeOK
<1>7. NothingOversold'
  BY <1>2, <1>6, NullAssumption
     DEF BooksInv, ProviderTypeOK, BooksBalance, NothingOversold, OrderRows
<1>8. PaymentsMatchOrders' /\ Keyed'
  <2>1. /\ \A k \in Keys : receipts[k] # NULL => receipts'[k] # NULL
        /\ receipts'[key] # NULL
        /\ \A k \in Keys : k # key => quotes'[k] = quotes[k]
    BY <1>3, <1>4, NullAssumption DEF BooksInv, ProviderTypeOK
  <2> QED BY <1>2, <2>1 DEF BooksInv, BooksBalance, PaymentsMatchOrders, Keyed
<1>9. receipts'[key] # NULL
  BY <1>3, NullAssumption DEF BooksInv, ProviderTypeOK
<1> QED BY <1>5, <1>7, <1>8, <1>9 DEF BooksInv, BooksBalance

LEMMA BooksOrder ==
    ASSUME BooksInv, NEW key \in Keys, NEW owner \in Owners, NEW quote,
           CreateOrder(key, owner, quote)
    PROVE  BooksInv' /\ receipts'[key] # NULL /\ orders'[key] # NULL
<1> DEFINE cart == quotes[quote].cart
           lines == quotes[quote].lines
           row == [owner |-> owner, quote |-> quote, status |-> "awaiting_payment"]
<1>1. /\ quote \in Keys /\ quotes[quote] \in QuoteRows
      /\ quotes[quote].status = "open"
      /\ cart \in Keys /\ carts[cart] \in CartRows /\ carts[cart].order = NULL
      /\ lines \in Lines
      /\ receipts[key] = NULL /\ orders[key] = NULL
  BY NullAssumption
     DEF BooksInv, ProviderTypeOK, Keyed, CreateOrder, OrderAccepts, Owned, Mutate, QuoteRows
<1>2. /\ orders' = [orders EXCEPT ![key] = row] /\ row \in OrderRows
      /\ quotes' = [quotes EXCEPT ![quote] = [quotes[quote] EXCEPT !.status = "consumed"]]
      /\ carts' = [carts EXCEPT ![cart] = [carts[cart] EXCEPT !.order = key,
                                                              !.version = carts[cart].version + 1]]
      /\ UNCHANGED <<payments, expired>>
  <2>1. row \in OrderRows
    BY <1>1 DEF OrderRows, PayStatuses
  <2> QED BY <1>1, <2>1 DEF CreateOrder, BooksInv, ProviderTypeOK
<1>3. sold' \in Lines /\ \A s \in Skus : sold'[s] <= Stock[s]
  <2>1. sold' = [s \in Skus |-> sold[s] + lines[s]]
    BY DEF CreateOrder
  <2>2. Available(lines)
    BY DEF CreateOrder, OrderAccepts
  <2>3. sold \in Lines /\ \A s \in Skus : sold[s] <= Stock[s]
    BY DEF BooksInv, ProviderTypeOK, BooksBalance, NothingOversold
  <2> HIDE DEF lines
  <2> QED BY <1>1, <2>1, <2>2, <2>3, CatalogAssumption DEF Lines, Available
<1>4. PICK r \in Receipts : receipts' = [receipts EXCEPT ![key] = r]
  <2>1. Receipt(owner, "order", key, 0, lines, "awaiting_payment") \in Receipts
    BY <1>1 DEF Receipt, Receipts, Kinds, PayStatuses
  <2> QED BY <2>1 DEF CreateOrder, Mutate
<1>5. /\ quotes'[quote] \in QuoteRows /\ quotes'[quote].status = "consumed"
      /\ quotes'[quote].cart = cart
      /\ carts'[cart] \in CartRows /\ carts'[cart].order = key
  <2>1. /\ [quotes[quote] EXCEPT !.status = "consumed"] \in QuoteRows
        /\ [quotes[quote] EXCEPT !.status = "consumed"].status = "consumed"
        /\ [quotes[quote] EXCEPT !.status = "consumed"].cart = cart
    BY <1>1 DEF QuoteRows
  <2>2. /\ [carts[cart] EXCEPT !.order = key, !.version = carts[cart].version + 1] \in CartRows
        /\ [carts[cart] EXCEPT !.order = key, !.version = carts[cart].version + 1].order = key
    <3>1. \A c \in CartRows, v \in Nat :
             /\ [c EXCEPT !.order = key, !.version = v] \in CartRows
             /\ [c EXCEPT !.order = key, !.version = v].order = key
      BY DEF CartRows
    <3>2. carts[cart].version + 1 \in Nat
      BY <1>1 DEF CartRows
    <3> QED BY <1>1, <3>1, <3>2
  <2> HIDE DEF cart
  <2> QED BY <1>1, <1>2, <2>1, <2>2 DEF BooksInv, ProviderTypeOK
<1>6. /\ \A k \in Keys : k # quote => quotes'[k] = quotes[k]
      /\ \A k \in Keys : k # cart => carts'[k] = carts[k]
      /\ \A k \in Keys : k # key => orders'[k] = orders[k] /\ receipts'[k] = receipts[k]
      /\ orders'[key] = row /\ receipts'[key] = r
  BY <1>1, <1>2, <1>4 DEF BooksInv, ProviderTypeOK
<1>7. ProviderTypeOK'
  <2> HIDE DEF cart, row
  <2> QED BY <1>1, <1>2, <1>3, <1>4, <1>5 DEF BooksInv, ProviderTypeOK
<1>8. NothingOversold'
  <2> SUFFICES ASSUME NEW k \in Keys, orders'[k] # NULL
               PROVE  LET q == orders'[k].quote
                      IN  /\ quotes'[q] # NULL
                          /\ quotes'[q].status = "consumed"
                          /\ carts'[quotes'[q].cart] # NULL
                          /\ carts'[quotes'[q].cart].order = k
    BY <1>3 DEF NothingOversold
  <2>1. CASE k = key
    BY <1>5, <1>6, <2>1, NullAssumption
  <2>2. CASE k # key
    <3> DEFINE q == orders[k].quote
    <3>1. /\ orders[k] # NULL /\ orders'[k] = orders[k]
          /\ quotes[q] # NULL /\ quotes[q].status = "consumed"
          /\ carts[quotes[q].cart] # NULL /\ carts[quotes[q].cart].order = k
          /\ q \in Keys /\ quotes[q].cart \in Keys
      BY <1>6, <2>2 DEF BooksInv, ProviderTypeOK, BooksBalance, NothingOversold, OrderRows, QuoteRows
    <3>2. q # quote /\ quotes[q].cart # cart
      BY <1>1, <3>1, NullAssumption
    <3> QED BY <1>6, <3>1, <3>2
  <2> QED BY <2>1, <2>2
<1>9. PaymentsMatchOrders'
  <2>1. \A p \in Keys : payments[p] # NULL =>
           /\ payments[p].order \in Keys
           /\ orders[payments[p].order] # NULL
    BY DEF BooksInv, ProviderTypeOK, BooksBalance, PaymentsMatchOrders, PaymentRows
  <2>2. \A p \in Keys : payments[p] # NULL => payments[p].order # key
    BY <1>1, <2>1
  <2> QED BY <1>2, <1>6, <2>1, <2>2 DEF BooksInv, BooksBalance, PaymentsMatchOrders
<1>10. Keyed'
  <2>1. receipts[quote] # NULL /\ receipts[cart] # NULL /\ r # NULL
    BY <1>1, NullAssumption DEF BooksInv, Keyed
  <2> HIDE DEF cart, row
  <2> QED BY <1>1, <1>2, <1>6, <2>1 DEF BooksInv, Keyed
<1>11. receipts'[key] # NULL /\ orders'[key] # NULL
  BY <1>2, <1>6, NullAssumption
<1> QED BY <1>7, <1>8, <1>9, <1>10, <1>11 DEF BooksInv, BooksBalance

\* The lines of an order are a cart's lines.
LEMMA OrderedLines ==
    ASSUME BooksInv, NEW order \in Keys, orders[order] # NULL
    PROVE  OrderLines(order) \in Lines
BY DEF BooksInv, ProviderTypeOK, BooksBalance, NothingOversold, OrderLines, OrderRows, QuoteRows

LEMMA BooksPayment ==
    ASSUME BooksInv, NEW key \in Keys, NEW owner \in Owners, NEW order,
           CreatePayment(key, owner, order)
    PROVE  BooksInv' /\ receipts'[key] # NULL /\ payments'[key] # NULL
<1> DEFINE row == [owner |-> owner, order |-> order, status |-> "awaiting_payment"]
<1>1. /\ order \in Keys /\ orders[order] # NULL /\ orders[order].status = "awaiting_payment"
      /\ receipts[key] = NULL /\ payments[key] = NULL
      /\ \A p \in Keys : payments[p] # NULL => payments[p].order # order
  BY DEF BooksInv, Keyed, CreatePayment, PaymentAccepts, Owned, Mutate
<1>2. /\ payments' = [payments EXCEPT ![key] = row] /\ row \in PaymentRows
      /\ UNCHANGED <<carts, quotes, orders, sold, expired>>
  <2>1. row \in PaymentRows
    BY <1>1 DEF PaymentRows, PayStatuses
  <2> QED BY <2>1 DEF CreatePayment
<1>3. PICK r \in Receipts : receipts' = [receipts EXCEPT ![key] = r]
  <2>1. Receipt(owner, "payment", key, 0, OrderLines(order), "awaiting_payment") \in Receipts
    BY <1>1, OrderedLines DEF Receipt, Receipts, Kinds, PayStatuses
  <2> QED BY <2>1 DEF CreatePayment, Mutate
<1>4. /\ \A k \in Keys : k # key => payments'[k] = payments[k] /\ receipts'[k] = receipts[k]
      /\ payments'[key] = row /\ receipts'[key] = r /\ r # NULL /\ row # NULL
  BY <1>2, <1>3, NullAssumption DEF BooksInv, ProviderTypeOK
<1>5. ProviderTypeOK'
  BY <1>2, <1>3 DEF BooksInv, ProviderTypeOK
<1>6. NothingOversold' /\ Keyed'
  BY <1>2, <1>4 DEF BooksInv, BooksBalance, NothingOversold, Keyed
<1>7. PaymentsMatchOrders'
  BY <1>1, <1>2, <1>4 DEF BooksInv, BooksBalance, PaymentsMatchOrders
<1> QED BY <1>4, <1>5, <1>6, <1>7 DEF BooksInv, BooksBalance

\* A payment and its order go to another status together (mock_pay, settle_payment).
LEMMA BooksMoney ==
    ASSUME BooksInv, NEW payment \in Keys, NEW status \in PayStatuses, payments[payment] # NULL,
           payments' = [payments EXCEPT ![payment].status = status],
           orders' = [orders EXCEPT ![payments[payment].order].status = status],
           UNCHANGED <<carts, quotes, sold, expired>>,
           UNCHANGED receipts \/ \E key \in Keys, r \in Receipts :
                                    receipts' = [receipts EXCEPT ![key] = r]
    PROVE  BooksInv'
<1> DEFINE order == payments[payment].order
<1>1. /\ payments[payment] \in PaymentRows
      /\ order \in Keys /\ orders[order] \in OrderRows
  BY DEF BooksInv, ProviderTypeOK, BooksBalance, PaymentsMatchOrders, PaymentRows
<1>2. /\ payments' = [payments EXCEPT ![payment] = [payments[payment] EXCEPT !.status = status]]
      /\ orders' = [orders EXCEPT ![order] = [orders[order] EXCEPT !.status = status]]
  BY <1>1 DEF BooksInv, ProviderTypeOK
<1>3. /\ [payments[payment] EXCEPT !.status = status] \in PaymentRows
      /\ [payments[payment] EXCEPT !.status = status].order = order
      /\ [payments[payment] EXCEPT !.status = status].status = status
      /\ [orders[order] EXCEPT !.status = status] \in OrderRows
      /\ [orders[order] EXCEPT !.status = status].quote = orders[order].quote
      /\ [orders[order] EXCEPT !.status = status].status = status
  BY <1>1 DEF PaymentRows, OrderRows
<1> HIDE DEF order
<1>4. /\ \A p \in Keys : p # payment => payments'[p] = payments[p]
      /\ payments'[payment] # NULL /\ payments'[payment].order = order
      /\ payments'[payment].status = status
      /\ \A k \in Keys : k # order => orders'[k] = orders[k]
      /\ orders'[order] # NULL /\ orders'[order].quote = orders[order].quote
      /\ orders'[order].status = status
      /\ \A k \in Keys : receipts[k] # NULL => receipts'[k] # NULL
  BY <1>1, <1>2, <1>3, NullAssumption DEF BooksInv, ProviderTypeOK
<1>5. orders[order] # NULL /\ payments[payment].order = order
  BY <1>1, NullAssumption DEF order
<1>6. ProviderTypeOK'
  BY <1>1, <1>2, <1>3 DEF BooksInv, ProviderTypeOK
<1>7. NothingOversold' /\ Keyed'
  BY <1>1, <1>4, <1>5 DEF BooksInv, BooksBalance, NothingOversold, Keyed
<1>8. PaymentsMatchOrders'
  BY <1>1, <1>4, <1>5 DEF BooksInv, BooksBalance, PaymentsMatchOrders
<1> QED BY <1>6, <1>7, <1>8 DEF BooksInv, BooksBalance

LEMMA BooksPay ==
    ASSUME BooksInv, NEW key \in Keys, NEW owner \in Owners, NEW payment, NEW status,
           MockPay(key, owner, payment, status)
    PROVE  BooksInv' /\ receipts'[key] # NULL
<1>1. /\ payment \in Keys /\ payments[payment] # NULL /\ status \in PayStatuses
      /\ payments[payment].order \in Keys /\ orders[payments[payment].order] # NULL
  BY DEF MockPay, PayAccepts, Owned, PayStatuses, BooksInv, BooksBalance, PaymentsMatchOrders,
         ProviderTypeOK, PaymentRows
<1>2. PICK r \in Receipts : receipts' = [receipts EXCEPT ![key] = r]
  <2>1. Receipt(owner, "mock_pay", payment, 0, OrderLines(payments[payment].order), status)
          \in Receipts
    BY <1>1, OrderedLines DEF Receipt, Receipts, Kinds
  <2> QED BY <2>1 DEF MockPay, Mutate
<1>3. receipts'[key] # NULL
  BY <1>2, NullAssumption DEF BooksInv, ProviderTypeOK
<1> QED BY <1>1, <1>2, <1>3, BooksMoney DEF MockPay

LEMMA BooksSettle ==
    ASSUME BooksInv, NEW payment \in Keys, NEW status, SettlePayment(payment, status)
    PROVE  BooksInv'
BY BooksMoney DEF SettlePayment, PayStatuses

\* The deadline of a quote, and other customers' orders, leave the tables alone.
LEMMA BooksElse ==
    ASSUME BooksInv, UNCHANGED <<carts, quotes, orders, payments, receipts>>,
           expired' \subseteq Keys, sold' \in Lines, \A s \in Skus : sold'[s] <= Stock[s]
    PROVE  BooksInv'
BY DEF BooksInv, ProviderTypeOK, BooksBalance, NothingOversold, PaymentsMatchOrders, Keyed

LEMMA BooksStutter ==
    ASSUME BooksInv, UNCHANGED providerVars
    PROVE  BooksInv'
BY BooksElse DEF providerVars, BooksInv, ProviderTypeOK, BooksBalance, NothingOversold

(* The provider on its own keeps its books, whoever calls it and with what *)
(* (create_order, create_payment, mock_pay, settle_payment).               *)
THEOREM ProviderBooks == ProviderSpec => []BooksBalance
<1>1. ASSUME BooksInv, [ProviderNext]_providerVars PROVE BooksInv'
  <2>1. CASE UNCHANGED providerVars
    BY <1>1, <2>1, BooksStutter
  <2>2. ASSUME NEW key \in Keys, NEW owner \in Owners,
               NEW cart \in Keys \union {NULL}, NEW version \in Nat \union {NULL},
               NEW lines \in Lines, UpdateCart(key, owner, cart, version, lines)
        PROVE  BooksInv'
    BY <1>1, <2>2, BooksCart
  <2>3. ASSUME NEW key \in Keys, NEW owner \in Owners, NEW cart \in Keys, NEW version \in Nat,
               PrepareCheckout(key, owner, cart, version)
        PROVE  BooksInv'
    BY <1>1, <2>3, BooksQuote
  <2>4. ASSUME NEW key \in Keys, NEW owner \in Owners, NEW id \in Keys,
               CreateOrder(key, owner, id) \/ CreatePayment(key, owner, id)
        PROVE  BooksInv'
    BY <1>1, <2>4, BooksOrder, BooksPayment
  <2>5. ASSUME NEW key \in Keys, NEW owner \in Owners, NEW payment \in Keys,
               NEW status \in PayStatuses, MockPay(key, owner, payment, status)
        PROVE  BooksInv'
    BY <1>1, <2>5, BooksPay
  <2>6. ASSUME NEW payment \in Keys, NEW status \in PayStatuses, SettlePayment(payment, status)
        PROVE  BooksInv'
    BY <1>1, <2>6, BooksSettle
  <2>7. ASSUME NEW q \in Keys, ExpireQuote(q) PROVE BooksInv'
    BY <1>1, <2>7, BooksElse
       DEF ExpireQuote, BooksInv, ProviderTypeOK, BooksBalance, NothingOversold
  <2> QED BY <1>1, <2>1, <2>2, <2>3, <2>4, <2>5, <2>6, <2>7 DEF ProviderNext
<1>2. BooksInv => BooksBalance
  BY DEF BooksInv
<1> QED BY BooksStart, <1>1, <1>2, PTL DEF ProviderSpec

-----------------------------------------------------------------------------
(* Writing a row of the purchase and of its operation.                     *)

ServiceTypeOK ==
    /\ purchases \in [Ids -> PurchaseRows \union {NULL}]
    /\ ops \in [Keys -> Operations \union {NULL}]
    /\ confs \in [Keys -> Confirmations \union {NULL}]
    /\ wire \in [Keys -> {"none", "sent", "ok", "unknown", "rejected"}]

\* Answers may be dropped, nothing else happens on the wire.
WireFades ==
    /\ wire' \in [Keys -> {"none", "sent", "ok", "unknown", "rejected"}]
    /\ \A k \in Keys : wire'[k] = wire[k] \/ wire'[k] = "none"

LEMMA OpMarked ==
    ASSUME NEW op \in Operations, NEW status \in {"reserved", "unknown", "failed", "completed"},
           NEW next, next = [op EXCEPT !.status = status]
    PROVE  /\ next \in Operations /\ next # NULL
           /\ next.status = status
           /\ next.purchase = op.purchase /\ next.kind = op.kind
           /\ next.generation = op.generation /\ next.target = op.target
<1>1. next \in Operations
  BY DEF Operations
<1>2. next # NULL
  BY <1>1, NullIsNoRow
<1> QED BY <1>1, <1>2 DEF Operations

\* The operation a purchase waits for, and the purchase it is of.
LEMMA TheActive ==
    ASSUME ServiceTypeOK, ServiceInv, NEW k \in Keys, ops[k] # NULL
    PROVE  /\ ops[k] \in Operations /\ ops[k].purchase \in Ids
           /\ purchases[ops[k].purchase] \in PurchaseRows
           /\ purchases[ops[k].purchase].version \in Nat
           /\ Exists(ops[k].purchase)
           /\ OpInv(k) /\ RowInv(ops[k].purchase)
<1>1. ops[k] \in Operations /\ ops[k].purchase \in Ids
  BY DEF ServiceTypeOK, Operations
<1>2. OpInv(k)
  BY DEF ServiceInv
<1>3. Exists(ops[k].purchase)
  BY <1>2 DEF OpInv
<1>4. purchases[ops[k].purchase] \in PurchaseRows
  BY <1>1, <1>3 DEF ServiceTypeOK, Exists
<1>5. purchases[ops[k].purchase].version \in Nat
  BY <1>4 DEF PurchaseRows
<1> QED BY <1>1, <1>2, <1>3, <1>4, <1>5 DEF ServiceInv

\* Nothing of the service is written.
LEMMA ServiceStutter ==
    ASSUME ServiceTypeOK, ServiceInv, UNCHANGED <<providerVars, serviceVars>>, WireFades
    PROVE  ServiceTypeOK' /\ ServiceInv' /\ Progress
<1> USE DEF providerVars, serviceVars
<1>1. ServiceTypeOK' /\ Progress
  BY DEF ServiceTypeOK, WireFades, Progress, Exists
<1>2. \A i \in Ids : Exists(i)' => RowInv(i)'
  BY DEF ServiceInv, RowInv, ActiveInv, Exists
<1>3. \A k \in Keys : ops'[k] # NULL => OpInv(k)'
  BY DEF ServiceInv, OpInv, ConsumedBy, Exists, WireFades
<1>4. \A k \in Keys : MadeInv(k)' /\ WireInv(k)'
  BY DEF ServiceInv, MadeInv, ReceiptInv, WireInv, WireFades
<1>5. Unique'
  BY DEF ServiceInv, Unique
<1> QED BY <1>1, <1>2, <1>3, <1>4, <1>5 DEF ServiceInv

\* One purchase and one operation of it are written, perhaps with a new confirmation.
LEMMA RowWritten ==
    ASSUME ServiceTypeOK, ServiceInv, UNCHANGED providerVars, WireFades,
           NEW i \in Ids, Exists(i), NEW next \in PurchaseRows,
           purchases' = [purchases EXCEPT ![i] = next],
           next.version > purchases[i].version,
           NEW k \in Keys, ops[k] # NULL, ops[k].purchase = i, purchases[i].active \in {k, NULL},
           NEW op \in Operations, ops' = [ops EXCEPT ![k] = op],
           op.purchase = i, op.kind = ops[k].kind, op.generation = ops[k].generation,
           op.target = ops[k].target, ops[k].status = "completed" => op.status = "completed",
           confs' \in [Keys -> Confirmations \union {NULL}],
           \A q \in Keys : confs[q] # NULL => confs'[q] = confs[q],
           \A q \in Keys : confs'[q] # NULL => confs[q] # NULL \/ (q = k /\ op.status = "completed"),
           purchases[i].order # NULL => next.order # NULL,
           next.generation = purchases[i].generation \/ purchases[i].order = NULL,
           RowInv(i)', OpInv(k)'
    PROVE  ServiceTypeOK' /\ ServiceInv' /\ Progress
<1>1. /\ \A j \in Ids : j # i => purchases'[j] = purchases[j]
      /\ purchases'[i] = next /\ next # NULL
      /\ \A x \in Keys : x # k => ops'[x] = ops[x]
      /\ ops'[k] = op /\ op # NULL
  BY NullIsNoRow DEF ServiceTypeOK
<1>2. /\ UNCHANGED <<carts, quotes, orders, payments, sold, receipts, expired>>
  BY DEF providerVars
<1>3. \A x \in Keys : ops'[x] # NULL =>
         /\ ops[x] # NULL /\ ops'[x].kind = ops[x].kind /\ ops'[x].target = ops[x].target
         /\ ops'[x].purchase = ops[x].purchase /\ ops'[x].generation = ops[x].generation
  BY <1>1
<1>4. \A x \in Keys : ops[x] # NULL =>
         /\ ops'[x] # NULL /\ ops'[x].kind = ops[x].kind /\ ops'[x].target = ops[x].target
         /\ ops'[x].purchase = ops[x].purchase /\ ops'[x].generation = ops[x].generation
         /\ ops[x].status = "completed" => ops'[x].status = "completed"
  BY <1>1
<1>5. ServiceTypeOK' /\ Progress
  BY <1>1, <1>2 DEF ServiceTypeOK, WireFades, Progress, Exists
<1>6. ASSUME NEW j \in Ids, Exists(j)', j # i PROVE RowInv(j)'
  <2>1. purchases'[j] = purchases[j] /\ Exists(j) /\ RowInv(j)
    BY <1>1, <1>6 DEF Exists, ServiceInv
  <2>2. /\ purchases[j].active \in Keys \union {NULL} /\ purchases[j].payment \in Keys \union {NULL}
        /\ purchases[j].conf \in Keys \union {NULL}
    BY <2>1 DEF Exists, ServiceTypeOK, PurchaseRows
  <2>3. purchases[j].active # NULL => ActiveInv(j)'
    <3>1. purchases[j].active # NULL => ActiveInv(j) /\ purchases[j].active # k
      BY <1>6, <2>1 DEF RowInv, ActiveInv
    <3> QED BY <1>1, <2>1, <2>2, <3>1 DEF ActiveInv
  <2> QED BY <1>2, <1>4, <2>1, <2>2, <2>3 DEF RowInv
<1>7. ASSUME NEW x \in Keys, ops'[x] # NULL, x # k PROVE OpInv(x)'
  <2>1. ops'[x] = ops[x] /\ ops[x] # NULL /\ OpInv(x)
    BY <1>1, <1>7 DEF ServiceInv
  <2>2. /\ ops[x].purchase \in Ids /\ ops[x].target \in Keys \union {NULL}
        /\ Exists(ops[x].purchase)
        /\ ops[x].status \in {"reserved", "unknown", "failed", "completed"}
    BY <2>1 DEF OpInv, ServiceTypeOK, Operations
  <2>3. Exists(ops[x].purchase)'
    BY <1>1, <2>2 DEF Exists
  <2>4. ops[x].status \in {"reserved", "unknown"} =>
           ops[x].purchase # i /\ purchases'[ops[x].purchase].active = x
    BY <1>1, <1>7, <2>1, <2>2, NullAssumption DEF OpInv
  <2>5. ops[x].kind \in Irreversible /\ ops[x].status = "completed" =>
           purchases'[ops[x].purchase].order # NULL
    BY <1>1, <2>1, <2>2 DEF OpInv
  <2>6. ops[x].kind \in Irreversible /\ ops[x].status # "failed" =>
           ops[x].generation = purchases'[ops[x].purchase].generation
    BY <1>1, <2>1, <2>2, <2>4 DEF OpInv
  <2>7. ops[x].kind = "order" => ConsumedBy(x, ops[x].target)'
    BY <2>1 DEF OpInv, ConsumedBy
  <2>8. ops[x].kind = "mock_pay" =>
           /\ ops[x].target # NULL /\ payments'[ops[x].target] # NULL
           /\ ops'[ops[x].target] # NULL /\ ops'[ops[x].target].purchase = ops[x].purchase
    BY <1>2, <1>4, <2>1, <2>2 DEF OpInv
  <2>9. ops[x].status = "failed" => receipts'[x] = NULL /\ wire'[x] # "sent"
    BY <1>2, <2>1 DEF OpInv, WireFades
  <2>10. ops[x].status = "completed" => receipts'[x] # NULL
    BY <1>2, <2>1 DEF OpInv
  <2> QED BY <2>1, <2>3, <2>4, <2>5, <2>6, <2>7, <2>8, <2>9, <2>10 DEF OpInv, ConsumedBy
<1>8. ASSUME NEW x \in Keys PROVE MadeInv(x)' /\ WireInv(x)'
  <2>1. MadeInv(x) /\ WireInv(x)
    BY DEF ServiceInv
  <2>2. receipts'[x] # NULL => ReceiptInv(x)'
    BY <1>2, <1>4, <2>1 DEF MadeInv, ReceiptInv
  <2>3. confs'[x] # NULL => ops'[x] # NULL /\ ops'[x].status = "completed"
    BY <1>1, <1>4, <2>1 DEF MadeInv
  <2>4. payments[x] # NULL /\ payments[x].status # "awaiting_payment" =>
          \E m \in Keys : receipts[m] # NULL /\ ops'[m] # NULL /\ ops'[m].kind = "mock_pay"
                            /\ ops'[m].target = x
    BY <1>4, <2>1 DEF MadeInv
  <2>5. WireInv(x)'
    BY <1>2, <1>4, <2>1 DEF WireInv, WireFades
  <2> QED BY <1>2, <1>4, <2>1, <2>2, <2>3, <2>4, <2>5 DEF MadeInv
<1>9. Unique'
  BY <1>3 DEF ServiceInv, Unique
<1> QED BY <1>5, <1>6, <1>7, <1>8, <1>9 DEF ServiceInv

LEMMA MarkKeeps ==
    ASSUME ServiceTypeOK, ServiceInv, UNCHANGED providerVars, WireFades,
           NEW k \in Keys, ops[k] # NULL, NEW failed \in BOOLEAN, Mark(k, failed),
           failed => wire[k] = "rejected"
    PROVE  ServiceTypeOK' /\ ServiceInv' /\ Progress
<1>0. PICK i \in Ids, row \in PurchaseRows, op \in Operations :
         i = ops[k].purchase /\ row = purchases[i] /\ op = ops[k]
  BY TheActive
<1>1. CASE row.active # k
  BY <1>0, <1>1, ServiceStutter DEF Mark
<1>2. CASE row.active = k
  <2>1. /\ op \in Operations /\ i \in Ids /\ row \in PurchaseRows /\ row # NULL
        /\ row.version \in Nat /\ k # NULL
        /\ OpInv(k) /\ RowInv(i) /\ ActiveInv(i)
    BY <1>0, <1>2, TheActive, NullAssumption DEF Exists, RowInv
  <2>2. PICK stage \in {"failed", "unknown"}, active \in {NULL, k} :
           stage = (IF failed THEN "failed" ELSE "unknown") /\ active = (IF failed THEN NULL ELSE k)
    OBVIOUS
  <2>v. PICK version \in Nat : version = row.version + 1
    BY <2>1
  <2>w. PICK nextRow, nextOp :
           /\ nextRow = [row EXCEPT !.stage = stage, !.active = active, !.version = version]
           /\ nextOp = [op EXCEPT !.status = stage]
    OBVIOUS
  <2>3. /\ purchases' = [purchases EXCEPT ![i] = nextRow]
        /\ ops' = [ops EXCEPT ![k] = nextOp]
        /\ UNCHANGED confs
    BY <1>0, <1>2, <2>1, <2>2, <2>v, <2>w DEF Mark, ServiceTypeOK
  <2>4. /\ nextRow \in PurchaseRows /\ nextRow # NULL
        /\ nextRow.active = active /\ nextRow.version = version /\ nextRow.stage = stage
        /\ nextRow.generation = row.generation
        /\ nextRow.quote = row.quote /\ nextRow.conf = row.conf
        /\ nextRow.order = row.order /\ nextRow.payment = row.payment
    <3>1. stage \in Stages /\ active \in Keys \union {NULL}
      BY <2>1 DEF Stages
    <3>2. nextRow \in PurchaseRows
      BY <2>w, <3>1 DEF PurchaseRows
    <3>3. nextRow # NULL
      BY <3>2, NullIsNoRow
    <3> QED BY <2>w, <3>2, <3>3 DEF PurchaseRows
  <2>5. /\ nextOp \in Operations /\ nextOp # NULL /\ nextOp.status = stage
        /\ nextOp.purchase = i /\ nextOp.kind = op.kind
        /\ nextOp.generation = op.generation /\ nextOp.target = op.target
    BY <1>0, <2>1, <2>w, OpMarked
  <2>6. /\ purchases'[i] = nextRow /\ ops'[k] = nextOp
        /\ UNCHANGED <<orders, payments, receipts, confs>>
        /\ \A x \in Keys : ops[x] # NULL => ops'[x] # NULL /\ ops'[x].purchase = ops[x].purchase
    BY <1>0, <2>1, <2>3, <2>5 DEF ServiceTypeOK, providerVars
  <2>7. RowInv(i)'
    <3>1. active # NULL => ActiveInv(i)'
      <4> QED BY <1>0, <1>2, <2>1, <2>2, <2>4, <2>5, <2>6 DEF ActiveInv
    <3>2. row.payment # NULL => ops'[row.payment] # NULL /\ ops'[row.payment].purchase = i
      BY <1>0, <2>1, <2>6 DEF RowInv, PurchaseRows
    <3>3. row.conf # NULL => confs'[row.conf] = confs[row.conf]
      BY <2>6
    <3> QED BY <1>0, <2>1, <2>2, <2>4, <2>6, <3>1, <3>2 DEF RowInv
  <2>8. OpInv(k)'
    <3>1. /\ failed => receipts'[k] = NULL /\ wire'[k] # "sent"
      BY <2>6 DEF ServiceInv, WireInv, WireFades
    <3>2. op.kind = "order" => ConsumedBy(k, op.target)'
      BY <1>0, <2>1, <2>5, <2>6 DEF OpInv, ConsumedBy
    <3>3. op.status \in {"reserved", "unknown"}
      BY <1>0, <1>2, <2>1 DEF ActiveInv
    <3>4. op.kind = "mock_pay" => /\ op.target # NULL /\ payments'[op.target] # NULL
                                  /\ ops'[op.target] # NULL
                                  /\ ops'[op.target].purchase = op.purchase
      BY <1>0, <2>1, <2>6 DEF OpInv, Operations
    <3>5. Exists(i)'
      BY <2>4, <2>6 DEF Exists
    <3>6. op.kind \in Irreversible => op.generation = row.generation
      BY <1>0, <2>1, <3>3 DEF OpInv
    <3> QED BY <1>0, <2>1, <2>2, <2>4, <2>5, <2>6, <3>1, <3>2, <3>3, <3>4, <3>5, <3>6 DEF OpInv, ConsumedBy
  <2>9. nextRow.version > row.version
    BY <2>1, <2>v, <2>4
  <2>10. ops[k].status # "completed"
    BY <1>0, <1>2, <2>1 DEF ActiveInv
  <2> QED BY <1>0, <1>2, <2>1, <2>3, <2>4, <2>5, <2>7, <2>8, <2>9, <2>10, RowWritten
            DEF Exists, ServiceTypeOK
<1> QED BY <1>1, <1>2

\* What the receipt of an operation makes of its purchase.
LEMMA RowSettled ==
    ASSUME NEW row \in PurchaseRows, NEW op \in Operations, NEW r \in Receipts, NEW next,
           next = Settled(row, op, r), row.active \in Keys
    PROVE  /\ next \in PurchaseRows /\ next # NULL
           /\ next.active = NULL /\ next.version = row.version + 1
           /\ op.kind = "update_cart" =>
                 /\ next.stage = "cart" /\ next.conf = NULL
                 /\ next.order = row.order /\ next.payment = row.payment
           /\ op.kind = "quote" =>
                 /\ next.stage = "quoted" /\ next.quote = r.id /\ next.conf = row.active
                 /\ next.order = row.order /\ next.payment = row.payment
           /\ op.kind = "order" =>
                 /\ next.stage = r.status /\ next.quote = row.quote /\ next.conf = row.conf
                 /\ next.order = r.id /\ next.payment = row.payment
           /\ op.kind \in {"payment", "mock_pay"} =>
                 /\ next.stage = r.status /\ next.quote = row.quote /\ next.conf = row.conf
                 /\ next.order = row.order /\ next.payment = r.id
           /\ op.kind # "update_cart" => next.generation = row.generation
<1>1. PICK v \in Nat, g \in Nat : v = row.version + 1 /\ g = row.generation + 1
  BY DEF PurchaseRows
<1>2. /\ r.id \in Keys /\ r.version \in Nat /\ r.status \in PayStatuses
      /\ op.kind \in Kinds
  BY DEF Receipts, Operations
<1> DEFINE base == [row EXCEPT !.active = NULL, !.version = v]
<1>3. base = [row EXCEPT !.active = NULL, !.version = @ + 1]
  BY <1>1
<1>4. /\ base \in PurchaseRows
      /\ base.active = NULL /\ base.version = v /\ base.stage = row.stage
      /\ base.conf = row.conf /\ base.quote = row.quote /\ base.order = row.order
      /\ base.payment = row.payment /\ base.generation = row.generation /\ base.slot = row.slot
  BY DEF PurchaseRows
<1> HIDE DEF base
<1>5. CASE op.kind = "update_cart"
  <2>1. next = [base EXCEPT !.stage = "cart", !.cart = r.id, !.cartVersion = r.version,
                            !.generation = g, !.quote = NULL, !.conf = NULL]
    BY <1>1, <1>3, <1>4, <1>5 DEF Settled
  <2>2. next \in PurchaseRows
    <3>1. PICK staged \in PurchaseRows : staged = [base EXCEPT !.stage = "cart"]
      <4>1. [base EXCEPT !.stage = "cart"] \in PurchaseRows
        BY <1>4 DEF PurchaseRows, Stages
      <4> QED BY <4>1
    <3>2. PICK mid \in PurchaseRows : mid = [staged EXCEPT !.cart = r.id, !.cartVersion = r.version]
      <4>1. [staged EXCEPT !.cart = r.id, !.cartVersion = r.version] \in PurchaseRows
        BY <1>2 DEF PurchaseRows
      <4> QED BY <4>1
    <3>3. [mid EXCEPT !.generation = g, !.quote = NULL, !.conf = NULL] \in PurchaseRows
      BY DEF PurchaseRows
    <3> QED BY <2>1, <3>1, <3>2, <3>3
  <2>3. /\ next.active = NULL /\ next.version = v
        /\ next.stage = "cart" /\ next.conf = NULL
        /\ next.order = row.order /\ next.payment = row.payment
    BY <1>4, <2>1 DEF PurchaseRows
  <2> QED BY <1>1, <1>5, <2>2, <2>3, NullIsNoRow
<1>6. CASE op.kind = "quote"
  <2>1. next = [base EXCEPT !.stage = "quoted", !.quote = r.id, !.conf = row.active]
    BY <1>1, <1>3, <1>4, <1>6 DEF Settled
  <2>2. next \in PurchaseRows
    BY <1>2, <1>4, <2>1 DEF PurchaseRows, Stages
  <2>3. /\ next.active = NULL /\ next.version = v
        /\ next.stage = "quoted" /\ next.quote = r.id /\ next.conf = row.active
        /\ next.order = row.order /\ next.payment = row.payment
        /\ next.generation = row.generation
    BY <1>4, <2>1 DEF PurchaseRows
  <2> QED BY <1>1, <1>6, <2>2, <2>3, NullIsNoRow
<1>7. CASE op.kind = "order"
  <2>1. next = [base EXCEPT !.stage = r.status, !.order = r.id, !.payStatus = r.status]
    BY <1>1, <1>3, <1>4, <1>7 DEF Settled
  <2>2. next \in PurchaseRows
    BY <1>2, <1>4, <2>1 DEF PurchaseRows, Stages
  <2>3. /\ next.active = NULL /\ next.version = v
        /\ next.stage = r.status /\ next.quote = row.quote /\ next.conf = row.conf
        /\ next.order = r.id /\ next.payment = row.payment
        /\ next.generation = row.generation
    BY <1>4, <2>1 DEF PurchaseRows
  <2> QED BY <1>1, <1>7, <2>2, <2>3, NullIsNoRow
<1>8. CASE op.kind \in {"payment", "mock_pay"}
  <2>1. PICK slot \in BOOLEAN : slot = (row.slot /\ r.status # "paid")
    OBVIOUS
  <2>2. next = [base EXCEPT !.stage = r.status, !.payment = r.id, !.payStatus = r.status,
                            !.slot = slot]
    BY <1>1, <1>3, <1>4, <1>8, <2>1 DEF Settled
  <2>3. next \in PurchaseRows
    BY <1>2, <1>4, <2>2 DEF PurchaseRows, Stages
  <2>4. /\ next.active = NULL /\ next.version = v
        /\ next.stage = r.status /\ next.quote = row.quote /\ next.conf = row.conf
        /\ next.order = row.order /\ next.payment = r.id
        /\ next.generation = row.generation
    BY <1>4, <2>2 DEF PurchaseRows
  <2> QED BY <1>1, <1>8, <2>3, <2>4, NullIsNoRow
<1> QED BY <1>2, <1>5, <1>6, <1>7, <1>8 DEF Kinds

LEMMA FinishKeeps ==
    ASSUME ServiceTypeOK, ProviderTypeOK, ServiceInv, UNCHANGED providerVars, WireFades,
           NEW k \in Keys, ops[k] # NULL, receipts[k] # NULL, Finish(k)
    PROVE  ServiceTypeOK' /\ ServiceInv' /\ Progress
<1>0. PICK i \in Ids, row \in PurchaseRows, op \in Operations, r \in Receipts :
         i = ops[k].purchase /\ row = purchases[i] /\ op = ops[k] /\ r = receipts[k]
  BY TheActive DEF ProviderTypeOK
<1>1. CASE row.active # k
  BY <1>0, <1>1, ServiceStutter DEF Finish
<1>2. CASE row.active = k /\ ~Matches(row, op, r)
  BY <1>0, <1>2, MarkKeeps DEF Finish
<1>3. CASE row.active = k /\ Matches(row, op, r)
  <2>1. /\ row # NULL /\ row.version \in Nat /\ k # NULL
        /\ OpInv(k) /\ RowInv(i) /\ ActiveInv(i) /\ MadeInv(k) /\ ReceiptInv(k)
    <3>1. row # NULL /\ row.version \in Nat /\ k # NULL /\ OpInv(k) /\ RowInv(i)
      BY <1>0, TheActive, NullAssumption DEF Exists
    <3>2. ActiveInv(i)
      BY <1>0, <1>3, <3>1 DEF RowInv
    <3>3. MadeInv(k) /\ ReceiptInv(k)
      BY DEF ServiceInv, MadeInv
    <3> QED BY <3>1, <3>2, <3>3
  <2>2. PICK next, nextOp :
           next = Settled(row, op, r) /\ nextOp = [op EXCEPT !.status = "completed"]
    OBVIOUS
  <2>3. /\ purchases' = [purchases EXCEPT ![i] = next]
        /\ ops' = [ops EXCEPT ![k] = nextOp]
        /\ op.kind # "quote" => UNCHANGED confs
    BY <1>0, <1>3, <2>2 DEF Finish, ServiceTypeOK
  <2>4. PICK conf \in Confirmations :
           /\ conf # NULL /\ conf.quote = r.id
           /\ op.kind = "quote" => confs' = [confs EXCEPT ![k] = conf]
    <3>1. [version |-> row.version + 1, generation |-> row.generation,
           quote |-> receipts[k].id, op |-> NULL] \in Confirmations
      BY <1>0, <2>1 DEF Confirmations, PurchaseRows, Receipts
    <3> QED BY <1>0, <1>3, <3>1, NullIsNoRow DEF Finish
  <2>5. /\ next \in PurchaseRows /\ next # NULL
        /\ next.active = NULL /\ next.version = row.version + 1
        /\ op.kind = "update_cart" =>
              /\ next.stage = "cart" /\ next.conf = NULL
              /\ next.order = row.order /\ next.payment = row.payment
        /\ op.kind = "quote" =>
              /\ next.stage = "quoted" /\ next.quote = r.id /\ next.conf = k
              /\ next.order = row.order /\ next.payment = row.payment
        /\ op.kind = "order" =>
              /\ next.stage = r.status /\ next.quote = row.quote /\ next.conf = row.conf
              /\ next.order = r.id /\ next.payment = row.payment
        /\ op.kind \in {"payment", "mock_pay"} =>
              /\ next.stage = r.status /\ next.quote = row.quote /\ next.conf = row.conf
              /\ next.order = row.order /\ next.payment = r.id
        /\ op.kind # "update_cart" => next.generation = row.generation
    BY <1>3, <2>2, RowSettled
  <2>6. /\ nextOp \in Operations /\ nextOp # NULL /\ nextOp.status = "completed"
        /\ nextOp.purchase = i /\ nextOp.kind = op.kind
        /\ nextOp.generation = op.generation /\ nextOp.target = op.target
    BY <1>0, <2>2, OpMarked
  <2>7. confs[k] = NULL
    BY <1>0, <1>3, <2>1 DEF ActiveInv, MadeInv
  <2>8. /\ confs' \in [Keys -> Confirmations \union {NULL}]
        /\ \A q \in Keys : confs[q] # NULL => confs'[q] = confs[q]
        /\ \A q \in Keys : confs'[q] # NULL => confs[q] # NULL \/ q = k
        /\ op.kind = "quote" => confs'[k] = conf
    BY <2>3, <2>4, <2>7 DEF ServiceTypeOK
  <2>9. /\ purchases'[i] = next /\ ops'[k] = nextOp
        /\ UNCHANGED <<orders, payments, receipts>>
        /\ \A x \in Keys : ops[x] # NULL => ops'[x] # NULL /\ ops'[x].purchase = ops[x].purchase
    BY <1>0, <2>3, <2>6 DEF ServiceTypeOK, providerVars
  <2>10. RowInv(i)'
    <3>1. next.conf # NULL => confs'[next.conf] # NULL /\ confs'[next.conf].quote = next.quote
      <4>1. row.conf # NULL => /\ row.conf \in Keys /\ confs[row.conf] # NULL
                               /\ confs[row.conf].quote = row.quote
        BY <1>0, <2>1 DEF RowInv, PurchaseRows
      <4>2. op.kind # "quote" /\ next.conf # NULL => next.conf = row.conf /\ next.quote = row.quote
        BY <2>5 DEF Operations, Kinds
      <4>3. op.kind = "quote" => confs'[k] # NULL /\ confs'[k].quote = r.id
        BY <2>4, <2>8
      <4> QED BY <2>5, <2>8, <4>1, <4>2, <4>3
    <3>2. /\ next.order # NULL => orders[next.order] # NULL /\ orders[next.order].quote = next.quote
      <4>1. op.kind = "order" => orders[r.id] # NULL /\ orders[r.id].quote = row.quote
        BY <1>0, <1>3, <2>1 DEF ReceiptInv, MadeInv, ActiveInv
      <4>2. op.kind \in {"update_cart", "quote"} => row.order = NULL
        BY <1>0, <1>3, <2>1 DEF ActiveInv
      <4> QED BY <1>0, <2>1, <2>5, <4>1, <4>2 DEF RowInv, Operations, Kinds
    <3>3. next.payment # NULL => /\ next.order # NULL /\ payments[next.payment] # NULL
                                 /\ ops'[next.payment] # NULL /\ ops'[next.payment].purchase = i
      <4>1. op.kind \in {"payment", "mock_pay"} =>
               /\ row.order # NULL /\ r.id \in Keys /\ payments[r.id] # NULL
               /\ ops[r.id] # NULL /\ ops[r.id].purchase = i
        BY <1>0, <1>3, <2>1 DEF ReceiptInv, OpInv, ActiveInv, Receipts
      <4>2. row.payment # NULL => /\ row.payment \in Keys /\ row.order # NULL
                                  /\ payments[row.payment] # NULL
                                  /\ ops[row.payment] # NULL /\ ops[row.payment].purchase = i
        BY <1>0, <2>1 DEF RowInv, PurchaseRows
      <4>3. op.kind = "order" => next.order # NULL
        BY <2>5, NullAssumption DEF Receipts
      <4> QED BY <2>5, <2>9, <4>1, <4>2, <4>3 DEF Operations, Kinds
    <3>4. next.stage = "paid" =>
             next.payment # NULL /\ payments[next.payment].status = "paid"
      <4>1. op.kind \in {"order", "payment"} => r.status = "awaiting_payment"
        BY <1>0, <2>1 DEF ReceiptInv
      <4>2. op.kind = "mock_pay" /\ r.status = "paid" => payments[r.id].status = "paid"
        BY <1>0, <2>1 DEF ReceiptInv
      <4>3. r.id # NULL
        BY NullAssumption DEF Receipts
      <4> QED BY <2>5, <4>1, <4>2, <4>3 DEF Operations, Kinds
    <3> QED BY <2>5, <2>9, <3>1, <3>2, <3>3, <3>4 DEF RowInv
  <2>11. OpInv(k)'
    <3>1. op.kind = "order" => ConsumedBy(k, op.target)'
      BY <1>0, <2>1, <2>8 DEF OpInv, ConsumedBy
    <3>2. op.kind = "mock_pay" => /\ op.target # NULL /\ payments'[op.target] # NULL
                                  /\ ops'[op.target] # NULL
                                  /\ ops'[op.target].purchase = op.purchase
      BY <1>0, <2>1, <2>9 DEF OpInv, Operations
    <3>3. op.kind \in Irreversible => next.order # NULL
      <4>1. op.kind \in {"payment", "mock_pay"} => row.order # NULL
        BY <1>0, <1>3, <2>1 DEF ActiveInv
      <4> QED BY <2>5, <4>1, NullAssumption DEF Receipts, Irreversible
    <3>4. op.kind \in Irreversible => op.generation = next.generation
      BY <1>0, <1>3, <2>1, <2>5 DEF OpInv, ActiveInv, Irreversible
    <3>5. Exists(i)' /\ op.purchase = i /\ receipts'[k] # NULL
      BY <1>0, <2>5, <2>9 DEF Exists
    <3> QED BY <2>6, <2>9, <3>1, <3>2, <3>3, <3>4, <3>5 DEF OpInv, ConsumedBy
  <2>12. /\ next.version > row.version
         /\ row.order # NULL => next.order # NULL
         /\ next.generation = row.generation \/ row.order = NULL
    <3>1. op.kind \in {"update_cart", "quote"} => row.order = NULL
      BY <1>0, <1>3, <2>1 DEF ActiveInv
    <3> QED BY <2>1, <2>5, <3>1, NullAssumption DEF Receipts, Operations, Kinds
  <2> QED BY <1>0, <1>3, <2>1, <2>3, <2>5, <2>6, <2>8, <2>10, <2>11, <2>12, RowWritten DEF Exists
<1> QED BY <1>1, <1>2, <1>3

LEMMA RowPolled ==
    ASSUME NEW row \in PurchaseRows, NEW status \in PayStatuses, NEW version \in Nat,
           NEW slot \in BOOLEAN
    PROVE  [row EXCEPT !.stage = status, !.payStatus = status, !.version = version,
                       !.slot = slot] \in PurchaseRows
<1>1. [row EXCEPT !.stage = status, !.payStatus = status, !.version = version] \in PurchaseRows
  <2>1. status \in Stages
    BY DEF Stages
  <2>2. PICK stage \in Stages : stage = status
    BY <2>1
  <2> QED BY <2>2 DEF PurchaseRows
<1>2. \A base \in PurchaseRows : [base EXCEPT !.slot = slot] \in PurchaseRows
  BY DEF PurchaseRows
<1>3. [row EXCEPT !.stage = status, !.payStatus = status, !.version = version, !.slot = slot]
        = [[row EXCEPT !.stage = status, !.payStatus = status, !.version = version]
             EXCEPT !.slot = slot]
  OBVIOUS
<1> QED BY <1>1, <1>2, <1>3

\* The swap of a polled payment status into the purchase.
LEMMA SwapKeeps ==
    ASSUME ServiceTypeOK, ServiceInv, UNCHANGED <<providerVars, ops, confs, wire>>,
           NEW i \in Ids, Exists(i), NEW status \in PayStatuses,
           purchases[i].active = NULL, purchases[i].payment # NULL,
           status = "paid" => payments[purchases[i].payment].status = "paid",
           purchases' = [purchases EXCEPT ![i].stage = status, ![i].payStatus = status,
                            ![i].version = @ + 1, ![i].slot = @ /\ ~(status = "paid")]
    PROVE  ServiceTypeOK' /\ ServiceInv' /\ Progress
<1>0. PICK row \in PurchaseRows : row = purchases[i]
  BY DEF ServiceTypeOK, Exists
<1>a. PICK version \in Nat : version = row.version + 1
  BY DEF PurchaseRows
<1>b. PICK slot \in BOOLEAN : slot = (row.slot /\ ~(status = "paid"))
  OBVIOUS
<1>2. PICK next : next = [row EXCEPT !.stage = status, !.payStatus = status,
                                     !.version = version, !.slot = slot]
  OBVIOUS
<1>3. purchases' = [purchases EXCEPT ![i] = next]
  <2>1. purchases[i].version + 1 = version /\ (purchases[i].slot /\ ~(status = "paid")) = slot
    BY <1>0, <1>a, <1>b
  <2>2. purchases' = [purchases EXCEPT ![i].stage = status, ![i].payStatus = status,
                                       ![i].version = version, ![i].slot = slot]
    BY <2>1
  <2> QED BY <1>0, <1>2, <2>2 DEF ServiceTypeOK
<1>4. next \in PurchaseRows
  BY <1>2, RowPolled
<1>5. /\ next.stage = status /\ next.version = version
      /\ next.generation = row.generation
      /\ next.quote = row.quote /\ next.conf = row.conf /\ next.active = row.active
      /\ next.order = row.order /\ next.payment = row.payment
  BY <1>2 DEF PurchaseRows
<1>6. /\ RowInv(i) /\ row.payment \in Keys
      /\ ops[row.payment] # NULL /\ ops[row.payment].purchase = i
      /\ ops[row.payment] \in Operations /\ OpInv(row.payment)
  BY <1>0 DEF ServiceInv, RowInv, PurchaseRows, ServiceTypeOK
<1>7. purchases'[i] = next /\ next # NULL /\ next.version > row.version
  BY <1>a, <1>3, <1>4, <1>5, NullIsNoRow DEF ServiceTypeOK, PurchaseRows
<1>8. PICK k \in Keys, op \in Operations : k = row.payment /\ op = ops[k]
  BY <1>6
<1>9. RowInv(i)'
  BY <1>0, <1>5, <1>6, <1>7 DEF RowInv, providerVars
<1>10. OpInv(k)'
  <2>1. op.status \notin {"reserved", "unknown"}
    BY <1>0, <1>6, <1>8, NullAssumption DEF OpInv
  <2>2. Exists(i)'
    BY <1>7 DEF Exists
  <2>3. /\ ops'[k] = op /\ purchases'[i] = next /\ op.purchase = i
        /\ wire'[k] = wire[k] /\ UNCHANGED <<receipts, payments, confs>>
    BY <1>7, <1>6, <1>8 DEF providerVars
  <2>4. op.kind = "order" => ConsumedBy(k, op.target)'
    BY <1>6, <1>8, <2>3 DEF OpInv, ConsumedBy
  <2>5. op.kind = "mock_pay" => /\ op.target # NULL /\ payments'[op.target] # NULL
                                /\ ops'[op.target] # NULL
                                /\ ops'[op.target].purchase = op.purchase
    BY <1>6, <1>8, <2>3 DEF OpInv
  <2>6. OpInv(k) /\ purchases[op.purchase] = row
    BY <1>0, <1>6, <1>8, <2>3
  <2> QED BY <1>5, <1>8, <2>1, <2>2, <2>3, <2>4, <2>5, <2>6 DEF OpInv, ConsumedBy
<1>11. /\ ops' = [ops EXCEPT ![k] = op]
       /\ WireFades
       /\ confs' \in [Keys -> Confirmations \union {NULL}]
  BY <1>8 DEF ServiceTypeOK, WireFades
<1>12. /\ ops[k] # NULL /\ ops[k].purchase = i
       /\ op.purchase = i /\ op.kind = ops[k].kind /\ op.generation = ops[k].generation
       /\ op.target = ops[k].target /\ (ops[k].status = "completed" => op.status = "completed")
       /\ purchases[i].active \in {k, NULL} /\ next.version > purchases[i].version
       /\ \A q \in Keys : confs[q] # NULL => confs'[q] = confs[q]
       /\ \A q \in Keys : confs'[q] # NULL => confs[q] # NULL
       /\ purchases[i].order # NULL => next.order # NULL
       /\ next.generation = purchases[i].generation
  BY <1>0, <1>5, <1>6, <1>7, <1>8
<1> QED BY <1>3, <1>4, <1>9, <1>10, <1>11, <1>12, RowWritten

LEMMA NewPurchaseIsNew ==
    NewPurchase \in PurchaseRows /\ NewPurchase # NULL
<1>1. NewPurchase \in PurchaseRows
  BY DEF NewPurchase, PurchaseRows, Stages
<1> QED BY <1>1, NullIsNoRow

\* A purchase is started.
LEMMA StartKeeps ==
    ASSUME ServiceTypeOK, ServiceInv, UNCHANGED <<providerVars, ops, confs, wire>>,
           NEW j \in Ids, ~Exists(j), purchases' = [purchases EXCEPT ![j] = NewPurchase]
    PROVE  ServiceTypeOK' /\ ServiceInv' /\ Progress
<1>1. /\ \A i \in Ids : i # j => purchases'[i] = purchases[i]
      /\ purchases'[j] = NewPurchase
  BY DEF ServiceTypeOK
<1>2. ServiceTypeOK' /\ Progress
  BY <1>1, NewPurchaseIsNew DEF ServiceTypeOK, Progress, Exists, providerVars
<1>3. ASSUME NEW i \in Ids, Exists(i)' PROVE RowInv(i)'
  <2>1. CASE i = j
    BY <1>1, <2>1 DEF RowInv, NewPurchase
  <2>2. CASE i # j
    <3>1. purchases'[i] = purchases[i] /\ RowInv(i)
      BY <1>1, <1>3, <2>2 DEF ServiceInv, Exists
    <3> QED BY <3>1 DEF RowInv, ActiveInv, providerVars
  <2> QED BY <2>1, <2>2
<1>4. ASSUME NEW k \in Keys, ops'[k] # NULL PROVE OpInv(k)'
  <2>1. OpInv(k) /\ ops[k].purchase \in Ids /\ ops[k].purchase # j
    BY <1>4 DEF ServiceInv, OpInv, ServiceTypeOK, Operations
  <2>2. purchases'[ops[k].purchase] = purchases[ops[k].purchase]
    BY <1>1, <2>1
  <2> QED BY <2>1, <2>2 DEF OpInv, ConsumedBy, Exists, providerVars
<1>5. \A k \in Keys : MadeInv(k)' /\ WireInv(k)'
  BY DEF ServiceInv, MadeInv, ReceiptInv, WireInv, providerVars
<1>6. Unique'
  BY DEF ServiceInv, Unique
<1> QED BY <1>2, <1>3, <1>4, <1>5, <1>6 DEF ServiceInv

\* What _reserve writes when it may.
ReservedOp(c, i) ==
    LET row == purchases[i]
        kind == caller[c].req.kind
    IN  [purchase |-> i, kind |-> kind,
         generation |-> IF kind \in {"update_cart", "quote"} THEN row.version + 1
                        ELSE row.generation,
         status |-> "reserved", cart |-> caller[c].req.cart,
         version |-> caller[c].req.version, lines |-> caller[c].req.lines,
         target |-> caller[c].req.target]

Blocks(c, i, k) ==
    /\ ops' = [ops EXCEPT ![k] = ReservedOp(c, i)]
    /\ purchases' = [purchases EXCEPT ![i].stage = "submitting",
                                      ![i].version = @ + 1, ![i].active = k]
    /\ confs' = IF caller[c].req.kind = "order"
                THEN [confs EXCEPT ![purchases[i].conf].op = k] ELSE confs
    /\ wire' = [wire EXCEPT ![k] = "sent"]

LEMMA RowReserved ==
    ASSUME NEW row \in PurchaseRows, NEW version \in Nat, NEW k \in Keys
    PROVE  [row EXCEPT !.stage = "submitting", !.version = version, !.active = k] \in PurchaseRows
BY DEF PurchaseRows, Stages

\* A purchase is blocked with a new operation, which is sent.
LEMMA ReserveKeeps ==
    ASSUME ServiceTypeOK, ServiceInv, UNCHANGED providerVars,
           NEW c \in Callers, caller[c].req \in Requests, ReadInv(caller[c]), caller[c].pc = "reserve",
           NEW i \in Ids, caller[c].p = i, Exists(i), CanReserve(c),
           NEW k \in Keys, ops[k] = NULL,
           Blocks(c, i, k)
    PROVE  ServiceTypeOK' /\ ServiceInv' /\ Progress
<1>0. /\ caller[c].req.target \in Keys \union {NULL}
      /\ purchases[i] \in PurchaseRows
  BY DEF Requests, ServiceTypeOK, Exists
<1>r. PICK row \in PurchaseRows : row = purchases[i]
  BY <1>0
<1>k. PICK kind : kind = caller[c].req.kind
  OBVIOUS
<1>t. PICK target \in Keys \union {NULL} : target = caller[c].req.target
  BY <1>0
<1>1. /\ RowInv(i) /\ row.active = NULL /\ row.version = caller[c].version
      /\ row.version \in Nat /\ row.generation \in Nat
      /\ kind \in Kinds /\ k # NULL
      /\ kind = "order" => /\ row.conf # NULL /\ row.conf \in Keys /\ confs[row.conf] # NULL
                           /\ confs[row.conf].op = NULL
                           /\ target = row.quote /\ confs[row.conf].quote = row.quote
      /\ kind = "payment" => row.order # NULL
      /\ kind = "mock_pay" => row.payment # NULL /\ target = row.payment
      /\ kind \in {"update_cart", "quote"} => row.order = NULL
      /\ kind \in Irreversible => Used(i, kind) = {}
  <2>1. /\ row.version = caller[c].version /\ row.active = NULL
        /\ kind \in {"update_cart", "quote"} => row.order = NULL
        /\ kind \in Irreversible => Used(i, kind) = {}
        /\ kind = "order" => confs[row.conf].op = NULL
    BY <1>r, <1>k, <1>t DEF CanReserve, Irreversible
  <2>2. /\ kind # "none"
        /\ kind = "order" => row.conf # NULL /\ target = row.quote
        /\ kind = "payment" => row.order # NULL
        /\ kind = "mock_pay" => row.payment # NULL /\ target = row.payment
    BY <1>r, <1>k, <1>t, <2>1 DEF ReadInv
  <2>3. RowInv(i) /\ k # NULL
    BY NullAssumption DEF ServiceInv
  <2>4. /\ row.version \in Nat /\ row.generation \in Nat
        /\ row.conf # NULL => row.conf \in Keys
    BY DEF PurchaseRows
  <2>5. kind \in Kinds
    BY <1>r, <1>k, <1>t, <2>2 DEF Requests
  <2> QED BY <1>r, <1>k, <1>t, <2>1, <2>2, <2>3, <2>4, <2>5 DEF RowInv
<1>v. PICK version \in Nat : version = row.version + 1
  BY <1>1
<1>2. PICK next : next = [row EXCEPT !.stage = "submitting", !.version = version, !.active = k]
  OBVIOUS
<1>3. purchases' = [purchases EXCEPT ![i] = next]
  BY <1>r, <1>k, <1>t, <1>v, <1>2 DEF ServiceTypeOK, Blocks
<1>4. /\ next \in PurchaseRows /\ next # NULL
      /\ next.stage = "submitting" /\ next.version = version /\ next.active = k
      /\ next.generation = row.generation
      /\ next.quote = row.quote /\ next.conf = row.conf
      /\ next.order = row.order /\ next.payment = row.payment
  <2>1. next \in PurchaseRows
    BY <1>2, RowReserved
  <2>2. next # NULL
    BY <2>1, NullIsNoRow
  <2> QED BY <1>2, <2>1, <2>2 DEF PurchaseRows
<1>5. PICK op \in Operations :
         /\ op = ReservedOp(c, i) /\ op # NULL
         /\ op.purchase = i /\ op.kind = kind /\ op.status = "reserved" /\ op.target = target
         /\ kind \in Irreversible => op.generation = row.generation
  <2>1. PICK generation \in Nat :
           generation = IF kind \in {"update_cart", "quote"} THEN row.version + 1
                        ELSE row.generation
    BY <1>1
  <2>2. ReservedOp(c, i) =
           [purchase |-> i, kind |-> kind, generation |-> generation, status |-> "reserved",
            cart |-> caller[c].req.cart, version |-> caller[c].req.version,
            lines |-> caller[c].req.lines, target |-> target]
    BY <1>r, <1>k, <1>t, <2>1 DEF ReservedOp
  <2>3. ReservedOp(c, i) \in Operations
    BY <1>1, <2>2 DEF Operations, Requests
  <2> QED BY <2>1, <2>2, <2>3, NullIsNoRow DEF Irreversible
<1>6. /\ \A j \in Ids : j # i => purchases'[j] = purchases[j]
      /\ purchases'[i] = next
      /\ \A x \in Keys : x # k => ops'[x] = ops[x] /\ wire'[x] = wire[x]
      /\ ops'[k] = op /\ wire'[k] = "sent"
      /\ UNCHANGED <<carts, quotes, orders, payments, sold, receipts, expired>>
  BY <1>3, <1>5 DEF ServiceTypeOK, providerVars, Blocks
<1>7. /\ confs' \in [Keys -> Confirmations \union {NULL}]
      /\ \A q \in Keys : confs[q] # NULL => confs'[q] # NULL /\ confs'[q].quote = confs[q].quote
      /\ \A q \in Keys : confs'[q] # NULL => confs[q] # NULL
      /\ \A q \in Keys : confs[q] # NULL /\ confs[q].op # NULL => confs'[q] = confs[q]
      /\ kind = "order" => confs'[row.conf].op = k
  <2>1. CASE kind # "order"
    BY <1>r, <1>k, <1>t, <2>1 DEF ServiceTypeOK, Blocks
  <2>2. CASE kind = "order"
    <3>1. PICK old \in Confirmations, conf \in Confirmations :
             /\ old = confs[row.conf] /\ conf = [old EXCEPT !.op = k] /\ conf.op = k
             /\ conf.quote = old.quote /\ conf # NULL
      <4>1. confs[row.conf] \in Confirmations
        BY <1>1, <2>2 DEF ServiceTypeOK
      <4>2. \A old \in Confirmations :
               /\ [old EXCEPT !.op = k] \in Confirmations /\ [old EXCEPT !.op = k].op = k
               /\ [old EXCEPT !.op = k].quote = old.quote
        BY DEF Confirmations
      <4> QED BY <4>1, <4>2, NullIsNoRow
    <3>2. confs' = [confs EXCEPT ![row.conf] = conf]
      BY <1>r, <1>k, <1>t, <1>1, <2>2, <3>1 DEF ServiceTypeOK, Blocks
    <3> QED BY <1>1, <2>2, <3>1, <3>2 DEF ServiceTypeOK
  <2> QED BY <2>1, <2>2
<1>8. ServiceTypeOK' /\ Progress
  <2>1. ServiceTypeOK'
    <3>1. /\ ops' = [ops EXCEPT ![k] = op]
          /\ wire' = [wire EXCEPT ![k] = "sent"]
      BY <1>5 DEF Blocks
    <3> QED BY <1>3, <1>4, <1>5, <1>7, <3>1 DEF ServiceTypeOK
  <2>2. next.version > row.version
    BY <1>1, <1>v, <1>4
  <2>3. \A x \in Keys : ops[x] # NULL => ops'[x] # NULL
    BY <1>6
  <2> QED BY <1>r, <1>k, <1>t, <1>4, <1>6, <2>1, <2>2, <2>3 DEF Progress, Exists
<1>9. ASSUME NEW j \in Ids, Exists(j)' PROVE RowInv(j)'
  <2>1. PICK old \in PurchaseRows, new \in PurchaseRows :
           /\ old = purchases[j] /\ new = purchases'[j]
           /\ new.quote = old.quote /\ new.conf = old.conf
           /\ new.order = old.order /\ new.payment = old.payment
           /\ j # i => new = old
           /\ RowInv(j)
    <3>1. Exists(j)
      BY <1>6, <1>9 DEF Exists
    <3>2. purchases[j] \in PurchaseRows
      BY <3>1 DEF Exists, ServiceTypeOK
    <3>3. RowInv(j)
      BY <3>1 DEF ServiceInv
    <3> QED BY <1>r, <1>k, <1>t, <1>4, <1>6, <3>2, <3>3
  <2>2. /\ old.conf # NULL => confs'[old.conf] # NULL /\ confs'[old.conf].quote = old.quote
        /\ old.order # NULL => orders'[old.order] # NULL /\ orders'[old.order].quote = old.quote
        /\ old.payment # NULL => /\ old.order # NULL /\ payments'[old.payment] # NULL
                                 /\ ops'[old.payment] # NULL
                                 /\ ops'[old.payment].purchase = j
    <3>1. /\ old.conf # NULL => old.conf \in Keys
          /\ old.payment # NULL => old.payment \in Keys
      BY DEF PurchaseRows
    <3>2. old.conf # NULL => confs[old.conf] # NULL /\ confs[old.conf].quote = old.quote
      BY <2>1 DEF RowInv
    <3>3. old.payment # NULL => /\ old.order # NULL /\ payments[old.payment] # NULL
                                /\ ops[old.payment] # NULL /\ ops[old.payment].purchase = j
      BY <2>1 DEF RowInv
    <3>4. old.order # NULL => orders[old.order] # NULL /\ orders[old.order].quote = old.quote
      BY <2>1 DEF RowInv
    <3>5. old.payment # NULL => old.payment # k
      BY <3>3
    <3> QED BY <1>6, <1>7, <3>1, <3>2, <3>3, <3>4, <3>5
  <2>3. new.stage = "paid" => new.payment # NULL /\ payments'[new.payment].status = "paid"
    <3>1. new.stage = "paid" => j # i
      BY <1>4, <1>6, <2>1
    <3> QED BY <1>6, <2>1, <3>1 DEF RowInv
  <2>4. new.active # NULL => ActiveInv(j)'
    <3>1. CASE j = i
      <4>1. purchases'[i] = next /\ next.active = k /\ ops'[k] = op
        BY <1>4, <1>6
      <4>2. /\ op # NULL /\ op.purchase = i /\ op.status = "reserved"
            /\ op.kind = kind /\ op.target = target
        BY <1>5
      <4>3. /\ kind \in {"update_cart", "quote"} => next.order = NULL
            /\ kind = "order" => target = next.quote
            /\ kind \in {"payment", "mock_pay"} => next.order # NULL
        BY <1>r, <1>k, <1>t, <1>1, <1>4 DEF RowInv
      <4> QED BY <3>1, <4>1, <4>2, <4>3 DEF ActiveInv
    <3>2. CASE j # i
      <4>1. old.active # NULL => ActiveInv(j) /\ old.active \in Keys /\ old.active # k
        BY <2>1 DEF RowInv, ActiveInv, PurchaseRows
      <4> QED BY <1>6, <2>1, <3>2, <4>1 DEF ActiveInv
    <3> QED BY <3>1, <3>2
  <2> QED BY <2>1, <2>2, <2>3, <2>4 DEF RowInv
<1>10. ASSUME NEW x \in Keys, ops'[x] # NULL PROVE OpInv(x)'
  <2>1. CASE x = k
    <3>1. Exists(i)'
      BY <1>4, <1>6 DEF Exists
    <3>2. kind = "order" => ConsumedBy(k, target)'
      BY <1>1, <1>7 DEF ConsumedBy
    <3>3. kind = "mock_pay" => /\ target # NULL /\ payments'[target] # NULL
                               /\ ops'[target] # NULL /\ ops'[target].purchase = i
      <4>1. kind = "mock_pay" => /\ target # NULL /\ payments[target] # NULL
                                 /\ ops[target] # NULL /\ ops[target].purchase = i
        BY <1>r, <1>k, <1>t, <1>1 DEF RowInv
      <4>2. kind = "mock_pay" => target # k
        BY <4>1
      <4> QED BY <1>6, <4>1, <4>2
    <3> QED BY <1>4, <1>5, <1>6, <2>1, <3>1, <3>2, <3>3 DEF OpInv, ConsumedBy
  <2>2. CASE x # k
    <3>1. PICK one \in Operations, p \in Ids :
             one = ops[x] /\ ops'[x] = one /\ p = one.purchase /\ OpInv(x) /\ wire'[x] = wire[x]
      BY <1>6, <1>10, <2>2 DEF ServiceInv, ServiceTypeOK, Operations
    <3>2. /\ Exists(p) /\ Exists(p)'
          /\ purchases'[p].order = purchases[p].order
          /\ purchases'[p].generation = purchases[p].generation
          /\ one.status \in {"reserved", "unknown"} =>
                purchases[p].active = x /\ purchases'[p].active = x
      <4>1. Exists(p) /\ (one.status \in {"reserved", "unknown"} => purchases[p].active = x)
        BY <3>1 DEF OpInv
      <4>2. one.status \in {"reserved", "unknown"} => p # i
        BY <1>r, <1>k, <1>t, <1>1, <4>1, NullAssumption
      <4> QED BY <1>r, <1>k, <1>t, <1>4, <1>6, <4>1, <4>2 DEF Exists
    <3>3. one.kind = "order" => ConsumedBy(x, one.target)'
      BY <1>7, <3>1, NullAssumption DEF OpInv, ConsumedBy
    <3>4. one.kind = "mock_pay" =>
             /\ one.target # NULL /\ payments'[one.target] # NULL
             /\ ops'[one.target] # NULL /\ ops'[one.target].purchase = p
      <4>1. one.kind = "mock_pay" =>
               /\ one.target # NULL /\ one.target \in Keys /\ payments[one.target] # NULL
               /\ ops[one.target] # NULL /\ ops[one.target].purchase = p
        BY <3>1 DEF OpInv, Operations
      <4>2. one.kind = "mock_pay" => one.target # k
        BY <4>1
      <4> QED BY <1>6, <4>1, <4>2
    <3> QED BY <1>6, <3>1, <3>2, <3>3, <3>4 DEF OpInv, ConsumedBy
  <2> QED BY <2>1, <2>2
<1>11. ASSUME NEW x \in Keys PROVE MadeInv(x)' /\ WireInv(x)'
  <2>1. MadeInv(x) /\ WireInv(x) /\ MadeInv(k)
    BY DEF ServiceInv
  <2>2. \A y \in Keys : ops[y] # NULL => ops'[y] = ops[y]
    BY <1>6
  <2>3. receipts[k] = NULL
    BY <2>1 DEF MadeInv, ReceiptInv
  <2>4. receipts'[x] # NULL => ReceiptInv(x)'
    BY <1>6, <2>1, <2>2 DEF MadeInv, ReceiptInv
  <2>5. MadeInv(x)'
    BY <1>6, <1>7, <2>1, <2>2, <2>4 DEF MadeInv
  <2>6. WireInv(x)'
    BY <1>5, <1>6, <2>1, <2>2, <2>3 DEF WireInv
  <2> QED BY <2>5, <2>6
<1>12. Unique'
  <2>1. \A x \in Keys : ops'[x] # NULL /\ x # k /\ kind \in Irreversible
                        /\ ops'[x].purchase = i /\ ops'[x].kind = kind =>
                           ops'[x].generation # row.generation
    BY <1>r, <1>k, <1>t, <1>1, <1>6 DEF Used
  <2>2. ASSUME NEW x1 \in Keys, NEW x2 \in Keys,
               ops'[x1] # NULL, ops'[x2] # NULL, x1 # k, x2 # k,
               ops'[x1].kind \in Irreversible,
               ops'[x1].purchase = ops'[x2].purchase, ops'[x1].kind = ops'[x2].kind,
               ops'[x1].generation = ops'[x2].generation
        PROVE  x1 = x2
    <3>1. \A x \in Keys : ops'[x] # NULL /\ x # k => ops[x] # NULL /\ ops'[x] = ops[x]
      BY <1>6
    <3>2. ops'[x1] = ops[x1] /\ ops'[x2] = ops[x2]
      BY <2>2, <3>1
    <3> QED BY <2>2, <3>2 DEF ServiceInv, Unique
  <2> QED BY <1>5, <1>6, <2>1, <2>2 DEF Unique
<1> QED BY <1>8, <1>9, <1>10, <1>11, <1>12 DEF ServiceInv

\* The provider commits or settles, or a request is refused.
LEMMA ProviderKeeps ==
    ASSUME ServiceTypeOK, ServiceInv, UNCHANGED serviceVars,
           wire' \in [Keys -> {"none", "sent", "ok", "unknown", "rejected"}],
           \A x \in Keys : orders[x] # NULL => orders'[x] # NULL /\ orders'[x].quote = orders[x].quote,
           \A x \in Keys : payments[x] # NULL =>
               payments'[x] # NULL /\ (payments[x].status = "paid" => payments'[x].status = "paid"),
           \A x \in Keys : receipts[x] # NULL => receipts'[x] = receipts[x],
           \A x \in Keys : ops[x] # NULL /\ ops[x].status = "failed" =>
               receipts'[x] = NULL /\ wire'[x] # "sent",
           \A x \in Keys : MadeInv(x)' /\ WireInv(x)'
    PROVE  ServiceTypeOK' /\ ServiceInv' /\ Progress
<1>1. UNCHANGED <<purchases, ops, confs>>
  BY DEF serviceVars
<1>2. ServiceTypeOK' /\ Progress
  BY <1>1 DEF ServiceTypeOK, Progress, Exists
<1>3. ASSUME NEW i \in Ids, Exists(i)' PROVE RowInv(i)'
  <2>1. PICK row \in PurchaseRows : row = purchases[i] /\ RowInv(i)
    BY <1>1, <1>3 DEF Exists, ServiceInv, ServiceTypeOK
  <2>2. /\ row.order \in Keys \union {NULL} /\ row.payment \in Keys \union {NULL}
    BY DEF PurchaseRows
  <2>3. row.active # NULL => ActiveInv(i)'
    BY <1>1, <2>1 DEF RowInv, ActiveInv
  <2> QED BY <1>1, <2>1, <2>2, <2>3 DEF RowInv
<1>4. ASSUME NEW x \in Keys, ops'[x] # NULL PROVE OpInv(x)'
  <2>1. PICK op \in Operations : op = ops[x] /\ ops'[x] = op /\ OpInv(x)
    BY <1>1, <1>4 DEF ServiceInv, ServiceTypeOK
  <2>2. op.target \in Keys \union {NULL}
    BY DEF Operations
  <2>3. /\ op.status = "failed" => receipts'[x] = NULL /\ wire'[x] # "sent"
        /\ op.status = "completed" => receipts'[x] # NULL
    BY <1>1, <1>4, <2>1 DEF OpInv
  <2>4. op.kind = "mock_pay" => /\ op.target # NULL /\ payments'[op.target] # NULL
                                /\ ops'[op.target] # NULL
                                /\ ops'[op.target].purchase = op.purchase
    BY <1>1, <2>1, <2>2 DEF OpInv
  <2>5. op.kind = "order" => ConsumedBy(x, op.target)'
    BY <1>1, <2>1 DEF OpInv, ConsumedBy
  <2> QED BY <1>1, <2>1, <2>3, <2>4, <2>5 DEF OpInv, ConsumedBy, Exists
<1>5. Unique'
  BY <1>1 DEF ServiceInv, Unique
<1> QED BY <1>2, <1>3, <1>4, <1>5 DEF ServiceInv

\* An answer to a request that is no longer on its way.
AnswersOn(k, answers) ==
    /\ wire' \in [Keys -> {"none", "sent", "ok", "unknown", "rejected"}]
    /\ \A x \in Keys : x # k => wire'[x] = wire[x]
    /\ wire'[k] \in answers \union {"none"}

LEMMA Replies ==
    ASSUME ServiceTypeOK, NEW k \in Keys, NEW answer \in {"ok", "unknown", "rejected"},
           Reply(k, answer)
    PROVE  AnswersOn(k, {answer})
BY DEF ServiceTypeOK, Reply, AnswersOn

\* A request that is on its way is that of an operation without outcome.
LEMMA Underway ==
    ASSUME ServiceTypeOK, ServiceInv, NEW k \in Keys, wire[k] = "sent"
    PROVE  /\ ops[k] \in Operations /\ ops[k] # NULL /\ ops[k].status # "failed"
           /\ receipts[k] = NULL /\ OpInv(k)
<1>1. ops[k] # NULL /\ receipts[k] = NULL /\ OpInv(k)
  BY DEF ServiceInv, WireInv
<1> QED BY <1>1 DEF ServiceTypeOK, OpInv

\* What the wire and the refused operations are after a commit of k.
LEMMA Committed ==
    ASSUME ServiceTypeOK, ServiceInv, UNCHANGED serviceVars, NEW k \in Keys, wire[k] = "sent",
           AnswersOn(k, {"ok", "unknown"}), receipts'[k] # NULL,
           \A x \in Keys : x # k => receipts'[x] = receipts[x]
    PROVE  /\ \A x \in Keys : WireInv(x)'
           /\ \A x \in Keys : receipts[x] # NULL => receipts'[x] = receipts[x]
           /\ \A x \in Keys : ops[x] # NULL /\ ops[x].status = "failed" =>
                 receipts'[x] = NULL /\ wire'[x] # "sent"
<1>1. receipts[k] = NULL /\ ops[k] # NULL /\ ops[k].status # "failed"
  BY Underway
<1>2. ASSUME NEW x \in Keys PROVE WireInv(x)'
  <2>1. WireInv(x)
    BY DEF ServiceInv
  <2> QED BY <1>1, <2>1 DEF WireInv, AnswersOn, serviceVars
<1>3. ASSUME NEW x \in Keys, ops[x] # NULL, ops[x].status = "failed"
      PROVE  receipts'[x] = NULL /\ wire'[x] # "sent"
  BY <1>1, <1>3 DEF ServiceInv, OpInv, AnswersOn
<1> QED BY <1>1, <1>2, <1>3

\* A cart or a quote is made.
LEMMA SmallCommit ==
    ASSUME ServiceTypeOK, ServiceInv, BooksInv, UNCHANGED serviceVars,
           NEW k \in Keys, wire[k] = "sent", AnswersOn(k, {"ok", "unknown"}),
           ops[k].kind \in {"update_cart", "quote"},
           UNCHANGED <<orders, payments>>,
           receipts'[k] # NULL, \A x \in Keys : x # k => receipts'[x] = receipts[x]
    PROVE  ServiceTypeOK' /\ ServiceInv' /\ Progress
<1>1. ops[k] # NULL /\ receipts[k] = NULL
  BY Underway
<1>2. ASSUME NEW x \in Keys PROVE MadeInv(x)'
  <2>1. MadeInv(x)
    BY DEF ServiceInv
  <2>2. receipts'[x] # NULL => ReceiptInv(x)'
    BY <1>1, <2>1 DEF MadeInv, ReceiptInv, serviceVars
  <2>3. payments'[x] # NULL /\ payments'[x].status # "awaiting_payment" =>
          \E m \in Keys : receipts'[m] # NULL /\ ops'[m] # NULL /\ ops'[m].kind = "mock_pay"
                          /\ ops'[m].target = x
    BY <1>1, <2>1 DEF MadeInv, serviceVars
  <2> QED BY <2>1, <2>2, <2>3 DEF MadeInv, serviceVars
<1>3. /\ \A x \in Keys : WireInv(x)'
      /\ \A x \in Keys : receipts[x] # NULL => receipts'[x] = receipts[x]
      /\ \A x \in Keys : ops[x] # NULL /\ ops[x].status = "failed" =>
            receipts'[x] = NULL /\ wire'[x] # "sent"
  BY Committed
<1>4. wire' \in [Keys -> {"none", "sent", "ok", "unknown", "rejected"}]
  BY DEF AnswersOn
<1> QED BY <1>2, <1>3, <1>4, ProviderKeeps

LEMMA OrderCommit ==
    ASSUME ServiceTypeOK, ServiceInv, BooksInv, UNCHANGED serviceVars,
           NEW k \in Keys, wire[k] = "sent", AnswersOn(k, {"ok", "unknown"}),
           ops[k].kind = "order", CreateOrder(k, Me, ops[k].target)
    PROVE  ServiceTypeOK' /\ ServiceInv' /\ Progress
<1>1. /\ ops[k] # NULL /\ receipts[k] = NULL /\ orders[k] = NULL
      /\ receipts'[k] # NULL /\ orders'[k] # NULL
  BY Underway, BooksOrder, PurchaseAssumption DEF BooksInv, Keyed
<1>2. /\ receipts'[k].id = k /\ receipts'[k].status = "awaiting_payment"
      /\ orders'[k].quote = ops[k].target
      /\ \A x \in Keys : x # k => receipts'[x] = receipts[x]
      /\ \A x \in Keys : x # k => orders'[x] = orders[x]
      /\ UNCHANGED payments
  BY DEF CreateOrder, Mutate, Receipt, BooksInv, ProviderTypeOK
<1>3. ASSUME NEW x \in Keys PROVE MadeInv(x)'
  <2>1. MadeInv(x)
    BY DEF ServiceInv
  <2>2. \A y \in Keys : orders[y] # NULL => orders'[y] # NULL
    BY <1>1, <1>2
  <2>3. receipts'[x] # NULL => ReceiptInv(x)'
    <3>1. CASE x = k
      BY <1>1, <1>2, <3>1 DEF ReceiptInv, serviceVars
    <3>2. CASE x # k
      BY <1>2, <2>1, <2>2, <3>2 DEF MadeInv, ReceiptInv, serviceVars
    <3> QED BY <3>1, <3>2
  <2>4. orders'[x] # NULL => /\ ops'[x] # NULL /\ ops'[x].kind = "order"
                             /\ orders'[x].quote = ops'[x].target
    BY <1>1, <1>2, <2>1 DEF MadeInv, serviceVars
  <2>5. payments'[x] # NULL /\ payments'[x].status # "awaiting_payment" =>
          \E m \in Keys : receipts'[m] # NULL /\ ops'[m] # NULL /\ ops'[m].kind = "mock_pay"
                          /\ ops'[m].target = x
    BY <1>1, <1>2, <2>1 DEF MadeInv, serviceVars
  <2> QED BY <1>2, <2>1, <2>3, <2>4, <2>5 DEF MadeInv, serviceVars
<1>4. /\ \A x \in Keys : WireInv(x)'
      /\ \A x \in Keys : receipts[x] # NULL => receipts'[x] = receipts[x]
      /\ \A x \in Keys : ops[x] # NULL /\ ops[x].status = "failed" =>
            receipts'[x] = NULL /\ wire'[x] # "sent"
  BY <1>1, <1>2, Committed
<1>5. wire' \in [Keys -> {"none", "sent", "ok", "unknown", "rejected"}]
  BY DEF AnswersOn
<1> QED BY <1>1, <1>2, <1>3, <1>4, <1>5, ProviderKeeps

LEMMA PaymentCommit ==
    ASSUME ServiceTypeOK, ServiceInv, BooksInv, UNCHANGED serviceVars,
           NEW k \in Keys, wire[k] = "sent", AnswersOn(k, {"ok", "unknown"}),
           ops[k].kind = "payment", CreatePayment(k, Me, ops[k].target)
    PROVE  ServiceTypeOK' /\ ServiceInv' /\ Progress
<1>1. /\ ops[k] # NULL /\ receipts[k] = NULL /\ payments[k] = NULL
      /\ receipts'[k] # NULL /\ payments'[k] # NULL
  BY Underway, BooksPayment, PurchaseAssumption DEF BooksInv, Keyed
<1>2. /\ receipts'[k].id = k /\ receipts'[k].status = "awaiting_payment"
      /\ payments'[k].status = "awaiting_payment"
      /\ \A x \in Keys : x # k => receipts'[x] = receipts[x]
      /\ \A x \in Keys : x # k => payments'[x] = payments[x]
      /\ UNCHANGED orders
  BY DEF CreatePayment, Mutate, Receipt, BooksInv, ProviderTypeOK
<1>3. ASSUME NEW x \in Keys PROVE MadeInv(x)'
  <2>1. MadeInv(x)
    BY DEF ServiceInv
  <2>2. \A y \in Keys : payments[y] # NULL => payments'[y] = payments[y]
    BY <1>1, <1>2
  <2>3. receipts'[x] # NULL => ReceiptInv(x)'
    <3>1. CASE x = k
      BY <1>1, <1>2, <3>1 DEF ReceiptInv, serviceVars
    <3>2. CASE x # k
      <4>1. receipts[x] # NULL /\ ops[x] # NULL /\ ops[x].kind = "mock_pay" =>
               ops[x].target \in Keys /\ payments[ops[x].target] # NULL
        BY DEF ServiceInv, OpInv, ServiceTypeOK, Operations
      <4> QED BY <1>2, <2>1, <2>2, <3>2, <4>1 DEF MadeInv, ReceiptInv, serviceVars
    <3> QED BY <3>1, <3>2
  <2>4. payments'[x] # NULL => ops'[x] # NULL /\ ops'[x].kind = "payment"
    BY <1>1, <1>2, <2>1 DEF MadeInv, serviceVars
  <2>5. payments'[x] # NULL /\ payments'[x].status # "awaiting_payment" =>
          \E m \in Keys : receipts'[m] # NULL /\ ops'[m] # NULL /\ ops'[m].kind = "mock_pay"
                          /\ ops'[m].target = x
    BY <1>1, <1>2, <2>1 DEF MadeInv, serviceVars
  <2> QED BY <1>2, <2>1, <2>3, <2>4, <2>5 DEF MadeInv, serviceVars
<1>4. /\ \A x \in Keys : WireInv(x)'
      /\ \A x \in Keys : receipts[x] # NULL => receipts'[x] = receipts[x]
      /\ \A x \in Keys : ops[x] # NULL /\ ops[x].status = "failed" =>
            receipts'[x] = NULL /\ wire'[x] # "sent"
  BY <1>1, <1>2, Committed
<1>5. wire' \in [Keys -> {"none", "sent", "ok", "unknown", "rejected"}]
  BY DEF AnswersOn
<1> QED BY <1>1, <1>2, <1>3, <1>4, <1>5, ProviderKeeps

\* Only one operation may pay a payment, so a request to pay finds it unpaid.
LEMMA NotPaidYet ==
    ASSUME ServiceTypeOK, ServiceInv, NEW k \in Keys, wire[k] = "sent",
           ops[k].kind = "mock_pay", NEW p \in Keys, p = ops[k].target
    PROVE  payments[p] # NULL /\ payments[p].status = "awaiting_payment"
<1>1. /\ ops[k] # NULL /\ ops[k].status # "failed" /\ receipts[k] = NULL
      /\ OpInv(k) /\ MadeInv(p)
  BY Underway DEF ServiceInv
<1>2. /\ payments[p] # NULL /\ ops[p].purchase = ops[k].purchase
      /\ ops[k].generation = purchases[ops[k].purchase].generation
  BY <1>1 DEF OpInv, Irreversible
<1>3. ASSUME NEW m \in Keys, receipts[m] # NULL, ops[m] # NULL,
             ops[m].kind = "mock_pay", ops[m].target = p
      PROVE  FALSE
  <2>1. OpInv(m)
    BY <1>3 DEF ServiceInv
  <2>2. ops[m].status # "failed" /\ ops[m].purchase = ops[p].purchase
    BY <1>3, <2>1 DEF OpInv
  <2>3. ops[m].generation = purchases[ops[m].purchase].generation
    BY <1>3, <2>1, <2>2 DEF OpInv, Irreversible
  <2>4. m = k
    BY <1>1, <1>2, <1>3, <2>2, <2>3 DEF ServiceInv, Unique, Irreversible
  <2> QED BY <1>1, <1>3, <2>4
<1> QED BY <1>1, <1>2, <1>3 DEF MadeInv

LEMMA PayCommit ==
    ASSUME ServiceTypeOK, ServiceInv, BooksInv, UNCHANGED serviceVars,
           NEW k \in Keys, wire[k] = "sent", AnswersOn(k, {"ok", "unknown"}),
           ops[k].kind = "mock_pay", NEW status, MockPay(k, Me, ops[k].target, status)
    PROVE  ServiceTypeOK' /\ ServiceInv' /\ Progress
<1>0. PICK p \in Keys : p = ops[k].target
  BY DEF MockPay, PayAccepts, Owned
<1>1. /\ ops[k] # NULL /\ receipts[k] = NULL
      /\ receipts'[k] # NULL
      /\ payments[p] # NULL /\ payments[p].status = "awaiting_payment"
      /\ payments[p] \in PaymentRows
  BY <1>0, Underway, NotPaidYet, BooksPay, PurchaseAssumption DEF BooksInv, ProviderTypeOK
<1>2. /\ receipts'[k].id = p /\ receipts'[k].status = status
      /\ \A x \in Keys : x # k => receipts'[x] = receipts[x]
  BY <1>0 DEF MockPay, Mutate, Receipt, BooksInv, ProviderTypeOK
<1>3. PICK order \in Keys : order = payments[p].order
  BY <1>1 DEF PaymentRows
<1>4. /\ payments' = [payments EXCEPT ![p].status = status]
      /\ orders' = [orders EXCEPT ![order].status = status]
      /\ status \in PayStatuses
  BY <1>0, <1>3 DEF MockPay, PayStatuses
<1>5. /\ payments'[p] # NULL /\ payments'[p].status = status
      /\ \A x \in Keys : x # p => payments'[x] = payments[x]
  <2>1. PICK row \in PaymentRows : row = [payments[p] EXCEPT !.status = status] /\ row.status = status
    <3>1. /\ [payments[p] EXCEPT !.status = status] \in PaymentRows
          /\ [payments[p] EXCEPT !.status = status].status = status
      BY <1>1, <1>4 DEF PaymentRows
    <3> QED BY <3>1
  <2> QED BY <1>4, <2>1, NullAssumption DEF BooksInv, ProviderTypeOK
<1>6. \A x \in Keys :
         /\ orders[x] # NULL <=> orders'[x] # NULL
         /\ orders[x] # NULL => orders'[x].quote = orders[x].quote
  <2>1. orders[order] # NULL
    BY <1>1, <1>3 DEF BooksInv, BooksBalance, PaymentsMatchOrders
  <2>2. PICK row \in OrderRows : /\ row = [orders[order] EXCEPT !.status = status]
                                 /\ row.quote = orders[order].quote
    BY <1>4, <2>1 DEF OrderRows, BooksInv, ProviderTypeOK
  <2> QED BY <1>4, <2>1, <2>2, NullAssumption DEF BooksInv, ProviderTypeOK
<1>7. ASSUME NEW x \in Keys PROVE MadeInv(x)'
  <2>1. MadeInv(x)
    BY DEF ServiceInv
  <2>2. \A y \in Keys :
           /\ payments[y] # NULL <=> payments'[y] # NULL
           /\ payments[y] # NULL /\ payments[y].status = "paid" => payments'[y].status = "paid"
    BY <1>1, <1>5
  <2>3. receipts'[x] # NULL => ReceiptInv(x)'
    <3>1. CASE x = k
      BY <1>0, <1>1, <1>2, <1>5, <3>1 DEF ReceiptInv, serviceVars
    <3>2. CASE x # k
      <4>1. receipts[x] # NULL /\ ops[x] # NULL /\ ops[x].kind = "mock_pay" =>
               ops[x].target \in Keys /\ payments[ops[x].target] # NULL
        BY DEF ServiceInv, OpInv, ServiceTypeOK, Operations
      <4> QED BY <1>2, <1>6, <2>1, <2>2, <3>2, <4>1 DEF MadeInv, ReceiptInv, serviceVars
    <3> QED BY <3>1, <3>2
  <2>4. payments'[x] # NULL => ops'[x] # NULL /\ ops'[x].kind = "payment"
    BY <2>1, <2>2 DEF MadeInv, serviceVars
  <2>5. orders'[x] # NULL => /\ ops'[x] # NULL /\ ops'[x].kind = "order"
                             /\ orders'[x].quote = ops'[x].target
    BY <1>6, <2>1 DEF MadeInv, serviceVars
  <2>6. payments'[x] # NULL /\ payments'[x].status # "awaiting_payment" =>
          \E m \in Keys : receipts'[m] # NULL /\ ops'[m] # NULL /\ ops'[m].kind = "mock_pay"
                          /\ ops'[m].target = x
    <3>1. CASE x = p
      BY <1>0, <1>1, <3>1 DEF serviceVars
    <3>2. CASE x # p
      BY <1>1, <1>2, <1>5, <2>1, <3>2 DEF MadeInv, serviceVars
    <3> QED BY <3>1, <3>2
  <2> QED BY <2>1, <2>3, <2>4, <2>5, <2>6 DEF MadeInv, serviceVars
<1>8. /\ \A x \in Keys : WireInv(x)'
      /\ \A x \in Keys : receipts[x] # NULL => receipts'[x] = receipts[x]
      /\ \A x \in Keys : ops[x] # NULL /\ ops[x].status = "failed" =>
            receipts'[x] = NULL /\ wire'[x] # "sent"
  BY <1>1, <1>2, Committed
<1>9. wire' \in [Keys -> {"none", "sent", "ok", "unknown", "rejected"}]
  BY DEF AnswersOn
<1> QED BY <1>1, <1>5, <1>6, <1>7, <1>8, <1>9, ProviderKeeps

LEMMA SettleKeeps ==
    ASSUME ServiceTypeOK, ServiceInv, BooksInv, UNCHANGED <<serviceVars, wire>>,
           NEW p \in Keys, NEW status, SettlePayment(p, status)
    PROVE  ServiceTypeOK' /\ ServiceInv' /\ Progress
<1>1. /\ payments[p] # NULL /\ payments[p] \in PaymentRows
      /\ payments[p].status = "processing"
  BY DEF SettlePayment, BooksInv, ProviderTypeOK
<1>2. PICK order \in Keys : order = payments[p].order
  BY <1>1 DEF PaymentRows
<1>3. /\ payments' = [payments EXCEPT ![p].status = status]
      /\ orders' = [orders EXCEPT ![order].status = status]
      /\ status \in PayStatuses
      /\ UNCHANGED receipts
  BY <1>2 DEF SettlePayment, PayStatuses
<1>4. /\ payments'[p] # NULL
      /\ \A x \in Keys : x # p => payments'[x] = payments[x]
  <2>1. [payments[p] EXCEPT !.status = status] \in PaymentRows
    BY <1>1, <1>3 DEF PaymentRows
  <2>2. payments'[p] = [payments[p] EXCEPT !.status = status]
    BY <1>3 DEF BooksInv, ProviderTypeOK
  <2> QED BY <1>3, <2>1, <2>2, NullAssumption DEF BooksInv, ProviderTypeOK
<1>5. \A x \in Keys :
         /\ orders[x] # NULL <=> orders'[x] # NULL
         /\ orders[x] # NULL => orders'[x].quote = orders[x].quote
  <2>1. orders[order] # NULL
    BY <1>1, <1>2 DEF BooksInv, BooksBalance, PaymentsMatchOrders
  <2>2. PICK row \in OrderRows : /\ row = [orders[order] EXCEPT !.status = status]
                                 /\ row.quote = orders[order].quote
    BY <1>3, <2>1 DEF OrderRows, BooksInv, ProviderTypeOK
  <2> QED BY <1>3, <2>1, <2>2, NullAssumption DEF BooksInv, ProviderTypeOK
<1>6. ASSUME NEW x \in Keys PROVE MadeInv(x)' /\ WireInv(x)'
  <2>1. MadeInv(x) /\ WireInv(x)
    BY DEF ServiceInv
  <2>2. \A y \in Keys :
           /\ payments[y] # NULL <=> payments'[y] # NULL
           /\ payments[y] # NULL /\ payments[y].status = "paid" => payments'[y].status = "paid"
    BY <1>1, <1>4
  <2>3. receipts'[x] # NULL => ReceiptInv(x)'
    <3>1. receipts[x] # NULL /\ ops[x] # NULL /\ ops[x].kind = "mock_pay" =>
             ops[x].target \in Keys /\ payments[ops[x].target] # NULL
      BY DEF ServiceInv, OpInv, ServiceTypeOK, Operations
    <3> QED BY <1>3, <1>5, <2>1, <2>2, <3>1 DEF MadeInv, ReceiptInv, serviceVars
  <2>4. payments'[x] # NULL => ops'[x] # NULL /\ ops'[x].kind = "payment"
    BY <2>1, <2>2 DEF MadeInv, serviceVars
  <2>5. orders'[x] # NULL => /\ ops'[x] # NULL /\ ops'[x].kind = "order"
                             /\ orders'[x].quote = ops'[x].target
    BY <1>5, <2>1 DEF MadeInv, serviceVars
  <2>6. payments'[x] # NULL /\ payments'[x].status # "awaiting_payment" =>
          \E m \in Keys : receipts'[m] # NULL /\ ops'[m] # NULL /\ ops'[m].kind = "mock_pay"
                          /\ ops'[m].target = x
    <3>1. payments[x] # NULL /\ payments[x].status # "awaiting_payment" =>
          \E m \in Keys : receipts[m] # NULL /\ ops[m] # NULL /\ ops[m].kind = "mock_pay"
                          /\ ops[m].target = x
      BY <2>1 DEF MadeInv
    <3>2. payments'[x] # NULL /\ payments'[x].status # "awaiting_payment" =>
            payments[x] # NULL /\ payments[x].status # "awaiting_payment"
      BY <1>1, <1>4
    <3> QED BY <1>3, <3>1, <3>2 DEF serviceVars
  <2>7. WireInv(x)'
    BY <1>3, <2>1 DEF WireInv, serviceVars
  <2> QED BY <2>1, <2>3, <2>4, <2>5, <2>6, <2>7 DEF MadeInv, serviceVars
<1>7. wire' \in [Keys -> {"none", "sent", "ok", "unknown", "rejected"}]
  BY DEF ServiceTypeOK
<1>8. \A x \in Keys : ops[x] # NULL /\ ops[x].status = "failed" =>
         receipts'[x] = NULL /\ wire'[x] # "sent"
  BY <1>3 DEF ServiceInv, OpInv
<1>9. /\ \A x \in Keys : receipts[x] # NULL => receipts'[x] = receipts[x]
      /\ \A x \in Keys : payments[x] # NULL =>
            payments'[x] # NULL /\ (payments[x].status = "paid" => payments'[x].status = "paid")
  BY <1>1, <1>3, <1>4
<1> QED BY <1>5, <1>6, <1>7, <1>8, <1>9, ProviderKeeps

\* The deadline of a quote, and other customers' orders.
LEMMA ElseKeeps ==
    ASSUME ServiceTypeOK, ServiceInv, UNCHANGED <<serviceVars, wire, orders, payments, receipts>>
    PROVE  ServiceTypeOK' /\ ServiceInv' /\ Progress
<1>1. \A x \in Keys : MadeInv(x)' /\ WireInv(x)'
  BY DEF ServiceInv, MadeInv, ReceiptInv, WireInv, serviceVars
<1>2. \A x \in Keys : ops[x] # NULL /\ ops[x].status = "failed" =>
         receipts'[x] = NULL /\ wire'[x] # "sent"
  BY DEF ServiceInv, OpInv
<1>3. wire' \in [Keys -> {"none", "sent", "ok", "unknown", "rejected"}]
  BY DEF ServiceTypeOK
<1> QED BY <1>1, <1>2, <1>3, ProviderKeeps

LEMMA RejectKeeps ==
    ASSUME ServiceTypeOK, ServiceInv, UNCHANGED <<serviceVars, providerVars>>,
           NEW k \in Keys, wire[k] = "sent", AnswersOn(k, {"rejected"})
    PROVE  ServiceTypeOK' /\ ServiceInv' /\ Progress
<1>1. ops[k] # NULL /\ receipts[k] = NULL
  BY Underway
<1>2. ASSUME NEW x \in Keys PROVE MadeInv(x)' /\ WireInv(x)'
  <2>1. MadeInv(x) /\ WireInv(x)
    BY DEF ServiceInv
  <2>2. MadeInv(x)'
    BY <2>1 DEF MadeInv, ReceiptInv, serviceVars, providerVars
  <2>3. WireInv(x)'
    BY <1>1, <2>1 DEF WireInv, AnswersOn, serviceVars, providerVars
  <2> QED BY <2>2, <2>3
<1>3. \A x \in Keys : ops[x] # NULL /\ ops[x].status = "failed" =>
         receipts'[x] = NULL /\ wire'[x] # "sent"
  BY DEF ServiceInv, OpInv, AnswersOn, providerVars
<1>4. wire' \in [Keys -> {"none", "sent", "ok", "unknown", "rejected"}]
  BY DEF AnswersOn
<1>5. UNCHANGED <<orders, payments, receipts>>
  BY DEF providerVars
<1> QED BY <1>2, <1>3, <1>4, <1>5, ProviderKeeps

LEMMA CommitKeeps ==
    ASSUME ServiceTypeOK, ServiceInv, BooksInv, UNCHANGED serviceVars,
           NEW k \in Keys, wire[k] = "sent", AnswersOn(k, {"ok", "unknown"}), Commits(k)
    PROVE  BooksInv' /\ ServiceTypeOK' /\ ServiceInv' /\ Progress
<1>1. /\ ops[k] \in Operations /\ Me \in Owners
      /\ ops[k].kind \in Kinds /\ ops[k].cart \in Keys \union {NULL} /\ ops[k].lines \in Lines
  BY Underway, PurchaseAssumption DEF Operations
<1>2. CASE ops[k].kind = "update_cart"
  <2>1. UpdateCart(k, Me, ops[k].cart, ops[k].version, ops[k].lines)
    BY <1>2 DEF Commits
  <2>2. BooksInv' /\ receipts'[k] # NULL
    BY <1>1, <2>1, BooksCart
  <2>3. UNCHANGED <<orders, payments>> /\ \A x \in Keys : x # k => receipts'[x] = receipts[x]
    BY <2>1 DEF UpdateCart, Mutate, BooksInv, ProviderTypeOK
  <2> QED BY <1>2, <2>2, <2>3, SmallCommit
<1>3. CASE ops[k].kind = "quote"
  <2>1. PrepareCheckout(k, Me, ops[k].cart, ops[k].version)
    BY <1>3 DEF Commits
  <2>2. BooksInv' /\ receipts'[k] # NULL
    BY <1>1, <2>1, BooksQuote
  <2>3. UNCHANGED <<orders, payments>> /\ \A x \in Keys : x # k => receipts'[x] = receipts[x]
    BY <2>1 DEF PrepareCheckout, Mutate, BooksInv, ProviderTypeOK
  <2> QED BY <1>3, <2>2, <2>3, SmallCommit
<1>4. CASE ops[k].kind = "order"
  <2>1. CreateOrder(k, Me, ops[k].target)
    BY <1>4 DEF Commits
  <2> QED BY <1>1, <1>4, <2>1, BooksOrder, OrderCommit
<1>5. CASE ops[k].kind = "payment"
  <2>1. CreatePayment(k, Me, ops[k].target)
    BY <1>5 DEF Commits
  <2> QED BY <1>1, <1>5, <2>1, BooksPayment, PaymentCommit
<1>6. CASE ops[k].kind = "mock_pay"
  <2>1. PICK status : MockPay(k, Me, ops[k].target, status)
    BY <1>6 DEF Commits
  <2> QED BY <1>1, <1>6, <2>1, BooksPay, PayCommit
<1> QED BY <1>1, <1>2, <1>3, <1>4, <1>5, <1>6 DEF Kinds

-----------------------------------------------------------------------------
(* What a caller holds on to while others move.                            *)

LEMMA StillHolds ==
    ASSUME ServiceTypeOK, ServiceTypeOK', ServiceInv, Progress,
           NEW one \in CallerStates, HoldsInv(one), ReadInv(one)
    PROVE  HoldsInv(one)' /\ ReadInv(one)'
<1>1. /\ one.p \in Ids \union {NULL} /\ one.curP \in Ids \union {NULL}
      /\ one.op \in Keys \union {NULL} /\ one.version \in Nat
  BY DEF CallerStates
<1>2. HoldsInv(one)'
  BY <1>1 DEF HoldsInv, Progress, Exists
<1>3. CASE one.pc \in {"reserve", "swap"}
  <2>1. one.p \in Ids /\ Exists(one.p)
    BY <1>1, <1>3 DEF HoldsInv
  <2>2. /\ purchases[one.p] \in PurchaseRows /\ purchases[one.p].version \in Nat
        /\ purchases'[one.p] \in PurchaseRows /\ purchases'[one.p].version \in Nat
    <3>1. purchases[one.p] \in PurchaseRows /\ purchases'[one.p] \in PurchaseRows
      BY <2>1 DEF ServiceTypeOK, Exists, Progress
    <3> QED BY <3>1 DEF PurchaseRows
  <2>3. CASE purchases'[one.p] = purchases[one.p]
    <3>1. purchases[one.p].payment # NULL =>
             /\ purchases[one.p].payment \in Keys /\ payments[purchases[one.p].payment] # NULL
      BY <2>1, <2>2 DEF ServiceInv, RowInv, PurchaseRows
    <3>2. purchases[one.p].payment # NULL /\ payments[purchases[one.p].payment].status = "paid" =>
             payments'[purchases[one.p].payment].status = "paid"
      BY <3>1 DEF Progress
    <3> QED BY <1>2, <2>3, <3>2 DEF ReadInv
  <2>4. CASE purchases'[one.p].version > purchases[one.p].version
    <3>1. one.version < purchases'[one.p].version
      BY <1>1, <1>3, <2>2, <2>4 DEF ReadInv
    <3>2. one.version # purchases'[one.p].version /\ one.version <= purchases'[one.p].version
      BY <1>1, <2>2, <3>1
    <3> QED BY <1>2, <3>2 DEF ReadInv
  <2> QED BY <2>1, <2>3, <2>4 DEF Progress
<1>4. CASE one.pc \notin {"reserve", "swap"}
  BY <1>2, <1>4 DEF ReadInv
<1> QED BY <1>3, <1>4

CallersOK == caller \in [Callers -> CallerStates] /\ CallersInv

\* One caller goes to another state.
LEMMA CallerMoves ==
    ASSUME ServiceTypeOK, ServiceTypeOK', ServiceInv, Progress, CallersOK,
           NEW c \in Callers, NEW new \in CallerStates, caller' = [caller EXCEPT ![c] = new],
           HoldsInv(new)', ReadInv(new)', PauseInv(new)
    PROVE  CallersOK'
<1>1. caller' \in [Callers -> CallerStates]
  BY DEF CallersOK
<1>2. ASSUME NEW d \in Callers
      PROVE  HoldsInv(caller[d])' /\ ReadInv(caller[d])' /\ PauseInv(caller[d])'
  <2>1. CASE d = c
    <3>1. caller'[d] = new
      BY <2>1 DEF CallersOK
    <3> QED BY <3>1 DEF HoldsInv, ReadInv, PauseInv, Exists
  <2>2. CASE d # c
    <3>1. PICK one \in CallerStates : one = caller[d] /\ caller'[d] = one
      BY <2>2 DEF CallersOK
    <3>2. HoldsInv(one) /\ ReadInv(one) /\ PauseInv(one)
      BY <3>1 DEF CallersOK, CallersInv
    <3>3. HoldsInv(one)' /\ ReadInv(one)'
      BY <3>2, StillHolds
    <3> QED BY <3>1, <3>2, <3>3 DEF HoldsInv, ReadInv, PauseInv, Exists
  <2> QED BY <2>1, <2>2
<1> QED BY <1>1, <1>2 DEF CallersOK, CallersInv

\* No caller moves, or all stop.
LEMMA CallersStand ==
    ASSUME ServiceTypeOK, ServiceTypeOK', ServiceInv, Progress, CallersOK, UNCHANGED caller
    PROVE  CallersOK'
<1>1. ASSUME NEW d \in Callers
      PROVE  HoldsInv(caller[d])' /\ ReadInv(caller[d])' /\ PauseInv(caller[d])'
  <2>1. PICK one \in CallerStates : one = caller[d] /\ caller'[d] = one
    BY DEF CallersOK
  <2>2. HoldsInv(one) /\ ReadInv(one) /\ PauseInv(one)
    BY <2>1 DEF CallersOK, CallersInv
  <2>3. HoldsInv(one)' /\ ReadInv(one)'
    BY <2>2, StillHolds
  <2> QED BY <2>1, <2>2, <2>3 DEF HoldsInv, ReadInv, PauseInv, Exists
<1> QED BY <1>1 DEF CallersOK, CallersInv

-----------------------------------------------------------------------------
(* The states a caller goes to.                                            *)

LEMMA NoRequestIsRequest == NoRequest \in Requests /\ NoRequest.kind = "none"
BY DEF NoRequest, Requests, NoLines, Lines

LEMMA IdleState ==
    /\ Idle \in CallerStates
    /\ HoldsInv(Idle) /\ ReadInv(Idle) /\ PauseInv(Idle)
    /\ Idle.did = {} /\ Idle.cur = NULL /\ Idle.pc = "idle" /\ Idle.next = "none"
    /\ Idle.req.kind = "none"
BY NoRequestIsRequest DEF Idle, CallerStates, HoldsInv, ReadInv, PauseInv

LEMMA BackState ==
    ASSUME NEW c \in Callers, CallersOK
    PROVE  /\ Back(c) \in CallerStates /\ HoldsInv(Back(c)) /\ ReadInv(Back(c)) /\ PauseInv(Back(c))
           /\ Back(c).pc = "ready" /\ Back(c).req.kind = "none" /\ Back(c).todo = "none"
           /\ Back(c).next = "none"
           /\ Back(c).did = caller[c].did /\ Back(c).cur = caller[c].cur
           /\ Back(c).curP = caller[c].curP
<1>1. PICK one \in CallerStates : one = caller[c] /\ HoldsInv(one) /\ PauseInv(one)
  BY DEF CallersOK, CallersInv
<1>2. PICK back : back = [one EXCEPT !.pc = "ready", !.todo = "none", !.p = NULL, !.version = 0,
                                     !.req = NoRequest, !.next = "none"]
  OBVIOUS
<1>3. back \in CallerStates
  BY <1>2, NoRequestIsRequest DEF CallerStates
<1>4. /\ back.pc = "ready" /\ back.req = NoRequest /\ back.todo = "none" /\ back.next = "none"
      /\ back.did = one.did /\ back.cur = one.cur /\ back.curP = one.curP
  BY <1>2 DEF CallerStates
<1>5. HoldsInv(back) /\ ReadInv(back) /\ PauseInv(back)
  BY <1>1, <1>4, NoRequestIsRequest DEF HoldsInv, ReadInv, PauseInv
<1>6. Back(c) = back
  BY <1>1, <1>2 DEF Back
<1> QED BY <1>1, <1>3, <1>4, <1>5, <1>6, NoRequestIsRequest

LEMMA RefreshingState ==
    ASSUME NEW i \in Ids, Exists(i), NEW one \in CallerStates, HoldsInv(one), PauseInv(one),
           NEW todo \in {"begin", "start", "status", "cart", "quote"},
           todo = "begin" => one.did = {}
    PROVE  LET new == Refreshing(i, todo, one)
           IN  new \in CallerStates /\ HoldsInv(new) /\ ReadInv(new) /\ PauseInv(new)
<1>1. PICK pc \in {"lookup", "poll", "act"} :
         pc = IF purchases[i].active # NULL THEN "lookup"
               ELSE IF NeedsStatus(purchases[i]) THEN "poll" ELSE "act"
  OBVIOUS
<1>2. PICK new : new = [one EXCEPT !.p = i, !.todo = todo, !.pc = pc]
  OBVIOUS
<1>3. new \in CallerStates
  BY <1>2 DEF CallerStates
<1>4. /\ new.p = i /\ new.todo = todo /\ new.pc = pc /\ new.did = one.did /\ new.cur = one.cur
      /\ new.curP = one.curP /\ new.req = one.req /\ new.next = one.next
  BY <1>2 DEF CallerStates
<1>5. HoldsInv(new)
  BY <1>1, <1>4, NullIsNoRow DEF HoldsInv, Exists
<1> QED BY <1>1, <1>2, <1>3, <1>4, <1>5 DEF Refreshing, ReadInv, PauseInv

-----------------------------------------------------------------------------
(* The steps of a caller.  Core is what has to hold before and after.      *)

Core == BooksInv /\ ServiceTypeOK /\ ServiceInv /\ CallersOK

Fits(new) == new \in CallerStates /\ HoldsInv(new) /\ ReadInv(new) /\ PauseInv(new)
Moves(c) == \E new : Fits(new) /\ caller' = [caller EXCEPT ![c] = new]

LEMMA TheCaller ==
    ASSUME Core, NEW c \in Callers
    PROVE  Fits(caller[c])
BY DEF Core, CallersOK, CallersInv, Fits

\* A purchase the caller works on.
LEMMA TheRow ==
    ASSUME Core, NEW i \in Ids, Exists(i)
    PROVE  purchases[i] \in PurchaseRows /\ RowInv(i)
BY DEF Core, ServiceTypeOK, ServiceInv, Exists

LEMMA Stepped ==
    ASSUME Core, BooksInv', ServiceTypeOK', ServiceInv', Progress, NEW c \in Callers, Moves(c)
    PROVE  Core'
<1>1. PICK new \in CallerStates : /\ HoldsInv(new) /\ ReadInv(new) /\ PauseInv(new)
                                  /\ caller' = [caller EXCEPT ![c] = new]
  BY DEF Moves, Fits
<1>2. HoldsInv(new)' /\ ReadInv(new)'
  BY <1>1, StillHolds DEF Core
<1>3. CallersOK'
  BY <1>1, <1>2, CallerMoves DEF Core
<1> QED BY <1>3 DEF Core

LEMMA Unwritten ==
    ASSUME Core, UNCHANGED <<providerVars, serviceVars, wire>>
    PROVE  BooksInv' /\ ServiceTypeOK' /\ ServiceInv' /\ Progress
<1>1. WireFades
  BY DEF WireFades, Core, ServiceTypeOK
<1> QED BY <1>1, BooksStutter, ServiceStutter DEF Core

LEMMA QuietStep ==
    ASSUME Core, UNCHANGED <<providerVars, serviceVars, wire>>, NEW c \in Callers, Moves(c)
    PROVE  Core'
BY Unwritten, Stepped

LEMMA RefreshMoves ==
    ASSUME Core, NEW c \in Callers, NEW i \in Ids, Exists(i), NEW one \in CallerStates,
           HoldsInv(one), PauseInv(one),
           NEW todo \in {"begin", "start", "status", "cart", "quote"},
           todo = "begin" => one.did = {},
           caller' = [caller EXCEPT ![c] = Refreshing(i, todo, one)]
    PROVE  Moves(c)
BY RefreshingState DEF Moves, Fits

LEMMA ShowMoves ==
    ASSUME Core, NEW c \in Callers, NEW row \in PurchaseRows, Show(c, row)
    PROVE  Moves(c)
<1>1. PICK back : back = Back(c) /\ Fits(back) /\ back.todo = "none" /\ back.pc = "ready"
  BY BackState DEF Core, Fits
<1>2. PICK version \in Nat : version = row.version
  BY DEF PurchaseRows
<1>3. PICK new : new = [back EXCEPT !.seen = version]
  OBVIOUS
<1>4. new \in CallerStates
  BY <1>1, <1>3 DEF Fits, CallerStates
<1>5. /\ new.pc = "ready" /\ new.todo = back.todo /\ new.cur = back.cur /\ new.curP = back.curP
      /\ new.did = back.did /\ new.req = back.req /\ new.next = back.next /\ new.p = back.p
  BY <1>1, <1>3 DEF Fits, CallerStates
<1>6. HoldsInv(new) /\ ReadInv(new) /\ PauseInv(new)
  BY <1>1, <1>5 DEF Fits, HoldsInv, ReadInv, PauseInv
<1>7. caller' = [caller EXCEPT ![c] = new]
  BY <1>1, <1>2, <1>3 DEF Show
<1> QED BY <1>4, <1>6, <1>7 DEF Moves, Fits

LEMMA BackMoves ==
    ASSUME Core, NEW c \in Callers, caller' = [caller EXCEPT ![c] = Back(c)]
    PROVE  Moves(c)
BY BackState DEF Moves, Fits, Core

LEMMA StatusMoves ==
    ASSUME Core, NEW c \in Callers, caller[c].p \in Ids, Exists(caller[c].p), Refresh(c)
    PROVE  Moves(c)
<1>1. PICK i \in Ids, back \in CallerStates :
         i = caller[c].p /\ back = Back(c) /\ HoldsInv(back) /\ PauseInv(back)
  BY BackState DEF Core
<1>2. Exists(i) /\ caller' = [caller EXCEPT ![c] = Refreshing(i, "status", back)]
  BY <1>1 DEF Refresh
<1> QED BY <1>1, <1>2, RefreshMoves

LEMMA ReservingState ==
    ASSUME NEW one \in CallerStates, NEW version \in Nat, NEW request \in Requests,
           NEW next \in {"none", "view", "refresh", "after_order", "pay"}
    PROVE  [one EXCEPT !.pc = "reserve", !.version = version, !.req = request, !.next = next]
              \in CallerStates
<1>1. [one EXCEPT !.pc = "reserve", !.version = version] \in CallerStates
  BY DEF CallerStates
<1>2. PICK mid \in CallerStates : mid = [one EXCEPT !.pc = "reserve", !.version = version]
  BY <1>1
<1>3. PICK last \in CallerStates : last = [mid EXCEPT !.req = request]
  <2>1. [mid EXCEPT !.req = request] \in CallerStates
    BY DEF CallerStates
  <2> QED BY <2>1
<1>4. [last EXCEPT !.next = next] \in CallerStates
  BY DEF CallerStates
<1> QED BY <1>2, <1>3, <1>4

\* What a caller takes to _reserve, and what it may rely on there.
LEMMA ReservingMoves ==
    ASSUME Core, NEW c \in Callers, NEW i \in Ids, i = caller[c].p, Exists(i),
           NEW row \in PurchaseRows, row = purchases[i],
           NEW request \in Requests,
           NEW next \in {"view", "refresh", "after_order", "pay"},
           request.kind # "none", caller[c].todo # "begin",
           request.kind = "order" => /\ caller[c].cur = "quoted"
                                     /\ row.conf # NULL /\ request.target = row.quote,
           request.kind = "payment" => row.order # NULL,
           request.kind = "mock_pay" => /\ caller[c].cur = "awaiting_payment"
                                        /\ row.payment # NULL /\ request.target = row.payment,
           next = "pay" => caller[c].cur = "awaiting_payment",
           Reserving(c, row.version, request, next)
    PROVE  Moves(c)
<1>1. PICK one : one = caller[c] /\ Fits(one)
  BY TheCaller
<1>2. PICK version \in Nat : version = row.version
  BY DEF PurchaseRows
<1>3. PICK new : new = [one EXCEPT !.pc = "reserve", !.version = version, !.req = request,
                                   !.next = next]
  OBVIOUS
<1>4. new \in CallerStates
  BY <1>1, <1>3, ReservingState DEF Fits
<1>5. /\ new.pc = "reserve" /\ new.version = version /\ new.req = request /\ new.next = next
      /\ new.todo = one.todo /\ new.cur = one.cur /\ new.curP = one.curP
      /\ new.did = one.did /\ new.p = i
  BY <1>1, <1>3 DEF Fits, CallerStates
<1>6. HoldsInv(new)
  BY <1>1, <1>5, NullIsNoRow DEF Fits, HoldsInv
<1>7. ReadInv(new)
  BY <1>2, <1>5 DEF ReadInv
<1>8. PauseInv(new)
  BY <1>1, <1>5 DEF Fits, PauseInv
<1>9. caller' = [caller EXCEPT ![c] = new]
  BY <1>1, <1>2, <1>3 DEF Reserving, Core, CallersOK
<1> QED BY <1>4, <1>6, <1>7, <1>8, <1>9 DEF Moves, Fits

\* A caller that acts on a purchase.
LEMMA ActsOn ==
    ASSUME Core, NEW c \in Callers,
           \/ caller[c].pc \in {"lookup", "poll", "swap", "reserve", "call"}
           \/ caller[c].pc = "act" /\ caller[c].todo # "start"
    PROVE  /\ caller[c].p \in Ids /\ Exists(caller[c].p)
           /\ purchases[caller[c].p] \in PurchaseRows /\ RowInv(caller[c].p)
<1>1. caller[c].p \in Ids \union {NULL} /\ HoldsInv(caller[c])
  BY TheCaller DEF Fits, CallerStates
<1>2. caller[c].p \in Ids /\ Exists(caller[c].p)
  BY <1>1 DEF HoldsInv
<1> QED BY <1>2, TheRow

LEMMA RequestIsRequest ==
    ASSUME NEW row \in PurchaseRows, NEW lines \in Lines, NEW target \in Keys \union {NULL}
    PROVE  /\ [NoRequest EXCEPT !.kind = "update_cart", !.cart = row.cart,
                                !.version = row.cartVersion, !.lines = lines] \in Requests
           /\ [NoRequest EXCEPT !.kind = "quote", !.cart = row.cart,
                                !.version = row.cartVersion] \in Requests
           /\ [NoRequest EXCEPT !.kind = "order", !.target = target] \in Requests
           /\ [NoRequest EXCEPT !.kind = "mock_pay", !.target = target] \in Requests
           /\ PaymentRequest(row) \in Requests
BY DEF NoRequest, NoLines, Requests, Lines, Kinds, PaymentRequest, PurchaseRows

LEMMA RequestKind ==
    ASSUME NEW row \in PurchaseRows, NEW lines, NEW target
    PROVE  /\ [NoRequest EXCEPT !.kind = "update_cart", !.cart = row.cart,
                                !.version = row.cartVersion, !.lines = lines].kind = "update_cart"
           /\ [NoRequest EXCEPT !.kind = "quote", !.cart = row.cart,
                                !.version = row.cartVersion].kind = "quote"
           /\ [NoRequest EXCEPT !.kind = "order", !.target = target].kind = "order"
           /\ [NoRequest EXCEPT !.kind = "order", !.target = target].target = target
           /\ [NoRequest EXCEPT !.kind = "mock_pay", !.target = target].kind = "mock_pay"
           /\ [NoRequest EXCEPT !.kind = "mock_pay", !.target = target].target = target
           /\ PaymentRequest(row).kind = "payment"
BY DEF NoRequest, PaymentRequest

-----------------------------------------------------------------------------
(* The turn begins, the model calls a tool, and the turn ends.             *)

LEMMA BeginKeeps ==
    ASSUME Core, NEW c \in Callers, Begin(c) PROVE Core'
<1>1. UNCHANGED <<providerVars, serviceVars, wire>>
  BY DEF Begin
<1>2. CASE caller' = [caller EXCEPT ![c] = [Idle EXCEPT !.pc = "ready"]]
  <2>1. PICK new : new = [Idle EXCEPT !.pc = "ready"]
    OBVIOUS
  <2>2. new \in CallerStates
    BY <2>1, IdleState DEF CallerStates
  <2>3. /\ new.pc = "ready" /\ new.cur = NULL /\ new.did = {} /\ new.todo = "none"
        /\ new.req.kind = "none" /\ new.next = "none"
    BY <2>1, NoRequestIsRequest DEF Idle
  <2>4. HoldsInv(new) /\ ReadInv(new) /\ PauseInv(new)
    BY <2>3 DEF HoldsInv, ReadInv, PauseInv
  <2>5. Moves(c)
    BY <1>2, <2>1, <2>2, <2>4 DEF Moves, Fits
  <2> QED BY <1>1, <2>5, QuietStep
<1>3. ASSUME NEW i \in Ids, Exists(i), caller' = [caller EXCEPT ![c] = Refreshing(i, "begin", Idle)]
      PROVE  Core'
  <2>1. Moves(c)
    BY <1>3, IdleState, RefreshMoves
  <2> QED BY <1>1, <2>1, QuietStep
<1> QED BY <1>2, <1>3 DEF Begin, Current

LEMMA CallSearchKeeps ==
    ASSUME Core, NEW c \in Callers, CallSearch(c) PROVE Core'
<1>1. UNCHANGED <<providerVars, serviceVars, wire>> /\ caller[c].pc = "ready"
  BY DEF CallSearch
<1>2. PICK one \in CallerStates : one = caller[c] /\ Fits(one)
  BY TheCaller DEF Fits
<1>3. CASE caller' = [caller EXCEPT ![c].pc = "act", ![c].todo = "start"]
  <2>1. PICK new : new = [one EXCEPT !.pc = "act", !.todo = "start"]
    OBVIOUS
  <2>2. new \in CallerStates
    BY <2>1 DEF CallerStates
  <2>3. /\ new.pc = "act" /\ new.todo = "start" /\ new.cur = one.cur /\ new.curP = one.curP
        /\ new.did = one.did /\ new.req = one.req /\ new.next = one.next
    BY <2>1 DEF CallerStates
  <2>4. HoldsInv(new) /\ ReadInv(new) /\ PauseInv(new)
    BY <1>2, <2>3 DEF Fits, HoldsInv, ReadInv, PauseInv
  <2>5. caller' = [caller EXCEPT ![c] = new]
    BY <1>2, <1>3, <2>1 DEF Core, CallersOK
  <2>6. Moves(c)
    BY <2>2, <2>4, <2>5 DEF Moves, Fits
  <2> QED BY <1>1, <2>6, QuietStep
<1>4. ASSUME NEW i \in Ids, Exists(i), caller' = [caller EXCEPT ![c] = Refreshing(i, "start", @)]
      PROVE  Core'
  <2>1. caller' = [caller EXCEPT ![c] = Refreshing(i, "start", one)]
    BY <1>2, <1>4
  <2>2. Moves(c)
    BY <1>2, <1>4, <2>1, RefreshMoves DEF Fits
  <2> QED BY <1>1, <2>2, QuietStep
<1> QED BY <1>3, <1>4 DEF CallSearch, Open

LEMMA CallToolKeeps ==
    ASSUME Core, NEW c \in Callers, CallTool(c) PROVE Core'
<1>1. UNCHANGED <<providerVars, serviceVars, wire>>
  BY DEF CallTool
<1>2. PICK one \in CallerStates : one = caller[c] /\ Fits(one)
  BY TheCaller DEF Fits
<1>3. PICK i \in Ids, tool \in {"status", "cart", "quote"} :
         Exists(i) /\ caller' = [caller EXCEPT ![c] = Refreshing(i, tool, one)]
  BY <1>2 DEF CallTool, Current
<1>4. Moves(c)
  BY <1>2, <1>3, RefreshMoves DEF Fits
<1> QED BY <1>1, <1>4, QuietStep

LEMMA CallIrreversibleKeeps ==
    ASSUME Core, NEW c \in Callers, CallIrreversible(c) PROVE Core'
<1>1. UNCHANGED <<providerVars, serviceVars, wire>>
  BY DEF CallIrreversible
<1>2. PICK one \in CallerStates : one = caller[c] /\ Fits(one)
  BY TheCaller DEF Fits
<1>3. PICK tool \in {"commit", "mock_pay"} :
         /\ tool = "commit" => one.cur = "quoted"
         /\ tool = "mock_pay" => one.cur = "awaiting_payment"
         /\ caller' = [caller EXCEPT ![c].pc = "act", ![c].todo = tool, ![c].p = one.curP]
  BY <1>2 DEF CallIrreversible, Offered
<1>4. PICK p \in Ids : p = one.curP /\ Exists(p)
  <2>1. one.cur # NULL
    BY <1>3, NullIsNoRow DEF Stages, PayStatuses
  <2> QED BY <1>2, <2>1 DEF Fits, HoldsInv, CallerStates
<1>5. PICK new : new = [one EXCEPT !.pc = "act", !.todo = tool, !.p = p]
  OBVIOUS
<1>6. new \in CallerStates
  BY <1>5 DEF CallerStates
<1>7. /\ new.pc = "act" /\ new.todo = tool /\ new.cur = one.cur /\ new.curP = one.curP
      /\ new.did = one.did /\ new.req = one.req /\ new.next = one.next /\ new.p = p
  BY <1>5 DEF CallerStates
<1>8. HoldsInv(new) /\ ReadInv(new) /\ PauseInv(new)
  BY <1>2, <1>3, <1>4, <1>7, NullIsNoRow DEF Fits, HoldsInv, ReadInv, PauseInv
<1>9. caller' = [caller EXCEPT ![c] = new]
  BY <1>2, <1>3, <1>4, <1>5 DEF Core, CallersOK
<1>10. Moves(c)
  BY <1>6, <1>8, <1>9 DEF Moves, Fits
<1> QED BY <1>1, <1>10, QuietStep

LEMMA EndTurnKeeps ==
    ASSUME Core, NEW c \in Callers, EndTurn(c) PROVE Core'
<1>1. Moves(c)
  BY IdleState DEF EndTurn, Moves, Fits
<1> QED BY <1>1, QuietStep DEF EndTurn

LEMMA CapturedKeeps ==
    ASSUME Core, NEW c \in Callers, Captured(c) PROVE Core'
<1>1. UNCHANGED <<providerVars, serviceVars, wire>> /\ Does(c, "begin")
  BY DEF Captured, Keep
<1>2. PICK i \in Ids : i = caller[c].p /\ Exists(i) /\ purchases[i] \in PurchaseRows
  BY <1>1, ActsOn DEF Does
<1>3. PICK row \in PurchaseRows : row = purchases[i]
  BY <1>2
<1>4. PICK one \in CallerStates : one = caller[c] /\ Fits(one) /\ one.todo = "begin"
  BY <1>1, TheCaller DEF Fits, Does
<1>5. PICK back \in CallerStates :
         /\ back = Back(c) /\ back.pc = "ready" /\ back.req.kind = "none"
         /\ back.todo = "none" /\ back.next = "none" /\ back.did = {}
  BY <1>4, BackState DEF Core, Fits, PauseInv
<1>6. CASE caller' = [caller EXCEPT ![c] = Idle]
  <2>1. Moves(c)
    BY <1>6, IdleState DEF Moves, Fits
  <2> QED BY <1>1, <2>1, QuietStep
<1>7. CASE caller' = [caller EXCEPT ![c] =
               [back EXCEPT !.seen = row.version,
                  !.cur = IF row.stage \in {"quoted", "awaiting_payment"} THEN row.stage ELSE NULL,
                  !.curP = IF row.stage \in {"quoted", "awaiting_payment"} THEN i ELSE NULL,
                  !.curVersion = IF row.stage \in {"quoted", "awaiting_payment"}
                                 THEN row.version ELSE 0]]
  <2>1. PICK seen \in Nat : seen = row.version
    BY DEF PurchaseRows
  <2>2. PICK cur \in {"quoted", "awaiting_payment", NULL} :
           cur = IF row.stage \in {"quoted", "awaiting_payment"} THEN row.stage ELSE NULL
    OBVIOUS
  <2>3. PICK curP \in Ids \union {NULL} :
           curP = IF row.stage \in {"quoted", "awaiting_payment"} THEN i ELSE NULL
    OBVIOUS
  <2>4. PICK curVersion \in Nat :
           curVersion = IF row.stage \in {"quoted", "awaiting_payment"} THEN row.version ELSE 0
    BY DEF PurchaseRows
  <2>5. PICK new : new = [back EXCEPT !.seen = seen, !.cur = cur, !.curP = curP,
                                      !.curVersion = curVersion]
    OBVIOUS
  <2>6. new \in CallerStates
    BY <2>5 DEF CallerStates
  <2>7. /\ new.pc = "ready" /\ new.todo = "none" /\ new.cur = cur /\ new.curP = curP
        /\ new.did = {} /\ new.req = back.req /\ new.next = "none"
    BY <1>5, <2>5 DEF CallerStates
  <2>8. cur # NULL => curP = i /\ curP # NULL
    BY <2>2, <2>3, NullIsNoRow
  <2>9. HoldsInv(new) /\ ReadInv(new) /\ PauseInv(new)
    BY <1>2, <1>5, <2>7, <2>8 DEF HoldsInv, ReadInv, PauseInv
  <2>10. caller' = [caller EXCEPT ![c] = new]
    BY <1>7, <2>1, <2>2, <2>3, <2>4, <2>5
  <2>11. Moves(c)
    BY <2>6, <2>9, <2>10 DEF Moves, Fits
  <2> QED BY <1>1, <2>11, QuietStep
<1> QED BY <1>2, <1>3, <1>5, <1>6, <1>7 DEF Captured

LEMMA ViewedKeeps ==
    ASSUME Core, NEW c \in Callers, Viewed(c) PROVE Core'
<1>1. purchases[caller[c].p] \in PurchaseRows
  BY ActsOn DEF Viewed, Does
<1>2. Moves(c)
  BY <1>1, ShowMoves DEF Viewed
<1> QED BY <1>2, QuietStep DEF Viewed, Keep

LEMMA StartStepKeeps ==
    ASSUME Core, NEW c \in Callers, Start(c) PROVE Core'
<1>1. ASSUME NEW j \in Ids, Open(j), Show(c, purchases[j]), Keep
      PROVE  Core'
  <2>1. purchases[j] \in PurchaseRows
    BY <1>1, TheRow DEF Open
  <2>2. Moves(c)
    BY <1>1, <2>1, ShowMoves
  <2> QED BY <1>1, <2>2, QuietStep DEF Keep
<1>2. ASSUME NEW j \in Ids, ~Exists(j), purchases' = [purchases EXCEPT ![j] = NewPurchase],
             Show(c, NewPurchase), UNCHANGED <<providerVars, ops, confs, wire, faults>>
      PROVE  Core'
  <2>1. BooksInv'
    BY <1>2, BooksStutter DEF Core
  <2>2. ServiceTypeOK' /\ ServiceInv' /\ Progress
    BY <1>2, StartKeeps DEF Core
  <2>3. Moves(c)
    BY <1>2, NewPurchaseIsNew, ShowMoves
  <2> QED BY <2>1, <2>2, <2>3, Stepped
<1>3. \A j \in Ids : (\A i \in Ids : ~Open(i) /\ (Exists(i) <=> i < j)) => ~Exists(j)
  <2> SUFFICES ASSUME NEW j \in Ids, Exists(j) <=> j < j PROVE ~Exists(j)
    OBVIOUS
  <2> QED BY PurchaseAssumption DEF Ids
<1> QED BY <1>1, <1>2, <1>3 DEF Start

-----------------------------------------------------------------------------
(* The tools, up to the operation they ask for.                            *)

LEMMA RefuseKeeps ==
    ASSUME Core, NEW c \in Callers, Refuse(c) PROVE Core'
<1>1. Moves(c)
  BY BackMoves DEF Refuse
<1> QED BY <1>1, QuietStep DEF Refuse, Keep

LEMMA UpdateCartLinesKeeps ==
    ASSUME Core, NEW c \in Callers, UpdateCartLines(c) PROVE Core'
<1>1. PICK i \in Ids, row \in PurchaseRows : i = caller[c].p /\ row = purchases[i] /\ Exists(i)
  BY ActsOn DEF UpdateCartLines, Does
<1>t. caller[c].todo # "begin"
  BY DEF UpdateCartLines, Does
<1>2. CASE Refuse(c)
  BY <1>2, RefuseKeeps
<1>3. ASSUME NEW basket \in Lines, Keep,
             Reserving(c, row.version, [NoRequest EXCEPT !.kind = "update_cart", !.cart = row.cart,
                                    !.version = row.cartVersion, !.lines = basket], "view")
      PROVE  Core'
  <2>1. PICK request : request = [NoRequest EXCEPT !.kind = "update_cart", !.cart = row.cart,
                                    !.version = row.cartVersion, !.lines = basket]
    OBVIOUS
  <2>2. request \in Requests
    BY <2>1, NULL \in Keys \union {NULL}, RequestIsRequest
  <2>3. request.kind = "update_cart"
    BY <2>1, RequestKind
  <2>4. Reserving(c, row.version, request, "view") /\ Keep
    BY <1>3, <2>1
  <2>5. Moves(c)
    BY <1>1, <1>t, <2>2, <2>3, <2>4, ReservingMoves
  <2> QED BY <2>4, <2>5, QuietStep DEF Keep
<1> QED BY <1>1, <1>2, <1>3, PurchaseAssumption DEF UpdateCartLines

LEMMA PrepareQuoteKeeps ==
    ASSUME Core, NEW c \in Callers, PrepareQuote(c) PROVE Core'
<1>1. PICK i \in Ids, row \in PurchaseRows : i = caller[c].p /\ row = purchases[i] /\ Exists(i)
  BY ActsOn DEF PrepareQuote, Does
<1>t. caller[c].todo # "begin"
  BY DEF PrepareQuote, Does
<1>2. CASE Refuse(c)
  BY <1>2, RefuseKeeps
<1>3. CASE /\ Keep
           /\ Reserving(c, row.version, [NoRequest EXCEPT !.kind = "quote", !.cart = row.cart,
                                    !.version = row.cartVersion], "view")
  <2>1. PICK request \in Requests :
           /\ request.kind = "quote"
           /\ Reserving(c, row.version, request, "view")
    BY <1>3, RequestIsRequest, RequestKind, CatalogAssumption DEF NoLines, Lines
  <2>2. Moves(c)
    BY <1>1, <1>t, <2>1, ReservingMoves
  <2> QED BY <1>3, <2>2, QuietStep DEF Keep
<1> QED BY <1>1, <1>2, <1>3 DEF PrepareQuote

\* The payment record is asked for, of a purchase with an order.
LEMMA AsksForPayment ==
    ASSUME Core, NEW c \in Callers, NEW i \in Ids, i = caller[c].p, Exists(i),
           purchases[i].order # NULL, Keep,
           NEW next \in {"view", "refresh", "pay"},
           next = "pay" => caller[c].cur = "awaiting_payment", caller[c].todo # "begin",
           Reserving(c, purchases[i].version, PaymentRequest(purchases[i]), next)
    PROVE  Core'
<1>1. PICK row \in PurchaseRows : row = purchases[i]
  BY TheRow
<1>2. PICK request \in Requests :
         request.kind = "payment" /\ Reserving(c, row.version, request, next)
  BY <1>1, RequestIsRequest, RequestKind, CatalogAssumption DEF NoLines, Lines
<1>3. Moves(c)
  BY <1>1, <1>2, ReservingMoves
<1> QED BY <1>3, QuietStep DEF Keep

LEMMA RefreshKeeps ==
    ASSUME Core, NEW c \in Callers, caller[c].p \in Ids, Exists(caller[c].p), Refresh(c), Keep
    PROVE  Core'
<1>1. Moves(c)
  BY StatusMoves
<1> QED BY <1>1, QuietStep DEF Keep

LEMMA CommitCheckoutKeeps ==
    ASSUME Core, NEW c \in Callers, CommitCheckout(c) PROVE Core'
<1>1. PICK i \in Ids, row \in PurchaseRows :
         i = caller[c].p /\ row = purchases[i] /\ Exists(i) /\ RowInv(i)
  BY ActsOn DEF CommitCheckout, Does
<1>2. caller[c].cur = "quoted" /\ caller[c].todo # "begin"
  BY TheCaller DEF CommitCheckout, Does, Fits, PauseInv
<1>3. CASE Refuse(c)
  BY <1>3, RefuseKeeps
<1>4. CASE Refresh(c) /\ Keep
  BY <1>1, <1>4, RefreshKeeps
<1>5. CASE row.order # NULL /\ Reserving(c, row.version, PaymentRequest(row), "refresh") /\ Keep
  BY <1>1, <1>2, <1>5, AsksForPayment
<1>6. CASE /\ row.conf # NULL /\ Keep
           /\ Reserving(c, row.version,
                 [NoRequest EXCEPT !.kind = "order", !.target = confs[row.conf].quote], "after_order")
  <2>1. PICK quote \in Keys \union {NULL} : quote = row.quote /\ quote = confs[row.conf].quote
    BY <1>1, <1>6 DEF RowInv, PurchaseRows
  <2>2. PICK request : request = [NoRequest EXCEPT !.kind = "order", !.target = quote]
    OBVIOUS
  <2>3. request \in Requests
    BY <2>2, NoLines \in Lines, RequestIsRequest DEF NoLines, Lines
  <2>4. request.kind = "order" /\ request.target = quote
    BY <2>2, RequestKind
  <2>5. Reserving(c, row.version, request, "after_order") /\ Keep
    BY <1>6, <2>1, <2>2
  <2>6. Moves(c)
    BY <1>1, <1>2, <1>6, <2>1, <2>3, <2>4, <2>5, ReservingMoves
  <2> QED BY <2>5, <2>6, QuietStep DEF Keep
<1> QED BY <1>1, <1>3, <1>4, <1>5, <1>6 DEF CommitCheckout

LEMMA AfterOrderKeeps ==
    ASSUME Core, NEW c \in Callers, AfterOrder(c) PROVE Core'
<1>1. PICK i \in Ids, row \in PurchaseRows : i = caller[c].p /\ row = purchases[i] /\ Exists(i)
  BY ActsOn DEF AfterOrder, Does
<1>t. caller[c].todo # "begin"
  BY DEF AfterOrder, Does
<1>2. CASE row.order # NULL /\ Reserving(c, row.version, PaymentRequest(row), "view") /\ Keep
  BY <1>1, <1>t, <1>2, AsksForPayment
<1>3. CASE Show(c, row) /\ Keep
  <2>1. Moves(c)
    BY <1>3, ShowMoves
  <2> QED BY <1>3, <2>1, QuietStep DEF Keep
<1> QED BY <1>1, <1>2, <1>3 DEF AfterOrder

LEMMA PayOrderKeeps ==
    ASSUME Core, NEW c \in Callers, PayOrder(c) PROVE Core'
<1>1. PICK i \in Ids, row \in PurchaseRows : i = caller[c].p /\ row = purchases[i] /\ Exists(i)
  BY ActsOn DEF PayOrder, Does
<1>2. PICK one \in CallerStates :
         one = caller[c] /\ Fits(one) /\ one.todo = "mock_pay" /\ one.cur = "awaiting_payment"
  BY TheCaller DEF PayOrder, Does, Fits, PauseInv
<1>3. CASE Refuse(c)
  BY <1>3, RefuseKeeps
<1>4. CASE Refresh(c) /\ Keep
  BY <1>1, <1>4, RefreshKeeps
<1>5. CASE row.order # NULL /\ Reserving(c, row.version, PaymentRequest(row), "pay") /\ Keep
  BY <1>1, <1>2, <1>5, AsksForPayment
<1>6. CASE caller' = [caller EXCEPT ![c].todo = "pay"] /\ Keep
  <2>1. PICK new : new = [one EXCEPT !.todo = "pay"]
    OBVIOUS
  <2>2. new \in CallerStates
    BY <2>1 DEF CallerStates
  <2>3. /\ new.pc = one.pc /\ new.todo = "pay" /\ new.cur = one.cur /\ new.curP = one.curP
        /\ new.did = one.did /\ new.req = one.req /\ new.next = one.next /\ new.p = one.p
        /\ new.op = one.op /\ new.status = one.status /\ new.version = one.version
    BY <2>1 DEF CallerStates
  <2>4. HoldsInv(new) /\ ReadInv(new) /\ PauseInv(new)
    BY <1>2, <2>3 DEF Fits, HoldsInv, ReadInv, PauseInv
  <2>5. caller' = [caller EXCEPT ![c] = new]
    BY <1>2, <1>6, <2>1 DEF Core, CallersOK
  <2>6. Moves(c)
    BY <2>2, <2>4, <2>5 DEF Moves, Fits
  <2> QED BY <1>6, <2>6, QuietStep DEF Keep
<1> QED BY <1>1, <1>3, <1>4, <1>5, <1>6 DEF PayOrder

LEMMA PayKeeps ==
    ASSUME Core, NEW c \in Callers, Pay(c) PROVE Core'
<1>1. PICK i \in Ids, row \in PurchaseRows : i = caller[c].p /\ row = purchases[i] /\ Exists(i)
  BY ActsOn DEF Pay, Does
<1>2. caller[c].cur = "awaiting_payment" /\ caller[c].todo # "begin"
  BY TheCaller DEF Pay, Does, Fits, PauseInv
<1>3. CASE Refresh(c) /\ Keep
  BY <1>1, <1>3, RefreshKeeps
<1>4. CASE /\ row.payment # NULL /\ Keep
           /\ Reserving(c, row.version,
                 [NoRequest EXCEPT !.kind = "mock_pay", !.target = row.payment], "view")
  <2>1. PICK payment \in Keys \union {NULL} : payment = row.payment
    BY DEF PurchaseRows
  <2>2. PICK request \in Requests :
           /\ request.kind = "mock_pay" /\ request.target = payment
           /\ Reserving(c, row.version, request, "view")
    BY <1>4, <2>1, RequestIsRequest, RequestKind, CatalogAssumption DEF NoLines, Lines
  <2>3. Moves(c)
    BY <1>1, <1>2, <1>4, <2>1, <2>2, ReservingMoves
  <2> QED BY <1>4, <2>3, QuietStep DEF Keep
<1> QED BY <1>1, <1>3, <1>4 DEF Pay

-----------------------------------------------------------------------------
(* Refreshes, the reservation and its answer.                              *)

\* A caller goes on with the tool it runs.
LEMMA GoesOn ==
    ASSUME Core, NEW c \in Callers, NEW one \in CallerStates, one = caller[c],
           one.pc \in {"lookup", "poll", "swap"},
           NEW pc \in {"poll", "act"}, caller' = [caller EXCEPT ![c].pc = pc]
    PROVE  Moves(c)
<1>1. PICK new : new = [one EXCEPT !.pc = pc]
  OBVIOUS
<1>2. new \in CallerStates
  BY <1>1 DEF CallerStates
<1>3. /\ new.pc = pc /\ new.todo = one.todo /\ new.cur = one.cur /\ new.curP = one.curP
      /\ new.did = one.did /\ new.req = one.req /\ new.next = one.next /\ new.p = one.p
  BY <1>1 DEF CallerStates
<1>4. Fits(one)
  BY TheCaller
<1>5. HoldsInv(new) /\ ReadInv(new) /\ PauseInv(new)
  BY <1>3, <1>4 DEF Fits, HoldsInv, ReadInv, PauseInv
<1>6. caller' = [caller EXCEPT ![c] = new]
  BY <1>1 DEF Core, CallersOK
<1> QED BY <1>2, <1>5, <1>6 DEF Moves, Fits

LEMMA LookupKeeps ==
    ASSUME Core, NEW c \in Callers, Lookup(c) PROVE Core'
<1>1. PICK i \in Ids, row \in PurchaseRows :
         i = caller[c].p /\ row = purchases[i] /\ Exists(i) /\ RowInv(i)
  BY ActsOn DEF Lookup
<1>2. PICK one \in CallerStates : one = caller[c] /\ one.pc = "lookup"
  BY TheCaller DEF Fits, Lookup
<1>3. Moves(c)
  BY <1>2, GoesOn DEF Lookup
<1>4. UNCHANGED <<providerVars, wire>>
  BY DEF Lookup
<1>5. CASE UNCHANGED serviceVars
  BY <1>3, <1>4, <1>5, QuietStep
<1>6. CASE row.active # NULL /\ receipts[row.active] # NULL /\ Finish(row.active)
  <2>1. PICK k \in Keys : k = row.active
    BY <1>6 DEF PurchaseRows
  <2>2. ops[k] # NULL
    BY <1>1, <1>6, <2>1 DEF RowInv, ActiveInv
  <2>3. WireFades
    BY <1>4 DEF WireFades, Core, ServiceTypeOK
  <2>4. BooksInv' /\ ProviderTypeOK
    BY <1>4, BooksStutter DEF Core, BooksInv
  <2>5. ServiceTypeOK' /\ ServiceInv' /\ Progress
    BY <1>4, <1>6, <2>1, <2>2, <2>3, <2>4, FinishKeeps DEF Core
  <2> QED BY <1>3, <2>4, <2>5, Stepped
<1> QED BY <1>1, <1>5, <1>6 DEF Lookup

LEMMA PollKeeps ==
    ASSUME Core, NEW c \in Callers, Poll(c) PROVE Core'
<1>1. PICK i \in Ids, row \in PurchaseRows :
         i = caller[c].p /\ row = purchases[i] /\ Exists(i) /\ RowInv(i)
  BY ActsOn DEF Poll
<1>2. PICK one \in CallerStates : one = caller[c] /\ Fits(one) /\ one.pc = "poll"
  BY TheCaller DEF Fits, Poll
<1>3. UNCHANGED <<providerVars, serviceVars, wire>>
  BY DEF Poll
<1>4. CASE caller' = [caller EXCEPT ![c].pc = "act"]
  <2>1. Moves(c)
    BY <1>2, <1>4, GoesOn
  <2> QED BY <1>3, <2>1, QuietStep
<1>5. CASE /\ NeedsStatus(row)
           /\ caller' = [caller EXCEPT ![c].pc = "swap", ![c].version = row.version,
                                       ![c].status = payments[row.payment].status]
  <2>1. PICK version \in Nat : version = row.version
    BY DEF PurchaseRows
  <2>2. PICK status \in PayStatuses : status = payments[row.payment].status
    <3>1. row.payment \in Keys /\ payments[row.payment] # NULL
      BY <1>1, <1>5 DEF NeedsStatus, RowInv, PurchaseRows
    <3> QED BY <3>1 DEF Core, BooksInv, ProviderTypeOK, PaymentRows
  <2>3. PICK new : new = [one EXCEPT !.pc = "swap", !.version = version, !.status = status]
    OBVIOUS
  <2>4. new \in CallerStates
    BY <2>3 DEF CallerStates
  <2>5. /\ new.pc = "swap" /\ new.todo = one.todo /\ new.cur = one.cur /\ new.curP = one.curP
        /\ new.did = one.did /\ new.req = one.req /\ new.next = one.next /\ new.p = i
        /\ new.version = version /\ new.status = status
    BY <1>1, <1>2, <2>3 DEF CallerStates
  <2>6. status # NULL /\ row.payment # NULL
    BY <1>5, NullIsNoRow DEF Stages, NeedsStatus
  <2>7. HoldsInv(new) /\ PauseInv(new)
    BY <1>1, <1>2, <2>5, NullIsNoRow DEF Fits, HoldsInv, PauseInv
  <2>8. ReadInv(new)
    BY <1>1, <2>1, <2>2, <2>5, <2>6 DEF ReadInv
  <2>9. caller' = [caller EXCEPT ![c] = new]
    BY <1>2, <1>5, <2>1, <2>2, <2>3 DEF Core, CallersOK
  <2>10. Moves(c)
    BY <2>4, <2>7, <2>8, <2>9 DEF Moves, Fits
  <2> QED BY <1>3, <2>10, QuietStep
<1> QED BY <1>1, <1>4, <1>5 DEF Poll

LEMMA SwapStepKeeps ==
    ASSUME Core, NEW c \in Callers, Swap(c) PROVE Core'
<1>1. PICK i \in Ids, row \in PurchaseRows :
         i = caller[c].p /\ row = purchases[i] /\ Exists(i) /\ RowInv(i)
  BY ActsOn DEF Swap
<1>2. PICK one \in CallerStates : one = caller[c] /\ Fits(one) /\ one.pc = "swap"
  BY TheCaller DEF Fits, Swap
<1>3. UNCHANGED <<providerVars, ops, confs, wire>>
  BY DEF Swap
<1>4. Moves(c)
  <2>1. PICK new : new = [one EXCEPT !.pc = "act", !.status = NULL, !.version = 0]
    OBVIOUS
  <2>2. new \in CallerStates
    BY <2>1 DEF CallerStates
  <2>3. /\ new.pc = "act" /\ new.todo = one.todo /\ new.cur = one.cur /\ new.curP = one.curP
        /\ new.did = one.did /\ new.req = one.req /\ new.next = one.next /\ new.p = one.p
    BY <2>1 DEF CallerStates
  <2>4. HoldsInv(new) /\ ReadInv(new) /\ PauseInv(new)
    BY <1>2, <2>3 DEF Fits, HoldsInv, ReadInv, PauseInv
  <2>5. caller' = [caller EXCEPT ![c] = new]
    BY <1>2, <2>1 DEF Swap, Core, CallersOK
  <2> QED BY <2>2, <2>4, <2>5 DEF Moves, Fits
<1>5. CASE Unmoved(i, one.version)
  <2>1. row.version = one.version /\ row.active = NULL
    BY <1>1, <1>5 DEF Unmoved
  <2>2. /\ one.status # NULL /\ row.payment # NULL
        /\ one.status = "paid" => payments[row.payment].status = "paid"
    BY <1>1, <1>2, <2>1 DEF Fits, ReadInv
  <2>3. PICK status \in PayStatuses : status = one.status
    BY <2>2 DEF CallerStates
  <2>4. purchases' = [purchases EXCEPT ![i].stage = status, ![i].payStatus = status,
                                       ![i].version = @ + 1, ![i].slot = @ /\ ~(status = "paid")]
    BY <1>1, <1>2, <1>5, <2>3 DEF Swap
  <2>5. ServiceTypeOK' /\ ServiceInv' /\ Progress
    BY <1>1, <1>3, <2>1, <2>2, <2>3, <2>4, SwapKeeps DEF Core
  <2>6. BooksInv'
    BY <1>3, BooksStutter DEF Core
  <2> QED BY <1>4, <2>5, <2>6, Stepped
<1>6. CASE UNCHANGED purchases
  BY <1>3, <1>4, <1>6, QuietStep DEF serviceVars
<1> QED BY <1>1, <1>2, <1>5, <1>6 DEF Swap

LEMMA ReservedIsOperation ==
    ASSUME ServiceTypeOK, NEW c \in Callers, NEW i \in Ids, Exists(i),
           caller[c].req \in Requests, caller[c].req.kind # "none"
    PROVE  ReservedOp(c, i) \in Operations
<1>1. PICK row \in PurchaseRows : row = purchases[i]
  BY DEF ServiceTypeOK, Exists
<1>2. PICK req \in Requests : req = caller[c].req /\ req.kind \in Kinds
  BY DEF Requests
<1>3. PICK generation \in Nat :
         generation = IF req.kind \in {"update_cart", "quote"} THEN row.version + 1 ELSE row.generation
  BY DEF PurchaseRows
<1>4. ReservedOp(c, i) = [purchase |-> i, kind |-> req.kind, generation |-> generation,
                          status |-> "reserved", cart |-> req.cart, version |-> req.version,
                          lines |-> req.lines, target |-> req.target]
  BY <1>1, <1>2, <1>3 DEF ReservedOp
<1>5. /\ req.kind \in Kinds /\ req.cart \in Keys \union {NULL} /\ req.lines \in Lines
      /\ req.version \in Nat \union {NULL} /\ req.target \in Keys \union {NULL}
  BY <1>2 DEF Requests
<1> QED BY <1>4, <1>5 DEF Operations

LEMMA CallingState ==
    ASSUME NEW one \in CallerStates, NEW k \in Keys, NEW did \in SUBSET {"order", "mock_pay"}
    PROVE  [one EXCEPT !.pc = "call", !.op = k, !.did = did] \in CallerStates
<1>1. PICK mid \in CallerStates : mid = [one EXCEPT !.pc = "call", !.op = k]
  <2>1. [one EXCEPT !.pc = "call", !.op = k] \in CallerStates
    BY DEF CallerStates
  <2> QED BY <2>1
<1>2. [mid EXCEPT !.did = did] \in CallerStates
  BY DEF CallerStates
<1> QED BY <1>1, <1>2

LEMMA ReserveStepKeeps ==
    ASSUME Core, NEW c \in Callers, Reserve(c) PROVE Core'
<1>1. PICK k \in FreeKeys :
         /\ caller[c].pc = "reserve"
         /\ UNCHANGED providerVars
         /\ \/ /\ CanReserve(c)
               /\ Blocks(c, caller[c].p, k)
               /\ caller' = [caller EXCEPT ![c].pc = "call", ![c].op = k,
                      ![c].did = @ \union ({caller[c].req.kind} \intersect {"order", "mock_pay"})]
            \/ /\ \/ caller' = [caller EXCEPT ![c] =
                                   [Back(c) EXCEPT !.pc = "lookup", !.todo = "status", !.p = caller[c].p]]
                  \/ caller' = [caller EXCEPT ![c] = Back(c)]
               /\ UNCHANGED <<serviceVars, wire>>
  BY DEF Reserve, Blocks, ReservedOp
<1>2. PICK i \in Ids : i = caller[c].p /\ Exists(i)
  BY <1>1, ActsOn
<1>3. PICK one \in CallerStates : one = caller[c] /\ Fits(one) /\ one.pc = "reserve"
  BY <1>1, TheCaller DEF Fits
<1>4. k \in Keys /\ ops[k] = NULL
  BY DEF FreeKeys
<1>5. CASE /\ CanReserve(c) /\ Blocks(c, i, k)
           /\ caller' = [caller EXCEPT ![c].pc = "call", ![c].op = k,
                  ![c].did = @ \union ({one.req.kind} \intersect {"order", "mock_pay"})]
  <2>1. one.req \in Requests /\ ReadInv(one)
    BY <1>3 DEF Fits, CallerStates
  <2>2. ServiceTypeOK' /\ ServiceInv' /\ Progress
    BY <1>1, <1>2, <1>3, <1>4, <1>5, <2>1, ReserveKeeps DEF Core
  <2>3. BooksInv'
    BY <1>1, BooksStutter DEF Core
  <2>4. PICK did \in SUBSET {"order", "mock_pay"} :
           did = one.did \union ({one.req.kind} \intersect {"order", "mock_pay"})
    BY DEF CallerStates
  <2>5. PICK new : new = [one EXCEPT !.pc = "call", !.op = k, !.did = did]
    OBVIOUS
  <2>6. new \in CallerStates
    BY <1>4, <2>5, CallingState
  <2>7. /\ new.pc = "call" /\ new.todo = one.todo /\ new.cur = one.cur /\ new.curP = one.curP
        /\ new.did = did /\ new.req = one.req /\ new.next = one.next /\ new.p = i /\ new.op = k
    BY <1>2, <1>3, <2>5 DEF CallerStates
  <2>8. caller' = [caller EXCEPT ![c] = new]
    BY <1>3, <1>5, <2>4, <2>5 DEF Core, CallersOK
  <2>9. PauseInv(new)
    <3>1. /\ "order" \in did => "order" \in one.did \/ one.req.kind = "order"
          /\ "mock_pay" \in did => "mock_pay" \in one.did \/ one.req.kind = "mock_pay"
      BY <2>4
    <3>2. PauseInv(one)
      BY <1>3 DEF Fits
    <3> QED BY <1>3, <2>7, <3>1, <3>2 DEF PauseInv
  <2>10. HoldsInv(new)'
    <3>1. ops'[k] = ReservedOp(c, i) /\ ReservedOp(c, i) # NULL
      <4>1. ops' = [ops EXCEPT ![k] = ReservedOp(c, i)] /\ ServiceTypeOK
        BY <1>5 DEF Blocks, Core
      <4>2. ops'[k] = ReservedOp(c, i)
        BY <1>4, <4>1 DEF ServiceTypeOK
      <4>3. ReservedOp(c, i) \in Operations
        <5>1. one.req.kind # "none"
          BY <1>2, <1>3, <1>5 DEF Fits, ReadInv, CanReserve
        <5> QED BY <1>2, <1>3, <2>1, <4>1, <5>1, ReservedIsOperation
      <4> QED BY <4>2, <4>3, NullIsNoRow
    <3>2. Exists(i)' /\ one.cur # NULL => one.curP # NULL /\ Exists(one.curP)'
      BY <1>2, <1>3, <2>2 DEF Fits, HoldsInv, Progress, Exists, CallerStates
    <3> QED BY <1>2, <1>3, <1>4, <2>2, <2>7, <3>1, NullIsNoRow, NullAssumption
            DEF Fits, HoldsInv, Progress, Exists, CallerStates
  <2>11. ReadInv(new)'
    BY <2>7 DEF ReadInv
  <2>12. CallersOK'
    BY <2>2, <2>6, <2>8, <2>9, <2>10, <2>11, CallerMoves DEF Core
  <2> QED BY <2>2, <2>3, <2>12 DEF Core
<1>6. CASE UNCHANGED <<serviceVars, wire>> /\ caller' = [caller EXCEPT ![c] = Back(c)]
  <2>1. Moves(c)
    BY <1>6, BackMoves
  <2> QED BY <1>1, <1>6, <2>1, QuietStep
<1>7. CASE /\ UNCHANGED <<serviceVars, wire>>
           /\ caller' = [caller EXCEPT ![c] =
                           [Back(c) EXCEPT !.pc = "lookup", !.todo = "status", !.p = i]]
  <2>1. PICK back \in CallerStates : back = Back(c) /\ Fits(back)
    BY BackState DEF Core, Fits
  <2>2. PICK new : new = [back EXCEPT !.pc = "lookup", !.todo = "status", !.p = i]
    OBVIOUS
  <2>3. new \in CallerStates
    BY <2>2 DEF CallerStates
  <2>4. /\ new.pc = "lookup" /\ new.todo = "status" /\ new.cur = back.cur /\ new.curP = back.curP
        /\ new.did = back.did /\ new.req = back.req /\ new.next = back.next /\ new.p = i
    BY <2>2 DEF CallerStates
  <2>5. HoldsInv(new) /\ ReadInv(new) /\ PauseInv(new)
    BY <1>2, <2>1, <2>4, NullIsNoRow DEF Fits, HoldsInv, ReadInv, PauseInv
  <2>6. Moves(c)
    BY <1>7, <2>1, <2>2, <2>3, <2>5 DEF Moves, Fits
  <2> QED BY <1>1, <1>7, <2>6, QuietStep
<1> QED BY <1>1, <1>2, <1>3, <1>5, <1>6, <1>7

LEMMA ContinuedState ==
    ASSUME NEW one \in CallerStates, NEW i \in Ids, NEW pc \in {"lookup", "act"},
           NEW todo \in {"status", "none", "view", "after_order", "pay"}
    PROVE  [one EXCEPT !.op = NULL, !.p = i, !.pc = pc, !.todo = todo] \in CallerStates
<1>1. PICK mid \in CallerStates : mid = [one EXCEPT !.op = NULL, !.p = i]
  <2>1. [one EXCEPT !.op = NULL, !.p = i] \in CallerStates
    BY DEF CallerStates
  <2> QED BY <2>1
<1>2. PICK last \in CallerStates : last = [mid EXCEPT !.pc = pc]
  <2>1. [mid EXCEPT !.pc = pc] \in CallerStates
    BY DEF CallerStates
  <2> QED BY <2>1
<1>3. [last EXCEPT !.todo = todo] \in CallerStates
  BY DEF CallerStates
<1> QED BY <1>1, <1>2, <1>3

\* The caller is done with its operation: it refreshes, or goes on.
LEMMA ContinueMoves ==
    ASSUME Core, NEW c \in Callers, caller[c].pc = "call", Continue(c)
    PROVE  Moves(c)
<1>1. PICK one \in CallerStates : one = caller[c] /\ Fits(one) /\ one.pc = "call"
  BY TheCaller DEF Fits
<1>2. PICK back \in CallerStates :
         /\ back = Back(c) /\ Fits(back) /\ back.req.kind = "none" /\ back.next = "none"
         /\ back.did = one.did /\ back.cur = one.cur /\ back.curP = one.curP
  BY <1>1, BackState DEF Core, Fits
<1>3. PICK i \in Ids : i = one.p /\ Exists(i)
  BY <1>1 DEF Fits, HoldsInv, CallerStates
<1>4. PICK pc \in {"lookup", "act"} : pc = IF one.next = "refresh" THEN "lookup" ELSE "act"
  OBVIOUS
<1>5. PICK todo \in {"status", "none", "view", "after_order", "pay"} :
         /\ todo = IF one.next = "refresh" THEN "status" ELSE one.next
         /\ todo = "pay" => one.cur = "awaiting_payment"
  BY <1>1 DEF CallerStates, Fits, PauseInv
<1>6. PICK new : new = [back EXCEPT !.op = NULL, !.p = i, !.pc = pc, !.todo = todo]
  OBVIOUS
<1>7. new \in CallerStates
  BY <1>6, ContinuedState
<1>8. /\ new.pc = pc /\ new.todo = todo /\ new.cur = back.cur /\ new.curP = back.curP
      /\ new.did = back.did /\ new.req = back.req /\ new.next = back.next /\ new.p = i
  BY <1>6 DEF CallerStates
<1>9. HoldsInv(new) /\ ReadInv(new)
  BY <1>2, <1>3, <1>8, NullIsNoRow DEF Fits, HoldsInv, ReadInv
<1>10. PauseInv(new)
  BY <1>2, <1>5, <1>8 DEF Fits, PauseInv
<1>11. caller' = [caller EXCEPT ![c] = new]
  BY <1>1, <1>2, <1>3, <1>4, <1>5, <1>6 DEF Continue
<1> QED BY <1>7, <1>9, <1>10, <1>11 DEF Moves, Fits

\* The operation a caller waits for.
LEMMA TheCall ==
    ASSUME Core, NEW c \in Callers, caller[c].pc = "call"
    PROVE  caller[c].op \in Keys /\ ops[caller[c].op] # NULL
BY TheCaller DEF Fits, HoldsInv, CallerStates

LEMMA AnsweredKeeps ==
    ASSUME Core, NEW c \in Callers, Answered(c) PROVE Core'
<1>1. Moves(c)
  BY ContinueMoves DEF Answered
<1>2. PICK k \in Keys : k = caller[c].op /\ ops[k] # NULL
  BY TheCall DEF Answered
<1>3. UNCHANGED providerVars /\ wire' = [wire EXCEPT ![k] = "none"]
  BY <1>2 DEF Answered
<1>4. WireFades
  BY <1>3 DEF WireFades, Core, ServiceTypeOK
<1>5. BooksInv' /\ ProviderTypeOK
  BY <1>3, BooksStutter DEF Core, BooksInv
<1>6. CASE wire[k] = "ok" /\ Finish(k)
  <2>1. receipts[k] # NULL
    BY <1>6 DEF Core, ServiceInv, WireInv
  <2>2. ServiceTypeOK' /\ ServiceInv' /\ Progress
    BY <1>2, <1>3, <1>4, <1>5, <1>6, <2>1, FinishKeeps DEF Core
  <2> QED BY <1>1, <1>5, <2>2, Stepped
<1>7. CASE wire[k] = "rejected" /\ Mark(k, TRUE)
  <2>1. ServiceTypeOK' /\ ServiceInv' /\ Progress
    BY <1>2, <1>3, <1>4, <1>7, MarkKeeps DEF Core
  <2> QED BY <1>1, <1>5, <2>1, Stepped
<1>8. CASE wire[k] = "unknown" /\ Mark(k, FALSE)
  <2>1. ServiceTypeOK' /\ ServiceInv' /\ Progress
    BY <1>2, <1>3, <1>4, <1>8, MarkKeeps DEF Core
  <2> QED BY <1>1, <1>5, <2>1, Stepped
<1> QED BY <1>2, <1>6, <1>7, <1>8 DEF Answered

LEMMA TimedOutKeeps ==
    ASSUME Core, NEW c \in Callers, TimedOut(c) PROVE Core'
<1>1. Moves(c)
  BY ContinueMoves DEF TimedOut
<1>2. PICK k \in Keys : k = caller[c].op /\ ops[k] # NULL
  BY TheCall DEF TimedOut
<1>3. UNCHANGED <<providerVars, wire>> /\ Mark(k, FALSE)
  BY <1>2 DEF TimedOut
<1>4. WireFades
  BY <1>3 DEF WireFades, Core, ServiceTypeOK
<1>5. BooksInv'
  BY <1>3, BooksStutter DEF Core
<1>6. ServiceTypeOK' /\ ServiceInv' /\ Progress
  BY <1>2, <1>3, <1>4, MarkKeeps DEF Core
<1> QED BY <1>1, <1>5, <1>6, Stepped

LEMMA CancelTurnKeeps ==
    ASSUME Core, NEW c \in Callers, CancelTurn(c) PROVE Core'
<1>1. Moves(c)
  BY IdleState DEF CancelTurn, Moves, Fits
<1>2. UNCHANGED providerVars /\ BooksInv'
  BY BooksStutter DEF CancelTurn, Core
<1>3. WireFades
  BY DEF CancelTurn, Abandon, WireFades, Core, ServiceTypeOK
<1>4. CASE UNCHANGED serviceVars
  <2>1. ServiceTypeOK' /\ ServiceInv' /\ Progress
    BY <1>2, <1>3, <1>4, ServiceStutter DEF Core
  <2> QED BY <1>1, <1>2, <2>1, Stepped
<1>5. CASE caller[c].pc = "call" /\ Mark(caller[c].op, FALSE)
  <2>1. PICK k \in Keys : k = caller[c].op /\ ops[k] # NULL
    BY <1>5, TheCall
  <2>2. ServiceTypeOK' /\ ServiceInv' /\ Progress
    BY <1>2, <1>3, <1>5, <2>1, MarkKeeps DEF Core
  <2> QED BY <1>1, <1>2, <2>2, Stepped
<1> QED BY <1>4, <1>5 DEF CancelTurn

LEMMA CrashKeeps ==
    ASSUME Core, Crash PROVE Core'
<1>1. WireFades
  BY DEF Crash, Abandon, WireFades, Core, ServiceTypeOK
<1>2. BooksInv' /\ ServiceTypeOK' /\ ServiceInv' /\ Progress
  BY <1>1, BooksStutter, ServiceStutter DEF Core, Crash
<1>3. caller' = [c \in Callers |-> Idle]
  BY DEF Crash
<1>4. HoldsInv(Idle)' /\ ReadInv(Idle)'
  BY <1>2, IdleState, StillHolds DEF Core
<1>5. \A c \in Callers : HoldsInv(caller[c])' /\ ReadInv(caller[c])' /\ PauseInv(caller[c])'
  BY <1>3, <1>4, IdleState DEF HoldsInv, ReadInv, PauseInv, Exists
<1>6. CallersOK'
  BY <1>3, <1>5, IdleState DEF CallersOK, CallersInv
<1> QED BY <1>2, <1>6 DEF Core

-----------------------------------------------------------------------------
(* The provider and the others.                                            *)

LEMMA ServeKeeps ==
    ASSUME Core, NEW k \in Keys, Serve(k) PROVE Core'
<1>1. UNCHANGED serviceVars /\ UNCHANGED caller /\ wire[k] = "sent"
  BY DEF Serve
<1>2. ASSUME Commits(k), NEW answer \in {"ok", "unknown"}, Reply(k, answer)
      PROVE  Core'
  <2>1. AnswersOn(k, {answer})
    BY <1>2, Replies DEF Core
  <2>2. AnswersOn(k, {"ok", "unknown"})
    BY <2>1 DEF AnswersOn
  <2>3. BooksInv' /\ ServiceTypeOK' /\ ServiceInv' /\ Progress
    BY <1>1, <1>2, <2>2, CommitKeeps DEF Core
  <2> QED BY <1>1, <2>3, CallersStand DEF Core
<1>3. CASE Reply(k, "rejected") /\ UNCHANGED providerVars
  <2>1. AnswersOn(k, {"rejected"})
    BY <1>3, Replies DEF Core
  <2>2. ServiceTypeOK' /\ ServiceInv' /\ Progress
    BY <1>1, <1>3, <2>1, RejectKeeps DEF Core
  <2>3. BooksInv'
    BY <1>3, BooksStutter DEF Core
  <2> QED BY <1>1, <2>2, <2>3, CallersStand DEF Core
<1> QED BY <1>2, <1>3 DEF Serve

LEMMA OthersKeep ==
    ASSUME Core, OthersBuy \/ Expire PROVE Core'
<1>1. /\ UNCHANGED <<serviceVars, wire, caller>>
      /\ UNCHANGED <<carts, quotes, orders, payments, receipts>>
      /\ expired' \subseteq Keys /\ sold' \in Lines /\ \A s \in Skus : sold'[s] <= Stock[s]
  <2>1. CASE OthersBuy
    <3>1. PICK s \in Skus : sold[s] < Stock[s] /\ sold' = [sold EXCEPT ![s] = @ + 1]
      BY <2>1 DEF OthersBuy
    <3>2. sold \in Lines /\ expired \subseteq Keys /\ \A x \in Skus : sold[x] <= Stock[x]
      BY DEF Core, BooksInv, ProviderTypeOK, BooksBalance, NothingOversold
    <3>3. sold' \in Lines /\ \A x \in Skus : sold'[x] <= Stock[x]
      BY <3>1, <3>2, CatalogAssumption DEF Lines
    <3> QED BY <2>1, <3>2, <3>3 DEF OthersBuy
  <2>2. CASE Expire
    <3>1. PICK q \in Keys : ExpireQuote(q)
      BY <2>2 DEF Expire
    <3> QED BY <2>2, <3>1
            DEF Expire, ExpireQuote, Core, BooksInv, ProviderTypeOK, BooksBalance, NothingOversold
  <2> QED BY <2>1, <2>2
<1>2. BooksInv'
  BY <1>1, BooksElse DEF Core
<1>3. ServiceTypeOK' /\ ServiceInv' /\ Progress
  BY <1>1, ElseKeeps DEF Core
<1> QED BY <1>1, <1>2, <1>3, CallersStand DEF Core

LEMMA SettleStepKeeps ==
    ASSUME Core, Settle PROVE Core'
<1>1. PICK p \in Keys, status \in {"paid", "failed"} : SettlePayment(p, status)
  BY DEF Settle
<1>2. UNCHANGED <<serviceVars, wire, caller>>
  BY DEF Settle
<1>3. BooksInv'
  BY <1>1, BooksSettle DEF Core
<1>4. ServiceTypeOK' /\ ServiceInv' /\ Progress
  BY <1>1, <1>2, SettleKeeps DEF Core
<1> QED BY <1>2, <1>3, <1>4, CallersStand DEF Core

-----------------------------------------------------------------------------
(* The invariant and what follows from it.                                 *)

LEMMA PurchaseStart == Init => PurchaseInv
<1> SUFFICES ASSUME Init PROVE PurchaseInv
  OBVIOUS
<1>1. BooksInv
  BY BooksStart DEF Init
<1>2. PurchaseTypeOK
  BY <1>1, IdleState, PurchaseAssumption DEF Init, PurchaseTypeOK, BooksInv
<1>3. ServiceInv
  BY DEF Init, ProviderInit, ServiceInv, MadeInv, WireInv, Unique, Exists
<1>4. CallersInv
  BY IdleState DEF Init, CallersInv
<1> QED BY <1>1, <1>2, <1>3, <1>4 DEF PurchaseInv

LEMMA FaultsCounted ==
    ASSUME faults \in 0..MaxFaults, [Next]_vars
    PROVE  faults' \in 0..MaxFaults
<1>1. UNCHANGED faults \/ Fault
  <2>1. CASE UNCHANGED vars
    BY <2>1 DEF vars
  <2>2. ASSUME NEW c \in Callers, Turn(c) PROVE UNCHANGED faults \/ Fault
    BY <2>2 DEF Turn, Begin, CallSearch, CallTool, CallIrreversible, Captured, Viewed, Start,
         UpdateCartLines, PrepareQuote, CommitCheckout, AfterOrder, PayOrder, Pay, Lookup, Poll,
         Swap, Reserve, Answered, TimedOut, EndTurn, CancelTurn, Keep, Refuse
  <2>3. ASSUME NEW k \in Keys, Serve(k) PROVE UNCHANGED faults \/ Fault
    BY <2>3 DEF Serve
  <2>4. CASE Crash \/ OthersBuy \/ Settle \/ Expire
    BY <2>4 DEF Crash, OthersBuy, Settle, Expire
  <2> QED BY <2>1, <2>2, <2>3, <2>4 DEF Next
<1> QED BY <1>1, PurchaseAssumption DEF Fault

LEMMA PurchaseIsCore ==
    PurchaseInv <=> Core /\ faults \in 0..MaxFaults
BY DEF PurchaseInv, Core, PurchaseTypeOK, BooksInv, ServiceTypeOK, CallersOK

LEMMA PurchaseStep == PurchaseInv /\ [Next]_vars => PurchaseInv'
<1> SUFFICES ASSUME PurchaseInv, [Next]_vars PROVE PurchaseInv'
  OBVIOUS
<1>1. Core /\ faults \in 0..MaxFaults
  BY PurchaseIsCore
<1>2. Core'
  <2>1. CASE UNCHANGED vars
    <3>1. UNCHANGED <<providerVars, serviceVars, wire, caller>>
      BY <2>1 DEF vars
    <3> QED BY <1>1, <3>1, Unwritten, CallersStand DEF Core
  <2>2. ASSUME NEW c \in Callers, Turn(c) PROVE Core'
    BY <1>1, <2>2, BeginKeeps, CallSearchKeeps, CallToolKeeps, CallIrreversibleKeeps,
       CapturedKeeps, ViewedKeeps, StartStepKeeps, UpdateCartLinesKeeps, PrepareQuoteKeeps,
       CommitCheckoutKeeps, AfterOrderKeeps, PayOrderKeeps, PayKeeps, LookupKeeps, PollKeeps,
       SwapStepKeeps, ReserveStepKeeps, AnsweredKeeps, TimedOutKeeps, EndTurnKeeps,
       CancelTurnKeeps
       DEF Turn
  <2>3. ASSUME NEW k \in Keys, Serve(k) PROVE Core'
    BY <1>1, <2>3, ServeKeeps
  <2>4. CASE Crash \/ OthersBuy \/ Settle \/ Expire
    BY <1>1, <2>4, CrashKeeps, OthersKeep, SettleStepKeeps
  <2> QED BY <2>1, <2>2, <2>3, <2>4 DEF Next
<1>3. (faults \in 0..MaxFaults)'
  BY <1>1, FaultsCounted
<1>4. Core' /\ (faults \in 0..MaxFaults)' => PurchaseInv'
  BY DEF PurchaseInv, Core, PurchaseTypeOK, BooksInv, ServiceTypeOK, CallersOK
<1> QED BY <1>2, <1>3, <1>4

(* The inductive invariant of the purchase, its callers and the provider   *)
(* (service.py, tools.py; commerce_provider): what the service wrote knows *)
(* what the provider has, and a version that has not moved can be trusted. *)
THEOREM PurchaseInvariant == Spec => []PurchaseInv
<1>1. Init => PurchaseInv
  BY PurchaseStart
<1>2. PurchaseInv /\ [Next]_vars => PurchaseInv'
  BY PurchaseStep
<1> QED BY <1>1, <1>2, PTL DEF Spec

(* Type correctness of the purchase, its callers and the provider (the     *)
(* columns of commerce_purchases, commerce_operations,                     *)
(* commerce_confirmations and of the provider's tables).                   *)
THEOREM PurchaseIsTyped == Spec => []PurchaseTypeOK
<1>1. PurchaseInv => PurchaseTypeOK
  BY DEF PurchaseInv
<1> QED BY <1>1, PurchaseInvariant, PTL

(* The provider's books balance, and what it committed is written to the   *)
(* purchase or is what the purchase waits for, whatever timed out, was     *)
(* cancelled, crashed or was answered with an error (_mark, _finish,       *)
(* _reserve; create_order, create_payment, mock_pay).                      *)
THEOREM PurchasesAgree == Spec => []BooksAndPurchasesAgree
<1>1. PurchaseInv => BooksAndPurchasesAgree
  <2> SUFFICES ASSUME PurchaseInv, NEW k \in Keys, receipts[k] # NULL
               PROVE  \/ ops[k].status = "completed"
                      \/ purchases[ops[k].purchase].active = k
    BY DEF PurchaseInv, BooksInv, BooksAndPurchasesAgree, NothingLost
  <2>1. ops[k] # NULL /\ OpInv(k)
    BY DEF PurchaseInv, ServiceInv, MadeInv, ReceiptInv
  <2>2. ops[k].status \in {"reserved", "unknown", "failed", "completed"}
    BY <2>1 DEF PurchaseInv, PurchaseTypeOK, Operations
  <2> QED BY <2>1, <2>2 DEF OpInv
<1> QED BY <1>1, PurchaseInvariant, PTL

(* One order and one charge for a purchase, as confirmed, and never both   *)
(* in one turn, with any number of overlapping turns (commit_checkout,     *)
(* mock_pay, _reserve; the tools a stage offers).                          *)
THEOREM PurchasesPaidAsAgreed == Spec => []PaidAsAgreed
<1>1. PurchaseInv => OneOrderOneCharge
  <2> SUFFICES ASSUME PurchaseInv, NEW k1 \in Keys, NEW k2 \in Keys,
                      receipts[k1] # NULL, receipts[k2] # NULL,
                      ops[k1].purchase = ops[k2].purchase, ops[k1].kind = ops[k2].kind,
                      ops[k1].kind \in {"order", "mock_pay"}
               PROVE  k1 = k2
    BY DEF OneOrderOneCharge
  <2>1. /\ ops[k1] # NULL /\ OpInv(k1) /\ ops[k2] # NULL /\ OpInv(k2)
    BY DEF PurchaseInv, ServiceInv, MadeInv, ReceiptInv
  <2>2. ops[k1].status # "failed" /\ ops[k2].status # "failed"
    BY <2>1 DEF OpInv
  <2>3. ops[k1].generation = ops[k2].generation
    BY <2>1, <2>2 DEF OpInv, Irreversible
  <2> QED BY <2>1, <2>3 DEF PurchaseInv, ServiceInv, Unique, Irreversible
<1>2. PurchaseInv => ChargedAsConfirmed
  <2> SUFFICES ASSUME PurchaseInv PROVE ChargedAsConfirmed
    OBVIOUS
  <2>1. ASSUME NEW k \in Keys, orders[k] # NULL
        PROVE  \E q \in Keys : confs[q] # NULL /\ confs[q].op = k /\ confs[q].quote = orders[k].quote
    <3>1. ops[k] # NULL /\ ops[k].kind = "order" /\ orders[k].quote = ops[k].target /\ OpInv(k)
      BY <2>1 DEF PurchaseInv, ServiceInv, MadeInv
    <3> QED BY <3>1 DEF OpInv, ConsumedBy
  <2>2. ASSUME NEW i \in Ids, Exists(i)
        PROVE  /\ purchases[i].order # NULL => purchases[i].quote = orders[purchases[i].order].quote
               /\ purchases[i].stage = "paid" => payments[purchases[i].payment].status = "paid"
    BY <2>2 DEF PurchaseInv, ServiceInv, RowInv
  <2> QED BY <2>1, <2>2 DEF ChargedAsConfirmed
<1>3. PurchaseInv => OneIrreversibleStepPerTurn
  BY DEF PurchaseInv, CallersInv, PauseInv, OneIrreversibleStepPerTurn
<1>4. PurchaseInv => PaidAsAgreed
  BY <1>1, <1>2, <1>3 DEF PaidAsAgreed, ChargedOnceAsConfirmed
<1> QED BY <1>4, PurchaseInvariant, PTL
=============================================================================
