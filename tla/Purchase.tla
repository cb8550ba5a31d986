------------------------------ MODULE Purchase ------------------------------
(***************************************************************************)
(* The durable purchase workflow (src/app/services/commerce/service.py) of *)
(* one customer, driven by shopping turns, over a provider reached by HTTP.*)
(* A turn is a caller: it captures the purchase when it starts, then lets  *)
(* the model call tools one after another (tools.py).  Turns are not       *)
(* assumed to exclude each other: the session lock serialises them only    *)
(* while its database connection lives, and the message router reads (and  *)
(* so reconciles) the purchase without it: it is a caller without tools.   *)
(*                                                                         *)
(* Between a caller and the provider a request may wait for ever, an       *)
(* answer may never be read, and the answer may be an error that hides a   *)
(* commit; a timeout, a cancelled turn or a crash of the process may come  *)
(* at any point of the call.                                               *)
(***************************************************************************)
EXTENDS CommerceProvider

CONSTANTS Callers,       \* turns and message routers that may run at once
          Tools,         \* the tools each of them may call (bound)
          MaxOps,        \* operations the customer may reserve (bound)
          MaxPurchases,  \* purchases the customer may start (bound)
          MaxFaults,     \* timeouts, lost answers, refusals, crashes, lost locks,
                         \* expired quotes and purchases of others (bound)
          Me,            \* the customer
          Baskets        \* the cart contents the model may ask for

ASSUME PurchaseAssumption ==
    /\ MaxOps \in Nat /\ MaxPurchases \in Nat /\ MaxFaults \in Nat
    /\ Keys = 1..MaxOps
    /\ Me \in Owners
    /\ Tools \in [Callers -> SUBSET {"search", "status", "cart", "quote", "commit", "mock_pay"}]
    /\ Baskets \subseteq Lines \ {NoLines}

VARIABLES purchases,  \* commerce_purchases
          ops,        \* commerce_operations, by id; the id is the request key
          confs,      \* commerce_confirmations, by the quote operation that made them
          wire,       \* what became of the HTTP request of an operation
          caller,     \* program state of each turn
          faults      \* how many things went wrong (bound only)

serviceVars == <<purchases, ops, confs>>
vars == <<providerVars, serviceVars, wire, caller, faults>>

Ids == 1..MaxPurchases
Stages == {"shopping", "cart", "quoted", "submitting", "unknown", "failed"} \union PayStatuses

PurchaseRows ==
    [slot : BOOLEAN, stage : Stages, version : Nat, generation : Nat,
     cart : Keys \union {NULL}, cartVersion : Nat \union {NULL}, quote : Keys \union {NULL},
     conf : Keys \union {NULL}, order : Keys \union {NULL}, payment : Keys \union {NULL},
     payStatus : PayStatuses \union {NULL}, active : Keys \union {NULL}]
Operations ==
    [purchase : Ids, kind : Kinds, generation : Nat,
     status : {"reserved", "unknown", "failed", "completed"}, cart : Keys \union {NULL},
     version : Nat \union {NULL}, lines : Lines, target : Keys \union {NULL}]
Confirmations == [version : Nat, generation : Nat, quote : Keys, op : Keys \union {NULL}]

\* NULL is no row of the purchase's tables, no id, no stage and no status.
ASSUME NullIsNoRow ==
    NULL \notin Ids /\ NULL \notin Stages \union PurchaseRows \union Operations \union Confirmations

NewPurchase == [slot |-> TRUE, stage |-> "shopping", version |-> 0, generation |-> 0,
                cart |-> NULL, cartVersion |-> NULL, quote |-> NULL, conf |-> NULL,
                order |-> NULL, payment |-> NULL, payStatus |-> NULL, active |-> NULL]

NoRequest == [kind |-> "none", cart |-> NULL, version |-> NULL, lines |-> NoLines, target |-> NULL]
\* cur* is what the turn captured when it began, seen the last version a
\* tool returned, did the irreversible steps it reserved; p, todo, version, req and next belong to the
\* tool call that is running.
Idle == [pc |-> "idle", todo |-> "none", p |-> NULL, cur |-> NULL, curP |-> NULL,
         curVersion |-> 0, seen |-> 0, version |-> 0, op |-> NULL, req |-> NoRequest,
         next |-> "none", status |-> NULL, did |-> {}]

Requests ==
    [kind : Kinds \union {"none"}, cart : Keys \union {NULL}, version : Nat \union {NULL},
     lines : Lines, target : Keys \union {NULL}]
CallerStates ==
    [pc : {"idle", "ready", "lookup", "poll", "swap", "act", "reserve", "call"},
     todo : {"none", "begin", "start", "status", "cart", "quote", "commit", "mock_pay",
             "view", "after_order", "pay"},
     p : Ids \union {NULL}, cur : {"quoted", "awaiting_payment", NULL}, curP : Ids \union {NULL},
     curVersion : Nat, seen : Nat, version : Nat, op : Keys \union {NULL}, req : Requests,
     next : {"none", "view", "refresh", "after_order", "pay"},
     status : PayStatuses \union {NULL}, did : SUBSET {"order", "mock_pay"}]

PurchaseTypeOK ==
    /\ ProviderTypeOK
    /\ purchases \in [Ids -> PurchaseRows \union {NULL}]
    /\ ops \in [Keys -> Operations \union {NULL}]
    /\ confs \in [Keys -> Confirmations \union {NULL}]
    /\ wire \in [Keys -> {"none", "sent", "ok", "unknown", "rejected"}]
    /\ caller \in [Callers -> CallerStates]
    /\ faults \in 0..MaxFaults

Init ==
    /\ ProviderInit
    /\ purchases = [i \in Ids |-> NULL]
    /\ ops = [k \in Keys |-> NULL]
    /\ confs = [k \in Keys |-> NULL]
    /\ wire = [k \in Keys |-> "none"]
    /\ caller = [c \in Callers |-> Idle]
    /\ faults = 0

Turns == {c \in Callers : Tools[c] # {}}
Exists(i) == purchases[i] # NULL
Open(i) == Exists(i) /\ purchases[i].slot
NoneYet == \A i \in Ids : ~Exists(i)
\* current_purchase: the one in the active slot, otherwise the newest.
Current(i) ==
    /\ Exists(i)
    /\ Open(i) \/ \A j \in Ids : Exists(j) => ~Open(j) /\ j <= i

Used(i, kind) == {k \in Keys : ops[k] # NULL /\ ops[k].purchase = i /\ ops[k].kind = kind
                                  /\ ops[k].generation = purchases[i].generation}
FreeKeys == {k \in Keys : ops[k] = NULL}

-----------------------------------------------------------------------------
(* What a receipt must say to be taken for the answer to this operation.   *)
Matches(row, op, r) ==
    CASE op.kind = "update_cart" -> r.lines = op.lines /\ op.cart \in {NULL, r.id}
      [] op.kind = "quote" -> quotes[r.id].cart = row.cart /\ r.version = row.cartVersion
      [] op.kind = "order" -> orders[r.id].quote = op.target
                                /\ Total(r.lines) = Total(quotes[row.quote].lines)
      [] OTHER -> payments[r.id].order = row.order
                    /\ Total(r.lines) = Total(quotes[row.quote].lines)

Settled(row, op, r) ==
    LET base == [row EXCEPT !.active = NULL, !.version = @ + 1]
    IN  CASE op.kind = "update_cart" ->
               [base EXCEPT !.stage = "cart", !.cart = r.id, !.cartVersion = r.version,
                            !.generation = @ + 1, !.quote = NULL, !.conf = NULL]
          [] op.kind = "quote" ->
               [base EXCEPT !.stage = "quoted", !.quote = r.id, !.conf = row.active]
          [] op.kind = "order" ->
               [base EXCEPT !.stage = r.status, !.order = r.id, !.payStatus = r.status]
          [] OTHER ->
               [base EXCEPT !.stage = r.status, !.payment = r.id, !.payStatus = r.status,
                            !.slot = @ /\ r.status # "paid"]

\* Mutant: an unknown outcome frees the purchase like a refusal.
MarkReleases(k, failed) ==
    LET i == ops[k].purchase
    IN  IF purchases[i].active # k THEN UNCHANGED serviceVars
        ELSE /\ ops' = [ops EXCEPT ![k].status = IF failed THEN "failed" ELSE "unknown"]
             /\ purchases' = [purchases EXCEPT
                    ![i].stage = IF failed THEN "failed" ELSE "unknown",
                    ![i].active = NULL, ![i].version = @ + 1]
             /\ UNCHANGED confs

\* _mark: only while the purchase still waits for this very operation.
Mark(k, failed) ==
    LET i == ops[k].purchase
    IN  IF purchases[i].active # k THEN UNCHANGED serviceVars
        ELSE /\ ops' = [ops EXCEPT ![k].status = IF failed THEN "failed" ELSE "unknown"]
             /\ purchases' = [purchases EXCEPT
                    ![i].stage = IF failed THEN "failed" ELSE "unknown",
                    ![i].active = IF failed THEN NULL ELSE k,
                    ![i].version = @ + 1]
             /\ UNCHANGED confs

(* _finish: the first reader of the receipt writes it to the purchase; a   *)
(* receipt that does not fit is an unknown outcome.                        *)
Finish(k) ==
    LET i == ops[k].purchase
        row == purchases[i]
    IN  IF row.active # k THEN UNCHANGED serviceVars
        ELSE IF ~Matches(row, ops[k], receipts[k]) THEN Mark(k, FALSE)
        ELSE /\ purchases' = [purchases EXCEPT ![i] = Settled(row, ops[k], receipts[k])]
             /\ ops' = [ops EXCEPT ![k].status = "completed"]
             /\ confs' = IF ops[k].kind # "quote" THEN confs
                         ELSE [confs EXCEPT ![k] = [version |-> row.version + 1,
                                 generation |-> row.generation,
                                 quote |-> receipts[k].id, op |-> NULL]]

-----------------------------------------------------------------------------
(* The refresh every status read performs: look the pending operation up   *)
(* under its own key, then ask the provider for the payment's status and   *)
(* write it by compare-and-swap on the version.  A failed call is skipped. *)
NeedsStatus(row) == row.payment # NULL /\ row.active = NULL /\ row.stage # "paid"
\* A refresh of purchase i, after which the caller goes on with todo.
Refreshing(i, todo, state) ==
    [state EXCEPT !.p = i, !.todo = todo,
        !.pc = IF purchases[i].active # NULL THEN "lookup"
               ELSE IF NeedsStatus(purchases[i]) THEN "poll" ELSE "act"]

Lookup(c) ==
    /\ caller[c].pc = "lookup"
    /\ LET row == purchases[caller[c].p]
       IN  \/ UNCHANGED serviceVars
           \/ row.active # NULL /\ receipts[row.active] # NULL /\ Finish(row.active)
    /\ caller' = [caller EXCEPT ![c].pc = "poll"]
    /\ UNCHANGED <<providerVars, wire, faults>>

Poll(c) ==
    /\ caller[c].pc = "poll"
    /\ LET row == purchases[caller[c].p]
       IN  \/ caller' = [caller EXCEPT ![c].pc = "act"]
           \/ /\ NeedsStatus(row)
              /\ payments[row.payment].status # row.payStatus
              /\ ~(row.payStatus = "processing"
                     /\ payments[row.payment].status = "awaiting_payment")
              /\ caller' = [caller EXCEPT ![c].pc = "swap", ![c].version = row.version,
                                          ![c].status = payments[row.payment].status]
    /\ UNCHANGED <<providerVars, serviceVars, wire, faults>>

Unmoved(i, version) == purchases[i].version = version /\ purchases[i].active = NULL

Swap(c) ==
    LET i == caller[c].p
        paid == caller[c].status = "paid"
    IN  /\ caller[c].pc = "swap"
        /\ IF Unmoved(i, caller[c].version)
           THEN purchases' = [purchases EXCEPT ![i].stage = caller[c].status,
                    ![i].payStatus = caller[c].status, ![i].version = @ + 1,
                    ![i].slot = @ /\ ~paid]
           ELSE UNCHANGED purchases
        /\ caller' = [caller EXCEPT ![c].pc = "act", ![c].status = NULL,
                                    ![c].version = 0]
        /\ UNCHANGED <<providerVars, ops, confs, wire, faults>>

-----------------------------------------------------------------------------
(* Turns and their tools.                                                  *)
Fault == faults < MaxFaults /\ faults' = faults + 1
\* The session lock was lost under a running turn.
Overlaps(c) == c \in Turns /\ \E d \in Turns \ {c} : caller[d].pc # "idle"

Begin(c) ==
    /\ caller[c].pc = "idle"
    /\ \/ /\ NoneYet /\ c \in Turns
          /\ caller' = [caller EXCEPT ![c] = [Idle EXCEPT !.pc = "ready"]]
       \/ \E i \in Ids : /\ Current(i)
                         /\ caller' = [caller EXCEPT ![c] = Refreshing(i, "begin", Idle)]
    /\ IF Overlaps(c) THEN Fault ELSE UNCHANGED faults
    /\ UNCHANGED <<providerVars, serviceVars, wire>>

(* search: start() first, which reuses the open purchase unless it turns   *)
(* out to be paid.                                                         *)
CallSearch(c) ==
    /\ caller[c].pc = "ready"
    /\ "search" \in Tools[c]
    /\ \/ /\ \A i \in Ids : ~Open(i)
          /\ caller' = [caller EXCEPT ![c].pc = "act", ![c].todo = "start"]
       \/ \E i \in Ids : Open(i) /\ caller' = [caller EXCEPT ![c] = Refreshing(i, "start", @)]
    /\ UNCHANGED <<providerVars, serviceVars, wire, faults>>

\* purchase_status, update_cart_lines and prepare_checkout refresh first.
CallTool(c) ==
    /\ caller[c].pc = "ready"
    /\ \E i \in Ids, tool \in Tools[c] \intersect {"status", "cart", "quote"} :
          Current(i) /\ caller' = [caller EXCEPT ![c] = Refreshing(i, tool, @)]
    /\ UNCHANGED <<providerVars, serviceVars, wire, faults>>

(* The two irreversible tools exist only in a turn that began at the stage *)
(* they belong to, and work on the purchase that turn captured.            *)
Offered(c, tool) ==
    IF tool = "commit" THEN caller[c].cur = "quoted" ELSE caller[c].cur = "awaiting_payment"

CallIrreversible(c) ==
    /\ caller[c].pc = "ready"
    /\ \E tool \in Tools[c] \intersect {"commit", "mock_pay"} :
          /\ Offered(c, tool)
          /\ caller' = [caller EXCEPT ![c].pc = "act", ![c].todo = tool, ![c].p = caller[c].curP]
    /\ UNCHANGED <<providerVars, serviceVars, wire, faults>>

Does(c, todo) == caller[c].pc = "act" /\ caller[c].todo = todo
Keep == UNCHANGED <<providerVars, serviceVars, wire, faults>>
\* A refused tool call changes nothing and hands the turn back to the model.
Back(c) == [caller[c] EXCEPT !.pc = "ready", !.todo = "none", !.p = NULL, !.version = 0,
                             !.req = NoRequest, !.next = "none"]
Refuse(c) == caller' = [caller EXCEPT ![c] = Back(c)] /\ Keep
\* Mutant: the tools are registered anew after every tool.
ShowRecaptures(c, row) ==
    caller' = [caller EXCEPT ![c] = [Back(c) EXCEPT !.seen = row.version,
        !.cur = row.stage, !.curP = caller[c].p, !.curVersion = row.version]]

\* The view of the purchase becomes what the model sees.
Show(c, row) ==
    caller' = [caller EXCEPT ![c] = [Back(c) EXCEPT !.seen = row.version]]

Reserving(c, version, request, next) ==
    caller' = [caller EXCEPT ![c].pc = "reserve", ![c].version = version,
                             ![c].req = request, ![c].next = next]

Refresh(c) ==
    caller' = [caller EXCEPT ![c] = Refreshing(caller[c].p, "status", Back(c))]

\* What a stage without irreversible tool captured is never used.
Captured(c) ==
    /\ Does(c, "begin")
    /\ LET row == purchases[caller[c].p]
           offers == row.stage \in {"quoted", "awaiting_payment"}
       IN  caller' = [caller EXCEPT ![c] =
             IF c \notin Turns THEN Idle
             ELSE [Back(c) EXCEPT !.seen = row.version,
                     !.cur = IF offers THEN row.stage ELSE NULL,
                     !.curP = IF offers THEN caller[c].p ELSE NULL,
                     !.curVersion = IF offers THEN row.version ELSE 0]]
    /\ Keep

Viewed(c) ==
    /\ Does(c, "status") \/ Does(c, "view")
    /\ Show(c, purchases[caller[c].p])
    /\ Keep

\* The unique active_slot lets one start win; the others get its purchase.
Start(c) ==
    /\ Does(c, "start")
    /\ \/ \E j \in Ids : Open(j) /\ Show(c, purchases[j]) /\ Keep
       \/ \E j \in Ids :
            /\ \A i \in Ids : ~Open(i) /\ (Exists(i) <=> i < j)
            /\ purchases' = [purchases EXCEPT ![j] = NewPurchase]
            /\ Show(c, NewPurchase)
            /\ UNCHANGED <<providerVars, ops, confs, wire, faults>>

UpdateCartLines(c) ==
    LET row == purchases[caller[c].p]
    IN  /\ Does(c, "cart")
        /\ IF \/ caller[c].seen # row.version
              \/ row.stage \in {"submitting", "unknown", "processing", "paid"}
           THEN Refuse(c)
           ELSE \E basket \in Baskets :
                  /\ Reserving(c, row.version,
                        [NoRequest EXCEPT !.kind = "update_cart", !.cart = row.cart,
                                          !.version = row.cartVersion, !.lines = basket], "view")
                  /\ Keep

PrepareQuote(c) ==
    LET row == purchases[caller[c].p]
    IN  /\ Does(c, "quote")
        /\ IF caller[c].seen # row.version \/ row.stage \notin {"cart", "quoted"}
           THEN Refuse(c)
           ELSE /\ Reserving(c, row.version,
                      [NoRequest EXCEPT !.kind = "quote", !.cart = row.cart,
                                        !.version = row.cartVersion], "view")
                /\ Keep

\* _payment: at most one payment operation per checkout generation.
PaymentRequest(row) == [NoRequest EXCEPT !.kind = "payment", !.target = row.order]

(* commit_checkout.  A consumed confirmation replays the current state and *)
(* at most opens the payment that is still missing.                        *)
CommitCheckout(c) ==
    LET i == caller[c].p
        row == purchases[i]
        conf == confs[row.conf]
    IN  /\ Does(c, "commit")
        /\ CASE row.conf = NULL -> Refuse(c)
             [] row.conf # NULL /\ conf.op # NULL ->
                  /\ IF /\ row.order # NULL /\ row.payment = NULL /\ row.active = NULL
                        /\ Used(i, "payment") = {}
                     THEN Reserving(c, row.version, PaymentRequest(row), "refresh")
                     ELSE Refresh(c)
                  /\ Keep
             [] row.conf # NULL /\ conf.op = NULL ->
                  IF \/ caller[c].curVersion # row.version
                     \/ conf.quote \in expired
                     \/ row.stage # "quoted"
                     \/ conf.version # row.version \/ conf.generation # row.generation
                  THEN Refuse(c)
                  ELSE /\ Reserving(c, row.version,
                             [NoRequest EXCEPT !.kind = "order", !.target = conf.quote],
                             "after_order")
                       /\ Keep

AfterOrder(c) ==
    LET i == caller[c].p
        row == purchases[i]
    IN  /\ Does(c, "after_order")
        /\ IF row.order # NULL /\ row.active = NULL /\ Used(i, "payment") = {}
           THEN Reserving(c, row.version, PaymentRequest(row), "view")
           ELSE Show(c, row)
        /\ Keep

\* mock_pay, up to the payment record it may have to create first.
PayOrder(c) ==
    LET i == caller[c].p
        row == purchases[i]
    IN  /\ Does(c, "mock_pay")
        /\ CASE Used(i, "mock_pay") # {} -> Refresh(c) /\ Keep
             [] Used(i, "mock_pay") = {} /\ (\/ caller[c].curVersion # row.version
                                              \/ row.active # NULL
                                              \/ row.stage # "awaiting_payment"
                                              \/ row.order = NULL) -> Refuse(c)
             [] OTHER ->
                  /\ IF row.payment = NULL /\ Used(i, "payment") = {}
                     THEN Reserving(c, row.version, PaymentRequest(row), "pay")
                     ELSE caller' = [caller EXCEPT ![c].todo = "pay"]
                  /\ Keep

Pay(c) ==
    LET row == purchases[caller[c].p]
    IN  /\ Does(c, "pay")
        /\ IF row.payment = NULL \/ row.active # NULL THEN Refresh(c)
           ELSE Reserving(c, row.version,
                  [NoRequest EXCEPT !.kind = "mock_pay", !.target = row.payment], "view")
        /\ Keep

-----------------------------------------------------------------------------
\* Mutant: the version is not part of the compare-and-swap, nor is uniqueness.
CanReserveBlind(c) ==
    LET i == caller[c].p
    IN  /\ purchases[i].active = NULL
        /\ caller[c].req.kind \in {"update_cart", "quote"} => purchases[i].order = NULL

(* _reserve: one transaction that checks the version the caller read,      *)
(* blocks the purchase with the new operation, consumes the confirmation   *)
(* of an order, and relies on the unique (purchase, kind, generation).     *)
CanReserve(c) ==
    LET i == caller[c].p
        row == purchases[i]
        kind == caller[c].req.kind
    IN  /\ row.version = caller[c].version
        /\ row.active = NULL
        /\ kind \in {"update_cart", "quote"} => row.order = NULL
        /\ kind \in {"order", "payment", "mock_pay"} => Used(i, kind) = {}
        /\ kind = "order" => confs[row.conf].op = NULL

Reserve(c) ==
    LET i == caller[c].p
        row == purchases[i]
        kind == caller[c].req.kind
    IN \E k \in FreeKeys :
        /\ caller[c].pc = "reserve"
        /\ \A x \in FreeKeys : k <= x
        /\ IF CanReserve(c)
           THEN /\ ops' = [ops EXCEPT ![k] = [purchase |-> i, kind |-> kind,
                      generation |-> IF kind \in {"update_cart", "quote"} THEN row.version + 1
                                     ELSE row.generation,
                      status |-> "reserved", cart |-> caller[c].req.cart,
                      version |-> caller[c].req.version, lines |-> caller[c].req.lines,
                      target |-> caller[c].req.target]]
                /\ purchases' = [purchases EXCEPT ![i].stage = "submitting",
                      ![i].version = @ + 1, ![i].active = k]
                /\ confs' = IF kind = "order" THEN [confs EXCEPT ![row.conf].op = k] ELSE confs
                /\ wire' = [wire EXCEPT ![k] = "sent"]
                /\ caller' = [caller EXCEPT ![c].pc = "call", ![c].op = k,
                      ![c].did = @ \union ({kind} \intersect {"order", "mock_pay"})]
           ELSE /\ caller' = [caller EXCEPT ![c] =
                      IF kind = "order" /\ row.conf # NULL /\ confs[row.conf].op # NULL
                      THEN [Back(c) EXCEPT !.pc = "lookup", !.todo = "status", !.p = i]
                      ELSE Back(c)]
                /\ UNCHANGED <<serviceVars, wire>>
        /\ UNCHANGED <<providerVars, faults>>

-----------------------------------------------------------------------------
(* The provider works on a request that has reached it: it commits, and    *)
(* the answer is the result or an error that hides it; or it refuses.      *)
Commits(k) ==
    CASE ops[k].kind = "update_cart" -> UpdateCart(k, Me, ops[k].cart, ops[k].version, ops[k].lines)
      [] ops[k].kind = "quote" -> PrepareCheckout(k, Me, ops[k].cart, ops[k].version)
      [] ops[k].kind = "order" -> CreateOrder(k, Me, ops[k].target)
      [] ops[k].kind = "payment" -> CreatePayment(k, Me, ops[k].target)
      [] OTHER -> \E status \in {"paid", "processing"} : MockPay(k, Me, ops[k].target, status)

Awaited(k) == \E c \in Callers : caller[c].pc = "call" /\ caller[c].op = k
Accepts(k) ==
    CASE ops[k].kind = "update_cart" -> CartAccepts(Me, ops[k].cart, ops[k].version, ops[k].lines)
      [] ops[k].kind = "quote" -> QuoteAccepts(Me, ops[k].cart, ops[k].version)
      [] ops[k].kind = "order" -> OrderAccepts(Me, ops[k].target)
      [] ops[k].kind = "payment" -> PaymentAccepts(Me, ops[k].target)
      [] OTHER -> PayAccepts(Me, ops[k].target)
Reply(k, answer) == wire' = [wire EXCEPT ![k] = IF Awaited(k) THEN answer ELSE "none"]

Serve(k) ==
    /\ wire[k] = "sent"
    /\ \/ Commits(k) /\ Reply(k, "ok") /\ UNCHANGED faults
       \/ Commits(k) /\ Reply(k, "unknown") /\ Fault
       \/ /\ Reply(k, "rejected")
          /\ IF Accepts(k) THEN Fault ELSE UNCHANGED faults
          /\ UNCHANGED providerVars
    /\ UNCHANGED <<serviceVars, caller>>

\* What the caller does next once its operation is marked or finished.
Continue(c) ==
    LET refresh == caller[c].next = "refresh"
    IN  caller' = [caller EXCEPT ![c] = [Back(c) EXCEPT !.op = NULL, !.p = caller[c].p,
            !.pc = IF refresh THEN "lookup" ELSE "act",
            !.todo = IF refresh THEN "status" ELSE caller[c].next]]

Answered(c) ==
    LET k == caller[c].op
    IN  /\ caller[c].pc = "call"
        /\ \/ wire[k] = "ok" /\ Finish(k)
           \/ wire[k] = "rejected" /\ Mark(k, TRUE)
           \/ wire[k] = "unknown" /\ Mark(k, FALSE)
        /\ wire' = [wire EXCEPT ![k] = "none"]
        /\ Continue(c)
        /\ UNCHANGED <<providerVars, faults>>

\* Nobody reads an answer any more; a request on its way stays on its way.
Abandon(keys) ==
    wire' = [k \in Keys |-> IF k \in keys /\ wire[k] # "sent" THEN "none" ELSE wire[k]]

\* The HTTP timeout: the request may still be on its way.
TimedOut(c) ==
    /\ caller[c].pc = "call"
    /\ wire[caller[c].op] = "sent"
    /\ Mark(caller[c].op, FALSE)
    /\ Continue(c)
    /\ Fault
    /\ UNCHANGED <<providerVars, wire>>

-----------------------------------------------------------------------------
EndTurn(c) ==
    /\ caller[c].pc = "ready"
    /\ caller' = [caller EXCEPT ![c] = Idle]
    /\ UNCHANGED <<providerVars, serviceVars, wire, faults>>

(* The stream's deadline or a disconnect cancels the turn in the middle of *)
(* a tool: a pending call is marked unknown.                               *)
CancelTurn(c) ==
    /\ caller[c].pc \notin {"idle", "ready"}
    /\ IF caller[c].pc = "call" THEN Mark(caller[c].op, FALSE) ELSE UNCHANGED serviceVars
    /\ caller' = [caller EXCEPT ![c] = Idle]
    /\ Abandon({caller[c].op} \ {NULL})
    /\ Fault
    /\ UNCHANGED providerVars

\* The process dies: nothing is marked, requests already sent go on.
Crash ==
    /\ \E c \in Callers : caller[c].pc # "idle"
    /\ caller' = [c \in Callers |-> Idle]
    /\ Abandon(Keys)
    /\ Fault
    /\ UNCHANGED <<providerVars, serviceVars>>

\* Another customer's whole purchase takes a unit of stock.
OthersBuy ==
    /\ \E s \in Skus : sold[s] < Stock[s] /\ sold' = [sold EXCEPT ![s] = @ + 1]
    /\ Fault
    /\ UNCHANGED <<carts, quotes, orders, payments, receipts, expired, serviceVars,
                   wire, caller>>

Settle ==
    /\ \E p \in Keys, status \in {"paid", "failed"} : SettlePayment(p, status)
    /\ UNCHANGED <<serviceVars, wire, caller, faults>>

\* Nothing looks at the deadline of a quote that is consumed.
Expire ==
    /\ \E q \in Keys : quotes[q] # NULL /\ quotes[q].status = "open" /\ ExpireQuote(q)
    /\ Fault
    /\ UNCHANGED <<serviceVars, wire, caller>>

Turn(c) ==
    \/ Begin(c) \/ CallSearch(c) \/ CallTool(c) \/ CallIrreversible(c)
    \/ Captured(c) \/ Viewed(c) \/ Start(c) \/ UpdateCartLines(c) \/ PrepareQuote(c)
    \/ CommitCheckout(c) \/ AfterOrder(c) \/ PayOrder(c) \/ Pay(c)
    \/ Lookup(c) \/ Poll(c) \/ Swap(c) \/ Reserve(c)
    \/ Answered(c) \/ TimedOut(c) \/ EndTurn(c) \/ CancelTurn(c)

Next ==
    \/ \E c \in Callers : Turn(c)
    \/ \E k \in Keys : Serve(k)
    \/ Crash \/ OthersBuy \/ Settle \/ Expire

Spec == Init /\ [][Next]_vars

-----------------------------------------------------------------------------
(* Nothing the provider committed is lost on the customer, whatever timed  *)
(* out, was cancelled, crashed or was answered with an error: an operation *)
(* with a receipt is written to the purchase, or is still the operation    *)
(* the purchase waits for and will look up.  (_mark keeps an unknown       *)
(* operation active; _reserve refuses to start another.)                   *)
NothingLost ==
    \A k \in Keys : receipts[k] # NULL =>
        \/ ops[k].status = "completed"
        \/ purchases[ops[k].purchase].active = k

(* However often, and by however many turns, a checkout is confirmed or    *)
(* paid, a purchase gets at most one order and its payment is charged at   *)
(* most once (one operation per kind and generation).                      *)
OneOrderOneCharge ==
    \A k1, k2 \in Keys :
        /\ receipts[k1] # NULL /\ receipts[k2] # NULL
        /\ ops[k1].purchase = ops[k2].purchase
        /\ ops[k1].kind = ops[k2].kind
        /\ ops[k1].kind \in {"order", "mock_pay"}
        => k1 = k2

(* Money follows the confirmation: an order was made by the operation that *)
(* consumed the confirmation of exactly its quote, the purchase that shows *)
(* an order shows that quote's amount, and a purchase that says paid has a *)
(* payment that the provider says is paid.                                 *)
ChargedAsConfirmed ==
    /\ \A k \in Keys : orders[k] # NULL =>
          \E q \in Keys : confs[q] # NULL /\ confs[q].op = k /\ confs[q].quote = orders[k].quote
    /\ \A i \in Ids : Exists(i) =>
          /\ purchases[i].order # NULL => purchases[i].quote = orders[purchases[i].order].quote
          /\ purchases[i].stage = "paid" => payments[purchases[i].payment].status = "paid"

(* One order and one charge, both as the customer confirmed them           *)
(* (commit_checkout and mock_pay through _reserve).                        *)
ChargedOnceAsConfirmed == OneOrderOneCharge /\ ChargedAsConfirmed

(* One irreversible step per turn: a turn that placed the order never pays *)
(* it too, so the customer is asked again (the two tools are offered by    *)
(* the stage the turn began at).                                           *)
OneIrreversibleStepPerTurn ==
    \A c \in Callers : caller[c].did # {"order", "mock_pay"}

(* The provider's books balance and the purchases know what is in them     *)
(* (create_order, create_payment, mock_pay; _mark, _reserve).              *)
BooksAndPurchasesAgree == BooksBalance /\ NothingLost

(* The customer pays once, what was confirmed, and after a pause to        *)
(* confirm it (commit_checkout, mock_pay, _reserve).                       *)
PaidAsAgreed == ChargedOnceAsConfirmed /\ OneIrreversibleStepPerTurn
=============================================================================
