------------------------------ MODULE Checkout ------------------------------
(***************************************************************************)
(* From the cart to the paid order: the server-side carts (web/carts.py),  *)
(* the checkout view and the Stripe webhook (web/app.py), place_order and  *)
(* mark_paid (web/orders.py) and the two gateways (web/payments.py).       *)
(*                                                                         *)
(* A request works with the session cookie it was sent, and what it does   *)
(* to the cookie reaches the browser with the answer: a first add creates  *)
(* a cart, fills it and then answers; a checkout places the order in one   *)
(* transaction, takes payment after it and then answers.  Any other        *)
(* request may run in between, and a worker may die anywhere.  Stock is    *)
(* one component: Fulfilment has the ledger.                               *)
(***************************************************************************)
EXTENDS Integers, Sequences, FiniteSets, SequencesExt, FiniteSetsExt

CONSTANTS Browser, Cart, Variant,
          Worker,      \* processes of the web app
          Gateways,    \* the gateways deployments are configured with
          OnHand,      \* units of the component
          MAX_QTY,     \* of one line of a cart
          MaxOrders    \* bound: orders placed in one behaviour

ASSUME FinitenessAssumption == IsFiniteSet(Worker) /\ IsFiniteSet(Variant)
ASSUME GatewayAssumption == Gateways \subseteq {"stub", "stripe"}
ASSUME BoundsAssumption == OnHand \in Nat /\ MAX_QTY \in Nat \ {0} /\ MaxOrders \in Nat

VARIABLES gateway,    \* gateway(): STRIPE_SECRET_KEY is set or not
          cookie,     \* cart_token in each browser's session
          owner,      \* history: the browser a cart was created for
          given,      \* history: the carts that reached their browser
          overlapped, \* history: browsers whose first requests overlapped
          lines,      \* store.cart_items: quantity of each variant
          state,      \* carts.state
          orders,     \* store.orders, with the lines ordered
          reserved,   \* components.reserved
          session,    \* Stripe: the checkout session of each order
          event,      \* Stripe: the event it keeps delivering
          recorded,   \* raw.outbox: orders an event of which has a row
          oversold,   \* orders logged as "oversell after payment"
          work        \* the request each worker is in

cartVars   == <<cookie, owner, given, overlapped, lines, state>>
orderVars  == <<orders, reserved>>
stripeVars == <<session, event, recorded, oversold>>
vars == <<gateway, cartVars, orderVars, stripeVars, work>>

Nobody == "nobody"
NoCart == "no cart"
NoSession == "no session"
ASSUME NamesAssumption == Nobody \notin Browser /\ {NoCart, NoSession} \cap Cart = {}

OrderId == 1 .. MaxOrders
Lines == [Variant -> 0 .. MAX_QTY]
Empty == [v \in Variant |-> 0]

Phase == {"idle", "viewing", "creating", "filling", "handing", "editing",
          "placing", "charging", "answering", "hook", "settling"}

(* The requests sent without a cart whose answer sets the cookie.          *)
First == {"viewing", "creating", "filling", "handing"}

Idle == [phase |-> "idle", browser |-> Nobody, cart |-> NoCart, lines |-> Empty, order |-> 0]

Placed == DOMAIN orders

Typed ==
  /\ gateway \in Gateways
  /\ cookie \in [Browser -> Cart \cup {NoCart, NoSession}]
  /\ owner \in [Cart -> Browser \cup {Nobody}]
  /\ given \subseteq Cart /\ overlapped \subseteq Browser
  /\ lines \in [Cart -> Lines]
  /\ state \in [Cart -> {"active", "converted", "abandoned"}]
  /\ orders \in Seq([cart : Cart, lines : Lines, paid : BOOLEAN])
  /\ session \in [OrderId -> {"none", "open", "complete", "expired"}]
  /\ event \in [OrderId -> {"none", "completed", "expired"}]
  /\ recorded \subseteq OrderId /\ oversold \subseteq OrderId
  /\ work \in [Worker -> [phase : Phase, browser : Browser \cup {Nobody},
                          cart : Cart \cup {NoCart}, lines : Lines, order : 0 .. MaxOrders]]

TypeOK == Typed /\ reserved \in 0 .. OnHand

Init ==
  /\ gateway \in Gateways
  /\ cookie = [b \in Browser |-> NoSession]
  /\ owner = [c \in Cart |-> Nobody] /\ given = {} /\ overlapped = {}
  /\ lines = [c \in Cart |-> Empty]
  /\ state = [c \in Cart |-> "active"]
  /\ orders = <<>> /\ reserved = 0
  /\ session = [n \in OrderId |-> "none"]
  /\ event = [n \in OrderId |-> "none"]
  /\ recorded = {} /\ oversold = {}
  /\ work = [w \in Worker |-> Idle]

-----------------------------------------------------------------------------
(* The cart.  The first page answered gives the browser a session          *)
(* (analytics_sid and the CSRF token), without which no POST is accepted.  *)
InFlight(b) == {w \in Worker : work[w].phase \in First /\ work[w].browser = b}

View(w, b) ==
  /\ work[w].phase = "idle" /\ cookie[b] = NoSession
  /\ work' = [work EXCEPT ![w] = [Idle EXCEPT !.phase = "viewing", !.browser = b]]
  /\ UNCHANGED <<gateway, cartVars, orderVars, stripeVars>>

(* cart_add, cart_update and cart_clear go by the token they were sent;    *)
(* without one cart_add has a cart made first, and the others do nothing.  *)
EditBegin(w, b) ==
  /\ work[w].phase = "idle" /\ cookie[b] # NoSession
  /\ work' = [work EXCEPT ![w] =
                [Idle EXCEPT !.phase = IF cookie[b] = NoCart THEN "creating" ELSE "editing",
                             !.browser = b, !.cart = cookie[b]]]
  /\ overlapped' = IF cookie[b] = NoCart /\ InFlight(b) # {}
                   THEN overlapped \cup {b} ELSE overlapped
  /\ UNCHANGED <<gateway, cookie, owner, given, lines, state, orderVars, stripeVars>>

(* carts.create, in a transaction of its own.                              *)
CartCreate(w) ==
  /\ work[w].phase = "creating"
  /\ \E c \in Cart :
       /\ owner[c] = Nobody
       /\ owner' = [owner EXCEPT ![c] = work[w].browser]
       /\ work' = [work EXCEPT ![w].phase = "filling", ![w].cart = c]
  /\ UNCHANGED <<gateway, cookie, given, overlapped, lines, state, orderVars, stripeVars>>

(* carts.add: a quantity on top of the line's, up to MAX_QTY, or nothing   *)
(* when the variant is no longer listed.                                   *)
CartAdd(w, v, qty) ==
  /\ qty > 0 /\ work[w].phase \in {"editing", "filling"}
  /\ lines' \in {lines, [lines EXCEPT ![work[w].cart][v] = Min({@ + qty, MAX_QTY})]}
  /\ work' = [work EXCEPT ![w] = IF work[w].phase = "filling"
                                 THEN [work[w] EXCEPT !.phase = "handing"] ELSE Idle]
  /\ UNCHANGED <<gateway, cookie, owner, given, overlapped, state, orderVars, stripeVars>>

(* update_by_index of the line of v, and clear.  A quantity of 0 deletes.  *)
CartUpdate(w, v, qty) ==
  /\ work[w].phase = "editing" /\ lines[work[w].cart][v] > 0
  /\ lines' = [lines EXCEPT ![work[w].cart][v] = qty]
  /\ work' = [work EXCEPT ![w] = Idle]
  /\ UNCHANGED <<gateway, cookie, owner, given, overlapped, state, orderVars, stripeVars>>

CartClear(w) ==
  /\ work[w].phase = "editing"
  /\ lines' = [lines EXCEPT ![work[w].cart] = Empty]
  /\ work' = [work EXCEPT ![w] = Idle]
  /\ UNCHANGED <<gateway, cookie, owner, given, overlapped, state, orderVars, stripeVars>>

(* The answer of a first request sets the whole cookie, whatever another   *)
(* answer has set since the request was sent.                              *)
Hand(w) ==
  /\ work[w].phase \in {"viewing", "handing"}
  /\ cookie' = [cookie EXCEPT ![work[w].browser] = work[w].cart]
  /\ given' = given \cup ({work[w].cart} \cap Cart)
  /\ work' = [work EXCEPT ![w] = Idle]
  /\ UNCHANGED <<gateway, owner, overlapped, lines, state, orderVars, stripeVars>>

(* Faulty variant: the sweep does not look at the state.                   *)
BugSweep(c) ==
  /\ lines[c] # Empty
  /\ state' = [state EXCEPT ![c] = "abandoned"]
  /\ UNCHANGED <<gateway, cookie, owner, given, overlapped, lines, orderVars, stripeVars, work>>

(* sweep_abandoned_carts (worker/main.py) of a cart idle for 30 minutes.   *)
Sweep(c) ==
  /\ state[c] = "active" /\ lines[c] # Empty
  /\ state' = [state EXCEPT ![c] = "abandoned"]
  /\ UNCHANGED <<gateway, cookie, owner, given, overlapped, lines, orderVars, stripeVars, work>>

-----------------------------------------------------------------------------
(* The bound: the orders placed and about to be placed.                    *)
MayOrder == Len(orders) + Cardinality({w \in Worker : work[w].phase = "placing"}) < MaxOrders

(* Faulty variant: the token leaves the session before payment.            *)
BugSubmit(w, b) ==
  /\ work[w].phase = "idle" /\ MayOrder
  /\ cookie[b] \in Cart /\ lines[cookie[b]] # Empty
  /\ work' = [work EXCEPT ![w] = [Idle EXCEPT !.phase = "placing", !.browser = b,
                                    !.cart = cookie[b], !.lines = lines[cookie[b]]]]
  /\ cookie' = [cookie EXCEPT ![b] = NoCart]
  /\ UNCHANGED <<gateway, owner, given, overlapped, lines, state, orderVars, stripeVars>>

(* checkout: the items are read, an empty cart is sent back.               *)
Submit(w, b) ==
  /\ work[w].phase = "idle" /\ MayOrder
  /\ cookie[b] \in Cart /\ lines[cookie[b]] # Empty
  /\ work' = [work EXCEPT ![w] = [Idle EXCEPT !.phase = "placing", !.browser = b,
                                    !.cart = cookie[b], !.lines = lines[cookie[b]]]]
  /\ UNCHANGED <<gateway, cartVars, orderVars, stripeVars>>

(* place_order's transaction.  It locks the cart, but orders the items     *)
(* that were read before.                                                  *)
PlaceOrder(w) ==
  /\ work[w].phase = "placing"
  /\ orders' = Append(orders, [cart |-> work[w].cart, lines |-> work[w].lines, paid |-> FALSE])
  /\ state' = [state EXCEPT ![work[w].cart] = "converted"]
  /\ work' = [work EXCEPT ![w].phase = "charging", ![w].order = Len(orders')]
  /\ UNCHANGED <<gateway, cookie, owner, given, overlapped, lines, reserved, stripeVars>>

-----------------------------------------------------------------------------
(* mark_paid: the outcomes of its one transaction.                         *)
Units(l) == MapThenSumSet(LAMBDA v : l[v], Variant)
Need(n) == Units(orders[n].lines)

(* Faulty variant: nothing refuses a reservation.                          *)
BugFits(n) == TRUE

(* stock_sane: reserved <= on_hand                                         *)
Fits(n) == reserved + Need(n) <= OnHand

(* Faulty variant: "payment_status <> 'paid'" is not asked.                *)
BugMarkPaid(n) ==
  /\ Fits(n)
  /\ orders' = [orders EXCEPT ![n].paid = TRUE]
  /\ reserved' = reserved + Need(n)

MarkPaid(n) ==
  IF orders[n].paid THEN UNCHANGED orderVars
  ELSE /\ Fits(n)
       /\ orders' = [orders EXCEPT ![n].paid = TRUE]
       /\ reserved' = reserved + Need(n)

OutOfStock(n) == ~orders[n].paid /\ ~Fits(n) /\ UNCHANGED orderVars

(* StubGateway.charge settles the order inline; if the stock is gone the   *)
(* customer is sent back with the cart, and the order stays.               *)
ChargeStub(w) ==
  /\ gateway = "stub" /\ work[w].phase = "charging"
  /\ \/ MarkPaid(work[w].order) /\ work' = [work EXCEPT ![w].phase = "answering"]
     \/ OutOfStock(work[w].order) /\ work' = [work EXCEPT ![w] = Idle]
  /\ UNCHANGED <<gateway, cartVars, stripeVars>>

(* StripeGateway.charge opens a session.  When the call fails the view     *)
(* raises, whether or not Stripe made the session.                         *)
ChargeStripe(w) ==
  /\ gateway = "stripe" /\ work[w].phase = "charging"
  /\ \/ /\ session' = [session EXCEPT ![work[w].order] = "open"]
        /\ work' = [work EXCEPT ![w].phase = "answering"]
     \/ /\ session' \in {session, [session EXCEPT ![work[w].order] = "open"]}
        /\ work' = [work EXCEPT ![w] = Idle]
  /\ UNCHANGED <<gateway, cartVars, orderVars, event, recorded, oversold>>

(* The answer reaches the browser, whose session loses the cart.           *)
Answer(w) ==
  /\ work[w].phase = "answering"
  /\ cookie' = [cookie EXCEPT ![work[w].browser] = NoCart]
  /\ work' = [work EXCEPT ![w] = Idle]
  /\ UNCHANGED <<gateway, owner, given, overlapped, lines, state, orderVars, stripeVars>>

-----------------------------------------------------------------------------
(* Stripe: the customer pays, or the session runs out; either way there is *)
(* an event, delivered until it is answered with a 2xx.                    *)
Pay(n) ==
  /\ session[n] = "open"
  /\ \/ session' = [session EXCEPT ![n] = "complete"] /\ event' = [event EXCEPT ![n] = "completed"]
     \/ session' = [session EXCEPT ![n] = "expired"] /\ event' = [event EXCEPT ![n] = "expired"]
  /\ UNCHANGED <<gateway, cartVars, orderVars, recorded, oversold, work>>

Deliver(w, n) ==
  /\ event[n] # "none" /\ work[w].phase = "idle"
  /\ work' = [work EXCEPT ![w] = [Idle EXCEPT !.phase = "hook", !.order = n]]
  /\ UNCHANGED <<gateway, cartVars, orderVars, stripeVars>>

(* Faulty variant: an event that has a row is taken for processed.         *)
BugHook(w) ==
  /\ work[w].phase = "hook"
  /\ IF work[w].order \in recorded
     THEN work' = [work EXCEPT ![w] = Idle] /\ UNCHANGED recorded
          /\ event' = [event EXCEPT ![work[w].order] = "none"]
     ELSE work' = [work EXCEPT ![w].phase = "settling"] /\ UNCHANGED event
          /\ recorded' = recorded \cup {work[w].order}
  /\ UNCHANGED <<gateway, cartVars, orderVars, session, oversold>>

(* stripe_webhook, first transaction: the event goes to the outbox, where  *)
(* nothing is unique that it could conflict with, and on to mark_paid.     *)
Hook(w) ==
  /\ work[w].phase = "hook"
  /\ recorded' = recorded \cup {work[w].order}
  /\ work' = [work EXCEPT ![w].phase = "settling"]
  /\ UNCHANGED <<gateway, cartVars, orderVars, session, event, oversold>>

(* Faulty variant: the type of the event is not looked at.                 *)
BugCompletes(n) == TRUE

(* session[n] tells the type also of an event answered since.              *)
Completes(n) == session[n] = "complete"

(* Then mark_paid and the 204, which may not reach Stripe.                 *)
HookSettle(w) ==
  LET n == work[w].order
  IN /\ work[w].phase = "settling"
     /\ IF Completes(n)
        THEN \/ MarkPaid(n) /\ UNCHANGED oversold
             \/ OutOfStock(n) /\ oversold' = oversold \cup {n}
        ELSE UNCHANGED <<orderVars, oversold>>
     /\ event' \in {event, [event EXCEPT ![n] = "none"]}
     /\ work' = [work EXCEPT ![w] = Idle]
     /\ UNCHANGED <<gateway, cartVars, session, recorded>>

(* A worker dies in the middle of a request and is replaced.               *)
Crash(w) ==
  /\ work[w].phase # "idle"
  /\ work' = [work EXCEPT ![w] = Idle]
  /\ UNCHANGED <<gateway, cartVars, orderVars, stripeVars>>

-----------------------------------------------------------------------------
CartStep(w) ==
  \/ \E b \in Browser : View(w, b) \/ EditBegin(w, b)
  \/ CartCreate(w)
  \/ \E v \in Variant, qty \in 0 .. MAX_QTY : CartAdd(w, v, qty) \/ CartUpdate(w, v, qty)
  \/ CartClear(w) \/ Hand(w)

Step(w) ==
  PlaceOrder(w) \/ ChargeStub(w) \/ ChargeStripe(w) \/ Answer(w) \/ Hook(w) \/ HookSettle(w)

Next ==
  \/ \E c \in Cart : Sweep(c)
  \/ \E n \in OrderId : Pay(n)
  \/ \E w \in Worker :
       \/ \E b \in Browser : Submit(w, b)
       \/ \E n \in OrderId : Deliver(w, n)
       \/ CartStep(w) \/ Step(w) \/ Crash(w)

Spec == Init /\ [][Next]_vars

-----------------------------------------------------------------------------
(* A checkout that does not go through leaves the customer the cart: once  *)
(* given to its browser a cart is lost only to one of the browser's own    *)
(* orders, which is paid or which Stripe took over.  The one exception are *)
(* first requests that overlap, whose answers overwrite one another: two   *)
(* adds without a cart, or such an add and a page asked for before.  (Of   *)
(* two overlapping checkouts the later answer also takes away a cart begun *)
(* after the first.)                                                       *)
CartIsNotLost ==
  \A c \in given :
    \/ cookie[owner[c]] = c
    \/ owner[c] \in overlapped
    \/ \E n \in Placed :
         /\ owner[orders[n].cart] = owner[c]
         /\ orders[n].paid \/ session[n] # "none"

(* A sale stays a sale: no sweep turns a converted cart into an abandoned  *)
(* one, whenever it runs.                                                  *)
ConvertedForGood ==
  \A n \in Placed : state[orders[n].cart] = "converted"

(* With Stripe, only a payment makes an order paid, no matter which events *)
(* arrive how often.                                                       *)
PaidWasCharged ==
  gateway = "stripe" => \A n \in Placed : orders[n].paid => session[n] = "complete"

(* What is reserved is what the paid orders need, no more and no less.     *)
ReservedForPaid ==
  LET due[n \in 0 .. Len(orders)] ==
        IF n = 0 THEN 0 ELSE due[n-1] + (IF orders[n].paid THEN Need(n) ELSE 0)
  IN reserved = due[Len(orders)]

(* Money taken is never forgotten: until the order is settled, or logged   *)
(* as oversold for a human, Stripe still delivers the event, in spite of   *)
(* crashes between the two transactions of the webhook and lost answers.   *)
ChargeIsNotForgotten ==
  \A n \in OrderId :
    session[n] = "complete" =>
      (n \in Placed /\ orders[n].paid) \/ n \in oversold \/ event[n] = "completed"
=============================================================================
