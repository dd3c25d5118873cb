----------------------------- MODULE Fulfilment -----------------------------
(***************************************************************************)
(* What happens to an order after it is placed: settlement by the payment  *)
(* webhook (web/orders.py mark_paid), the workshop board and its           *)
(* consumption of stock (db/repo/admin.py advance_item, consume_for_item), *)
(* and the back-office requests cancel, refund, restock and stock          *)
(* adjustment (admin/views.py).                                            *)
(*                                                                         *)
(* Every "with tx()" of the code is one transaction.  A transaction that   *)
(* locks the rows it decides on is one action.  consume_for_item and       *)
(* restock_for_item lock nothing: they decide on a READ COMMITTED snapshot *)
(* and insert afterwards, so each is a Read action and a Write action.     *)
(* The transactions of one HTTP request run one after the other in one     *)
(* gunicorn worker; the worker can be killed between any two of them.      *)
(***************************************************************************)
EXTENDS Stock, Stations, FiniteSets, FiniteSetsExt

CONSTANTS Order,
          Lines,          \* the items of each order, in id order
          Need,           \* bill of materials times quantity of each item
          Qty,            \* order_items.qty
          Total,          \* orders.total_cents
          Amount,         \* refund amounts staff may enter
          Delta,          \* stock adjustments staff may enter
          Worker,         \* worker processes of the admin application
          NoItem,         \* a refund that names no item
          MaxRequests     \* bound: admin requests in one behaviour

ASSUME QuantityAssumption ==
  /\ Need \in [Item -> [Component -> Nat]]
  /\ Qty \in [Item -> Nat \ {0}]
  /\ Total \in [Order -> Nat]
ASSUME InputAssumption ==
  /\ Amount \subseteq Nat \ {0}
  /\ Delta \subseteq Int \ {0}
  /\ NoItem \notin Item
  /\ MaxRequests \in Nat

ItemsOf(o) == {Lines[o][k] : k \in DOMAIN Lines[o]}

(* order_items: a row each, which belongs to one order.                    *)
ASSUME LinesAssumption ==
  /\ Lines \in [Order -> Seq(Item)]
  /\ \A o \in Order : \A j, k \in DOMAIN Lines[o] : Lines[o][j] = Lines[o][k] => j = k
  /\ \A o, p \in Order : o # p => ItemsOf(o) \cap ItemsOf(p) = {}

(* Quantity of every component the whole order is built from.              *)
OrderNeed(o) ==
  [c \in Component |->
     SumTo([k \in DOMAIN Lines[o] |-> Need[Lines[o][k]][c]], Len(Lines[o]))]

-----------------------------------------------------------------------------
VARIABLES payment,        \* orders.payment_status
          refunded,       \* orders.refunded_cents
          cancelled,      \* orders.cancelled_at is not null
          station,        \* order_items.production_status
          refundedQty,    \* order_items.refunded_qty
          outbox,         \* raw.outbox, in id order
          work,           \* the rest of the request each admin worker runs
          requests,       \* admin requests accepted so far
          raced           \* history, which no action reads: the items two
                          \* workers were consuming, or restocking, at once

orderVars == <<payment, refunded, cancelled, station, refundedQty, outbox>>
vars == <<stockVars, orderVars, work, requests, raced>>

PaymentStatus == {"unpaid", "paid", "partially_refunded", "refunded"}

Event == [topic : {"order.paid", "order.cancelled", "order.refunded"},
          order : Order, cents : Nat]

(* What a worker still has to do.  "todo" are the items it will consume    *)
(* (at most one) or restock; "seen" is what the Read step found.           *)
Stage == {"idle", "consume", "consuming", "restock", "restocking"}

Seen == [consumed : BOOLEAN, hand : Direction, held : Direction]
Nothing == [consumed |-> FALSE, hand |-> 0, held |-> 0]

(* The ledger reasons the follow-up transactions write.                    *)
WorkReason == {"consume", "cancel_restock", "return"}

Work == [stage : Stage, todo : Seq(Item), reason : WorkReason, seen : Seen]

Idle == [stage |-> "idle", todo |-> <<>>, reason |-> "consume", seen |-> Nothing]

Then(stage, todo, reason) ==
  IF todo = <<>> THEN Idle
  ELSE [stage |-> stage, todo |-> todo, reason |-> reason, seen |-> Nothing]

TypeOK ==
  /\ StockTypeOK
  /\ payment     \in [Order -> PaymentStatus]
  /\ refunded    \in [Order -> Nat]
  /\ cancelled   \in [Order -> BOOLEAN]
  /\ station     \in [Item -> Station]
  /\ refundedQty \in [Item -> Nat]
  /\ outbox      \in Seq(Event)
  /\ work        \in [Worker -> Work]
  /\ requests    \in 0 .. MaxRequests
  /\ raced       \subseteq {"consuming", "restocking"} \X Item

Init ==
  /\ StockInit
  /\ payment     = [o \in Order |-> "unpaid"]
  /\ refunded    = [o \in Order |-> 0]
  /\ cancelled   = [o \in Order |-> FALSE]
  /\ station     = [i \in Item |-> "queued"]
  /\ refundedQty = [i \in Item |-> 0]
  /\ outbox      = <<>>
  /\ work        = [w \in Worker |-> Idle]
  /\ requests    = 0
  /\ raced       = {}

Emit(topic, o, cents) ==
  outbox' = Append(outbox, [topic |-> topic, order |-> o, cents |-> cents])

(* A new request arrives at an idle worker and leaves it "rest" to do.     *)
Accept(w, rest) ==
  /\ work[w].stage = "idle"
  /\ requests < MaxRequests
  /\ requests' = requests + 1
  /\ work' = [work EXCEPT ![w] = rest]
  /\ UNCHANGED raced

(* The worker has read what the second statement of its step decides on.   *)
Found(w, stage, seen) == [work[w] EXCEPT !.stage = stage, !.seen = seen]

(* It did so for the same item as another worker, which has not written    *)
(* yet what it will write on the strength of its own reading.              *)
Overtakes(w, stage) ==
  \E v \in Worker \ {w} :
    work[v].stage = stage /\ Head(work[v].todo) = Head(work[w].todo)

Read(w, stage, seen) ==
  /\ work' = [work EXCEPT ![w] = Found(w, stage, seen)]
  /\ raced' = IF Overtakes(w, stage) THEN raced \cup {<<stage, Head(work[w].todo)>>}
              ELSE raced
  /\ UNCHANGED requests

(* The worker moves on within its request.                                 *)
Continue(w, rest) ==
  /\ work' = [work EXCEPT ![w] = rest]
  /\ UNCHANGED <<requests, raced>>

-----------------------------------------------------------------------------
(* Settlement.                                                             *)

Reserve(o) ==
  [reason |-> "reserve", items |-> ItemsOf(o), hand |-> 0, held |-> 1,
   size |-> OrderNeed(o)]

(* Faulty variants of the definitions, used only to show that the          *)
(* properties below can be violated.                                       *)
BugSettleUnguarded(o) ==
  /\ Insert(Reserve(o))
  /\ payment' = [payment EXCEPT ![o] = "paid"]
  /\ Emit("order.paid", o, 0)
  /\ UNCHANGED <<refunded, cancelled, station, refundedQty, work, requests, raced>>

BugSettleUnreserved(o) ==
  /\ payment[o] # "paid"
  /\ IF Accepts(Reserve(o)) THEN Insert(Reserve(o)) ELSE UNCHANGED stockVars
  /\ payment' = [payment EXCEPT ![o] = "paid"]
  /\ Emit("order.paid", o, 0)
  /\ UNCHANGED <<refunded, cancelled, station, refundedQty, work, requests, raced>>

BugSettleSilent(o) ==
  /\ payment[o] # "paid"
  /\ Insert(Reserve(o))
  /\ payment' = [payment EXCEPT ![o] = "paid"]
  /\ UNCHANGED <<refunded, cancelled, station, refundedQty, outbox, work, requests, raced>>

(* mark_paid: one transaction.  The UPDATE is guarded by payment_status    *)
(* <> 'paid' and locks the order; a stock_sane violation undoes all of it. *)
(* It runs again for every delivery and every manual replay.               *)
MarkPaid(o) ==
  /\ payment[o] # "paid"
  /\ Insert(Reserve(o))
  /\ payment' = [payment EXCEPT ![o] = "paid"]
  /\ Emit("order.paid", o, 0)
  /\ UNCHANGED <<refunded, cancelled, station, refundedQty, work, requests, raced>>

(* The two ends of mark_paid that change nothing: the order is already     *)
(* paid, or OutOfStock rolled the transaction back.                        *)
MarkPaidNothing(o) ==
  /\ payment[o] = "paid" \/ ~Accepts(Reserve(o))
  /\ UNCHANGED vars

-----------------------------------------------------------------------------
(* The workshop board.                                                     *)

(* advance_item: the item row is locked before its status is read.  An     *)
(* illegal move is a 409 and changes nothing.  Consumption is a second     *)
(* transaction, after this one has committed.                              *)
AdvanceItem(w, i, to) ==
  /\ to \in Allowed(station[i])
  /\ Accept(w, IF to = "printing" THEN Then("consume", <<i>>, "consume") ELSE Idle)
  /\ station' = [station EXCEPT ![i] = to]
  /\ UNCHANGED <<stockVars, payment, refunded, cancelled, refundedQty, outbox>>

(* The ledger rows of an item whose column col ("hand" or "held") moved in *)
(* direction d, and the net movement in bundles of the item's need.        *)
Rows(i, reason) ==
  {n \in DOMAIN ledger : i \in ledger[n].items /\ ledger[n].reason = reason}

Moved(i, col, d) ==
  {n \in DOMAIN ledger : i \in ledger[n].items /\ ledger[n][col] = d}

Net(i, col) == Cardinality(Moved(i, col, 1)) - Cardinality(Moved(i, col, -1))

BugConsumeRead(w) ==
  /\ work[w].stage = "consume"
  /\ Read(w, "consuming", Nothing)
  /\ UNCHANGED <<stockVars, orderVars>>

(* The subquery of consume_for_item, on the snapshot of its statement.     *)
ConsumeRead(w) ==
  /\ work[w].stage = "consume"
  /\ LET i == Head(work[w].todo)
     IN Read(w, "consuming",
          [consumed |-> Rows(i, "consume") # {}, hand |-> 0, held |-> 0])
  /\ UNCHANGED <<stockVars, orderVars>>

Consume(i) ==
  [reason |-> "consume", items |-> {i}, hand |-> -1, held |-> -1, size |-> Need[i]]

BugConsumeWrite(w) ==
  /\ work[w].stage = "consuming"
  /\ Continue(w, Idle)
  /\ LET p == Consume(Head(work[w].todo))
     IN IF work[w].seen.consumed \/ ~Accepts(p) THEN UNCHANGED stockVars
        ELSE /\ onHand' = Applied(p).hand
             /\ reserved' = Applied(p).held
             /\ UNCHANGED ledger
  /\ UNCHANGED orderVars

(* ... and its INSERT: nothing if the snapshot had a consume row, an error *)
(* (the request ends in a 500) if stock_sane refuses it.                   *)
ConsumeWrite(w) ==
  /\ work[w].stage = "consuming"
  /\ Continue(w, Idle)
  /\ LET p == Consume(Head(work[w].todo))
     IN IF work[w].seen.consumed \/ ~Accepts(p) THEN UNCHANGED stockVars
        ELSE Insert(p)
  /\ UNCHANGED orderVars

-----------------------------------------------------------------------------
(* Back-office requests on an order.                                       *)

(* cancel: cancel_order is one transaction, which announces itself even if *)
(* the order was cancelled before; then each item is restocked in turn.    *)
CancelOrder(w, o, restock) ==
  /\ Accept(w, IF restock THEN Then("restock", Lines[o], "cancel_restock") ELSE Idle)
  /\ cancelled' = [cancelled EXCEPT ![o] = TRUE]
  /\ station' = [i \in Item |-> IF i \in ItemsOf(o) /\ station[i] # "packed"
                                THEN "cancelled" ELSE station[i]]
  /\ Emit("order.cancelled", o, 0)
  /\ UNCHANGED <<stockVars, payment, refunded, refundedQty>>

(* Faulty variant: ">" for ">=".                                           *)
BugStatusAfterRefund(o, cents) ==
  IF cents > Total[o] THEN "refunded" ELSE "partially_refunded"

(* payment_status after refunding in all "cents" of order o.               *)
StatusAfterRefund(o, cents) ==
  IF cents >= Total[o] THEN "refunded" ELSE "partially_refunded"

(* refund: one transaction, which the check refunded_qty <= qty can abort. *)
(* The item and the quantity (0: none) are optional.                       *)
RefundOrder(w, o, i, q, amount, restock) ==
  /\ i = NoItem => q = 0
  /\ i # NoItem => refundedQty[i] + q <= Qty[i]
  /\ Accept(w, IF restock /\ i # NoItem THEN Then("restock", <<i>>, "return") ELSE Idle)
  /\ refundedQty' = [j \in Item |-> IF j = i THEN refundedQty[j] + q ELSE refundedQty[j]]
  /\ refunded' = [refunded EXCEPT ![o] = @ + amount]
  /\ payment' = [payment EXCEPT ![o] = StatusAfterRefund(o, refunded[o] + amount)]
  /\ Emit("order.refunded", o, amount)
  /\ UNCHANGED <<stockVars, cancelled, station>>

BugRestockRead(w) ==
  /\ work[w].stage = "restock"
  /\ LET i == Head(work[w].todo)
     IN Read(w, "restocking",
          [consumed |-> FALSE,
           hand |-> IF Rows(i, "consume") # {} THEN 1 ELSE 0,
           held |-> IF Net(i, "held") > 0 THEN -1 ELSE 0])
  /\ UNCHANGED <<stockVars, orderVars>>

(* restock_for_item, first statement: the net movement of the item.        *)
RestockRead(w) ==
  /\ work[w].stage = "restock"
  /\ LET i == Head(work[w].todo)
     IN Read(w, "restocking",
          [consumed |-> FALSE,
           hand |-> IF Net(i, "hand") < 0 THEN 1 ELSE 0,
           held |-> IF Net(i, "held") > 0 THEN -1 ELSE 0])
  /\ UNCHANGED <<stockVars, orderVars>>

Restock(i, reason, seen) ==
  [reason |-> reason, items |-> {i}, hand |-> seen.hand, held |-> seen.held,
   size |-> Need[i]]

(* Second statement: put back what the first one found.  If it found       *)
(* nothing, or stock_sane refuses, the error ends the request and leaves   *)
(* the items after this one as they are.                                   *)
RestockWrite(w) ==
  /\ work[w].stage = "restocking"
  /\ LET i == Head(work[w].todo)
         p == Restock(i, work[w].reason, work[w].seen)
     IN IF Accepts(p)
        THEN /\ Insert(p)
             /\ Continue(w, Then("restock", Tail(work[w].todo), work[w].reason))
        ELSE UNCHANGED stockVars /\ Continue(w, Idle)
  /\ UNCHANGED orderVars

Adjustment(c, n) ==
  [reason |-> IF n > 0 THEN "receive" ELSE "damage", items |-> {},
   hand |-> IF n > 0 THEN 1 ELSE -1, held |-> 0,
   size |-> [d \in Component |-> IF d # c THEN 0 ELSE IF n > 0 THEN n ELSE -n]]

(* adjust_stock: one ledger row for one component; zero is refused by the  *)
(* view and an impossible balance by stock_sane.                           *)
AdjustStock(w, c, n) ==
  /\ Accept(w, Idle)
  /\ Insert(Adjustment(c, n))
  /\ UNCHANGED orderVars

(* The worker process is killed between two transactions, or inside one    *)
(* that has not committed: the rest of its request is lost.                *)
Crash(w) ==
  /\ work[w].stage # "idle"
  /\ Continue(w, Idle)
  /\ UNCHANGED <<stockVars, orderVars>>

-----------------------------------------------------------------------------
Settle == \E o \in Order : MarkPaid(o) \/ MarkPaidNothing(o)

NewRequest(w) ==
  \/ \E i \in Item, to \in Station \cup {NoStation} : AdvanceItem(w, i, to)
  \/ \E o \in Order, restock \in BOOLEAN : CancelOrder(w, o, restock)
  \/ \E o \in Order, amount \in Amount, restock \in BOOLEAN :
       \E i \in ItemsOf(o) \cup {NoItem} :
         \E q \in 0 .. (IF i = NoItem THEN 0 ELSE Qty[i]) :
           RefundOrder(w, o, i, q, amount, restock)
  \/ \E c \in Component, n \in Delta : AdjustStock(w, c, n)

FollowUp(w) ==
  \/ ConsumeRead(w) \/ ConsumeWrite(w)
  \/ RestockRead(w) \/ RestockWrite(w)

Next == Settle \/ \E w \in Worker : NewRequest(w) \/ FollowUp(w) \/ Crash(w)

Spec == Init /\ [][Next]_vars

-----------------------------------------------------------------------------
(* Properties.                                                             *)

Topic(topic, o) == {n \in DOMAIN outbox : outbox[n].topic = topic /\ outbox[n].order = o}

(* A settled order is backed by a reservation of every one of its items:   *)
(* mark_paid never takes the money without taking the stock.               *)
PaidIsReserved ==
  \A o \in Order : payment[o] = "paid" =>
    \A i \in ItemsOf(o) : Rows(i, "reserve") # {}

(* "A Stripe webhook that fires twice must not reserve twice" (mark_paid), *)
(* as far as the code keeps it: an order nothing was refunded on has each  *)
(* item reserved at most once, however often mark_paid runs for it.  After *)
(* a refund a replay reserves again: 'refunded' is <> 'paid' too.          *)
ReservedOnceUnlessRefunded ==
  \A o \in Order : refunded[o] = 0 =>
    \A i \in ItemsOf(o) : \A m, n \in Rows(i, "reserve") : m = n

(* Each order.paid event of an order stands for one reservation of each of *)
(* its items, and conversely.                                              *)
PaidEventsMatchLedger ==
  \A o \in Order : \A i \in ItemsOf(o) :
    Cardinality(Topic("order.paid", o)) = Cardinality(Rows(i, "reserve"))

Refunds(o) ==
  [n \in DOMAIN outbox |-> IF n \in Topic("order.refunded", o) THEN outbox[n].cents ELSE 0]

(* The refunds announced in the outbox add up to what the order records,   *)
(* whatever settlements and cancellations run between them.                *)
RefundEventsAddUp == \A o \in Order : refunded[o] = SumTo(Refunds(o), Len(outbox))

(* "Analytics can never disagree with the ledger" (web/orders.py:4), nor   *)
(* with the orders: what the outbox announces was booked, and conversely,  *)
(* through replays, refused settlements and killed requests.               *)
EventsMatchBooks == PaidEventsMatchLedger /\ RefundEventsAddUp

(* The payment status tells the truth about the money that went back: an   *)
(* order is 'refunded' only if all of it did, 'partially_refunded' only if *)
(* some but not all of it did, and 'unpaid' only if none of it did.        *)
RefundStatusHonest ==
  \A o \in Order :
    /\ payment[o] = "refunded" => refunded[o] >= Total[o]
    /\ payment[o] = "partially_refunded" => refunded[o] \in 1 .. Total[o] - 1
    /\ payment[o] = "unpaid" => refunded[o] = 0

(* "Consumption happens exactly once" (advance_item), the half that says   *)
(* never twice, as far as the code keeps it: it takes two workers that     *)
(* look for the item's consume row before either has written one.          *)
ConsumedOnceUnlessRaced ==
  \A i \in Item : <<"consuming", i>> \notin raced =>
    \A m, n \in Rows(i, "consume") : m = n

(* Physical stock leaves for an item only through consume_for_item and     *)
(* comes back only through restock_for_item.  All together an item is out  *)
(* of the stock at most once and never put back unless it is out, whatever *)
(* cancellations, refunds and moves of it follow one another or overlap,   *)
(* except where two workers consumed it, or put it back, at the same time. *)
OutOnceUnlessRaced ==
  \A i \in Item :
    (\A stage \in {"consuming", "restocking"} : <<stage, i>> \notin raced) =>
      Net(i, "hand") \in {-1, 0}

(* Every transaction of this module keeps the promise of the store: one    *)
(* posting at a time, caches and ledger together, nothing oversold.        *)
StoreDiscipline == StockSpec
=============================================================================
