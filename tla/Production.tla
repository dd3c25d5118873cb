----------------------------- MODULE Production -----------------------------
(***************************************************************************)
(* The workshop board inside its transactions: advance_item, cancel_order  *)
(* and refund (db/repo/admin.py) and mark_paid (web/orders.py), with the   *)
(* row locks they take, and the trigger store.roll_up_production that      *)
(* keeps orders.production_rollup (migration 005).                         *)
(*                                                                         *)
(* Fulfilment treats each of these transactions as one step.  Here they    *)
(* are taken apart, because READ COMMITTED gives every statement its own   *)
(* snapshot: a trigger that waits for the order's row evaluates its        *)
(* subquery on the snapshot it took before it had to wait.                 *)
(***************************************************************************)
EXTENDS Stations, FiniteSets

CONSTANTS Order, Item,
          OrderOf,        \* order_items.order_id
          Worker,         \* processes of the web and admin apps
          MaxRequests     \* bound: requests in one behaviour

ASSUME OrderAssumption == Order # {}
ASSUME OrderOfAssumption == OrderOf \in [Item -> Order]
ASSUME MaxRequestsAssumption == MaxRequests \in Nat

VARIABLES station,        \* order_items.production_status, committed
          rollup,         \* orders.production_rollup, committed
          cancelled,      \* orders.cancelled_at is not null, committed
          tx,             \* the transaction each worker is in
          requests,
          overlapped      \* history: two transactions were open at one time

vars == <<station, rollup, cancelled, tx, requests, overlapped>>

ItemsOf(o) == {i \in Item : OrderOf[i] = o}

(* The phases of a transaction.  "settling": mark_paid before its foreign  *)
(* key checks; "targets", "marking": cancel_order before and after its     *)
(* second UPDATE chose its rows; "written": the items' statuses are        *)
(* updated; "last": only the UPDATE of the order row is left.              *)
Phase == {"idle", "settling", "targets", "marking", "written", "last"}

(* What a transaction writes to a row it leaves alone.                     *)
Keep == "keep"

(* "writes": its uncommitted item rows, which are locked (FOR UPDATE if    *)
(* "exclusive"); "shares": item rows locked FOR KEY SHARE; "holds": the    *)
(* order row is locked; "cancels": it sets cancelled_at; "count": the      *)
(* rollup it is going to write.                                            *)
Tx == [phase : Phase, order : Order, targets : SUBSET Item,
       writes : [Item -> Station \cup {Keep}], exclusive : BOOLEAN,
       shares : SUBSET Item, holds : BOOLEAN, cancels : BOOLEAN,
       count : Station \cup {NoStation, Keep}]

NoTx == [phase |-> "idle", order |-> CHOOSE o \in Order : TRUE, targets |-> {},
         writes |-> [i \in Item |-> Keep], exclusive |-> FALSE, shares |-> {},
         holds |-> FALSE, cancels |-> FALSE, count |-> Keep]

Locked(w) == {i \in Item : tx[w].writes[i] # Keep}

(* The locks of w another transaction's UPDATE, FOR UPDATE or foreign key  *)
(* check has to wait for.                                                  *)
BlocksUpdate(w) == Locked(w)
BlocksForUpdate(w) == Locked(w) \cup tx[w].shares
BlocksKeyShare(w) == IF tx[w].exclusive THEN Locked(w) ELSE {}

HoldsOrder(w, o) == tx[w].holds /\ tx[w].order = o

Others(w) == Worker \ {w}

OrderFree(w, o) == \A v \in Others(w) : ~HoldsOrder(v, o)

TypeOK ==
  /\ station   \in [Item -> Station]
  /\ rollup    \in [Order -> Station \cup {NoStation}]
  /\ cancelled \in [Order -> BOOLEAN]
  /\ tx        \in [Worker -> Tx]
  /\ requests  \in 0 .. MaxRequests
  /\ overlapped \in BOOLEAN

(* Orders as the storefront leaves them: every item queued.                *)
Init ==
  /\ station   = [i \in Item |-> "queued"]
  /\ rollup    = [o \in Order |-> LeastAdvanced({station[i] : i \in ItemsOf(o)})]
  /\ cancelled = [o \in Order |-> FALSE]
  /\ tx        = [w \in Worker |-> NoTx]
  /\ requests  = 0
  /\ overlapped = FALSE

Begin(w, t) ==
  /\ tx[w].phase = "idle"
  /\ requests < MaxRequests
  /\ requests' = requests + 1
  /\ tx' = [tx EXCEPT ![w] = t]
  /\ overlapped' = (overlapped \/ \E v \in Others(w) : tx[v].phase # "idle")
  /\ UNCHANGED <<station, rollup, cancelled>>

Proceed(w, t) ==
  /\ tx' = [tx EXCEPT ![w] = t]
  /\ UNCHANGED <<station, rollup, cancelled, requests, overlapped>>

-----------------------------------------------------------------------------
(* Faulty variant: SELECT without FOR UPDATE.                              *)
BugAdvance(w, i, to) ==
  /\ to \in Allowed(station[i])
  /\ Begin(w, [NoTx EXCEPT !.phase = "written", !.order = OrderOf[i],
                           !.writes[i] = to, !.exclusive = TRUE])

(* advance_item up to its UPDATE: SELECT ... FOR UPDATE waits for the row, *)
(* reads its current status and keeps it locked.                           *)
Advance(w, i, to) ==
  /\ \A v \in Others(w) : i \notin BlocksForUpdate(v)
  /\ to \in Allowed(station[i])
  /\ Begin(w, [NoTx EXCEPT !.phase = "written", !.order = OrderOf[i],
                           !.writes[i] = to, !.exclusive = TRUE])

(* refund of a line item: refunded_qty is raised, which locks the item;    *)
(* the order row comes last.                                               *)
Refund(w, i) ==
  /\ \A v \in Others(w) : i \notin BlocksUpdate(v)
  /\ Begin(w, [NoTx EXCEPT !.phase = "last", !.order = OrderOf[i],
                           !.writes[i] = station[i]])

(* mark_paid of an order that is not paid: the order row comes first ...   *)
Settle(w, o) ==
  /\ OrderFree(w, o)
  /\ Begin(w, [NoTx EXCEPT !.phase = "settling", !.order = o, !.holds = TRUE])

(* ... and the foreign keys of the ledger rows lock every item.            *)
SettleItems(w) ==
  /\ tx[w].phase = "settling"
  /\ \A v \in Others(w) : ItemsOf(tx[w].order) \cap BlocksKeyShare(v) = {}
  /\ Proceed(w, [tx[w] EXCEPT !.phase = "last", !.shares = ItemsOf(tx[w].order)])

(* cancel_order, first UPDATE: locks the order row, unless the order is    *)
(* cancelled already and the WHERE clause matches nothing.                 *)
Cancel(w, o) ==
  /\ cancelled[o] \/ OrderFree(w, o)
  /\ Begin(w, [NoTx EXCEPT !.phase = "targets", !.order = o,
                           !.holds = ~cancelled[o], !.cancels = TRUE])

(* Second UPDATE, on its snapshot: the rows that are not packed ...        *)
CancelTargets(w) ==
  /\ tx[w].phase = "targets"
  /\ Proceed(w, [tx[w] EXCEPT !.phase = "marking",
                   !.targets = {i \in ItemsOf(tx[w].order) : station[i] # "packed"}])

(* ... each checked again once it is locked.                               *)
CancelMark(w) ==
  /\ tx[w].phase = "marking"
  /\ \A v \in Others(w) : tx[w].targets \cap BlocksUpdate(v) = {}
  /\ LET marked == {i \in tx[w].targets : station[i] # "packed"}
     IN Proceed(w, [tx[w] EXCEPT
          !.phase = IF marked = {} THEN "last" ELSE "written",
          !.writes = [i \in Item |-> IF i \in marked THEN "cancelled" ELSE Keep]])

(* What the transaction sees of an item: its own write, or the committed   *)
(* row.                                                                    *)
View(w, i) == IF tx[w].writes[i] # Keep THEN tx[w].writes[i] ELSE station[i]

(* roll_up_production: the subquery takes its snapshot, then the UPDATE    *)
(* asks for the order row.  It fires once per updated item, so from the    *)
(* second row on the order row is locked before the snapshot.              *)
LocksBeforeCounting(w) == tx[w].holds \/ Cardinality(Locked(w)) > 1

RollUp(w) ==
  /\ tx[w].phase = "written"
  /\ LocksBeforeCounting(w) => OrderFree(w, tx[w].order)
  /\ Proceed(w, [tx[w] EXCEPT
       !.phase = "last",
       !.holds = LocksBeforeCounting(w),
       !.count = LeastAdvanced({View(w, i) : i \in ItemsOf(tx[w].order)})])

(* The UPDATE of the order row gets its lock and the transaction commits.  *)
Commit(w) ==
  /\ tx[w].phase = "last"
  /\ OrderFree(w, tx[w].order)
  /\ station' = [i \in Item |-> View(w, i)]
  /\ rollup' = IF tx[w].count = Keep THEN rollup
               ELSE [rollup EXCEPT ![tx[w].order] = tx[w].count]
  /\ cancelled' = IF tx[w].cancels THEN [cancelled EXCEPT ![tx[w].order] = TRUE]
                  ELSE cancelled
  /\ tx' = [tx EXCEPT ![w] = NoTx]
  /\ UNCHANGED <<requests, overlapped>>

-----------------------------------------------------------------------------
(* v cannot go on until w ends.                                            *)
WaitsFor(v, w) ==
  /\ v # w
  /\ \/ /\ \/ tx[v].phase = "last"
           \/ tx[v].phase = "written" /\ LocksBeforeCounting(v)
        /\ HoldsOrder(w, tx[v].order)
     \/ /\ tx[v].phase = "marking"
        /\ tx[v].targets \cap BlocksUpdate(w) # {}
     \/ /\ tx[v].phase = "settling"
        /\ ItemsOf(tx[v].order) \cap BlocksKeyShare(w) # {}

(* Faulty variant: a cycle is never found.                                 *)
BugDeadlocked(w) == FALSE

(* w is one of a set of transactions that all wait for one another.        *)
Deadlocked(w) ==
  \E S \in SUBSET Worker :
    w \in S /\ \A v \in S : \E u \in S : WaitsFor(v, u)

(* Postgres aborts one transaction of a cycle: DeadlockDetected, a 500.    *)
DeadlockVictim(w) == Deadlocked(w) /\ Proceed(w, NoTx)

(* The worker is killed; the connection's transaction is rolled back.      *)
Crash(w) == tx[w].phase # "idle" /\ Proceed(w, NoTx)

Step(w) ==
  SettleItems(w) \/ CancelTargets(w) \/ CancelMark(w) \/ RollUp(w) \/ Commit(w)

Next ==
  \E w \in Worker :
    \/ \E i \in Item, to \in Station \cup {NoStation} : Advance(w, i, to)
    \/ \E i \in Item : Refund(w, i)
    \/ \E o \in Order : Settle(w, o) \/ Cancel(w, o)
    \/ Step(w) \/ DeadlockVictim(w) \/ Crash(w)

Spec == Init /\ [][Next]_vars

(* A transaction that can run does run, and the database looks for cycles. *)
FairSpec ==
  /\ Spec
  /\ \A w \in Worker : WF_vars(Step(w)) /\ WF_vars(DeadlockVictim(w))

-----------------------------------------------------------------------------
(* s is the status of an open item and no open item is behind it, in the   *)
(* order of the enum; if nothing is open there is no such status.          *)
IsLeast(s, statuses) ==
  LET open == statuses \ {"cancelled"}
  IN IF open = {} THEN s = NoStation
     ELSE /\ s \in open
          /\ \A t \in open : \E m, n \in DOMAIN prod_status :
               prod_status[m] = s /\ prod_status[n] = t /\ m <= n

(* The rollup is what its comment says, "the least-advanced non-cancelled  *)
(* line item", whenever it can be read.                                    *)
RollupExact ==
  \A o \in Order : IsLeast(rollup[o], {station[i] : i \in ItemsOf(o)})

(* The same as far as the code keeps it: as long as no two transactions    *)
(* were open at one time, every commit leaves the rollup exact.            *)
RollupExactAlone == ~overlapped => RollupExact

(* "Illegal transitions return 409" (advance_item), whoever else is        *)
(* working on the same item: no sequence of committed statuses skips a     *)
(* station.  Only a cancellation may interrupt from anywhere but 'packed'. *)
LegalMoves ==
  [][\A i \in Item : station'[i] # station[i] =>
       station'[i] \in Allowed(station[i])]_vars

(* advance_item and refund lock an item and then its order, cancel_order   *)
(* and mark_paid the order and then its items, so they can wait for one    *)
(* another; still every request comes to an end.                           *)
RequestsEnd == \A w \in Worker : tx[w].phase # "idle" ~> tx[w].phase = "idle"
=============================================================================
