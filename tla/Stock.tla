------------------------------- MODULE Stock -------------------------------
(***************************************************************************)
(* The inventory store: ops.components and ops.inventory_ledger            *)
(* (db/migrations/20260805000006_ops_inventory.sql).                       *)
(*                                                                         *)
(* The ledger is the append-only truth; components.on_hand and .reserved   *)
(* are caches a trigger moves with every row.  One INSERT statement of the *)
(* program is one *posting*: it writes a row for each component its items  *)
(* are built from, and every such row moves by plus or minus the quantity  *)
(* the bill of materials asks for.  A posting therefore keeps that         *)
(* quantity once, in "size", and the direction in which it moves on_hand   *)
(* ("hand") and reserved ("held").                                         *)
(*                                                                         *)
(* The module is used in two ways: Fulfilment EXTENDS it and builds its    *)
(* transactions from Insert, and StockSpec is the abstract promise         *)
(* Fulfilment is shown to implement.                                       *)
(***************************************************************************)
EXTENDS Integers, Sequences, SequencesExt

CONSTANTS Component,      \* rows of ops.components
          Item,           \* rows of store.order_items, the targets of postings
          Opening         \* the opening balance the migration receives

ASSUME OpeningAssumption == Opening \in [Component -> Nat \ {0}]

VARIABLES onHand, reserved, ledger

stockVars == <<onHand, reserved, ledger>>

(* adj_reason, less the two values no code path writes. *)
Reason == {"receive", "consume", "damage", "return", "correction",
           "cancel_restock", "reserve"}

Direction == {-1, 0, 1}

Posting == [reason : Reason, items : SUBSET Item,
            hand : Direction, held : Direction, size : [Component -> Nat]]

(* The change a posting makes to component c in a column it moves in       *)
(* direction d: new.delta or new.reserved_delta of the row.                *)
Change(d, size, c) == IF d = 1 THEN size[c] ELSE IF d = -1 THEN -size[c] ELSE 0

(* ops.apply_ledger: on_hand = on_hand + new.delta, and likewise reserved. *)
BugAppliedHandOnly(p) ==
  [hand |-> [c \in Component |-> onHand[c] + Change(p.hand, p.size, c)],
   held |-> reserved]

Applied(p) ==
  [hand |-> [c \in Component |-> onHand[c] + Change(p.hand, p.size, c)],
   held |-> [c \in Component |-> reserved[c] + Change(p.held, p.size, c)]]

(* The stock_sane constraint of ops.components. *)
StockSane(hand, held) ==
  \A c \in Component : held[c] \in 0 .. hand[c]

(* The ledger_moves_something constraint: no row may move nothing.  (A row *)
(* is only written for a component with a positive quantity.)              *)
MovesSomething(p) == p.hand # 0 \/ p.held # 0

(* The INSERT succeeds.  Row locks on ops.components are held to the end   *)
(* of the transaction, so checking the final balances checks every row.    *)
Accepts(p) == MovesSomething(p) /\ StockSane(Applied(p).hand, Applied(p).held)

Insert(p) ==
  /\ Accepts(p)
  /\ ledger'   = Append(ledger, p)
  /\ onHand'   = Applied(p).hand
  /\ reserved' = Applied(p).held

(* The opening balances go through the ledger as well: one row per         *)
(* component, which is one posting of the migration's INSERT.              *)
OpeningPosting ==
  [reason |-> "receive", items |-> {}, hand |-> 1, held |-> 0, size |-> Opening]

StockInit ==
  /\ onHand   = Opening
  /\ reserved = [c \in Component |-> 0]
  /\ ledger   = <<OpeningPosting>>

-----------------------------------------------------------------------------
(* The abstract promise: the store only ever changes by one accepted       *)
(* posting at the end of the ledger, caches and ledger together.           *)
StockStep == \E p \in {Last(ledger')} : p \in Posting /\ Insert(p)

StockSpec == StockInit /\ [][StockStep]_stockVars

StockTypeOK ==
  /\ onHand   \in [Component -> Int]
  /\ reserved \in [Component -> Int]
  /\ ledger   \in Seq(Posting)

(* f[1] + ... + f[N]                                                       *)
SumTo(f, N) ==
  LET upto[n \in 0 .. N] == IF n = 0 THEN 0 ELSE upto[n-1] + f[n]
  IN upto[N]

(* The sum of one column of the ledger for component c.  "d" names the     *)
(* column: "hand" is delta, "held" is reserved_delta.                      *)
Column(postings, d, c) ==
  [n \in DOMAIN postings |-> Change(postings[n][d], postings[n].size, c)]
ColumnSum(postings, d, c) == SumTo(Column(postings, d, c), Len(postings))

(* ops.ledger_drift() returns no row: for every component the cached       *)
(* columns equal the sums over the ledger.                                 *)
NoDrift == \A c \in Component : /\ onHand[c]   = ColumnSum(ledger, "hand", c)
                                /\ reserved[c] = ColumnSum(ledger, "held", c)

(* ops.components never holds an oversold row: nothing negative, and never *)
(* more reserved than there is.                                            *)
NotOversold == StockSane(onHand, reserved)
=============================================================================
